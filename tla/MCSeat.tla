-------------------------------- MODULE MCSeat --------------------------------
(***************************************************************************)
(* Who may act, in one run: the sector memory of those who take turns in   *)
(* the seat, the play shell's keys, and the way from a rule to a running   *)
(* macro.  Each behaviour is a behaviour of one of the three, chosen at    *)
(* the start; the others keep their initial state.                         *)
(***************************************************************************)
EXTENDS SectorMemory, PlayShell, Arming, TLC

CONSTANT Parts \* those of this run

VARIABLE part \* the part at work

partVars == <<part, vars, shellVars, armVars>>

\* The sectors that are not StarDock's are interchangeable.
Symmetry == Permutations(Sectors \ {Dock})

Guard(fact, does) == [fact |-> fact, posture |-> does]
Rule(id, macro, priority, scope, guards) ==
  [id |-> id, match |-> "port", macro |-> macro, priority |-> priority, scope |-> scope,
   guards |-> guards, approved |-> TRUE]
SellRule == Rule("A", "sell", 2, "one-shot", {Guard("live", "ineligible")})
LeaveRule == Rule("B", "leave", 1, "repeating", {})
StopRule == [Rule("C", "leave", 3, "one-shot", {Guard("live", "stop")}) EXCEPT !.match = "command"]
AwayRule == [Rule("D", "sell", 1, "repeating", {}) EXCEPT !.match = "command"]
RuleStore(health, rules) == [status |-> health, rules |-> rules]
MCLibraries == {RuleStore("ok", {SellRule, LeaveRule, StopRule, AwayRule}), RuleStore("partial", {LeaveRule})}
MCRails == {[floor |-> 1, target |-> 1]}

-------------------------------------------------------------------------------
\* A part at rest has one initial state.
PartsInit ==
  /\ part \in Parts
  /\ Init /\ (part # "memory" => ship = Dock)
  /\ ShellInit
  /\ ArmInit /\ (part # "arming" => class = "port" /\ ruleStore = RuleStore("partial", {LeaveRule}))

OthersRest ==
  /\ UNCHANGED part
  /\ part # "memory" => UNCHANGED vars
  /\ part # "shell" => UNCHANGED shellVars
  /\ part # "arming" => UNCHANGED armVars

\* A part takes a step and the others rest.
PartsNext ==
  \/ part = "memory" /\ Next /\ OthersRest
  \/ part = "shell" /\ ShellNext /\ OthersRest
  \/ part = "arming" /\ ArmNext /\ OthersRest

PartsSpec == PartsInit /\ [][PartsNext]_partVars

-------------------------------------------------------------------------------
\* What the operator did not say y to is not started: nothing starts under a
\* human, and no rule is armed over another that says stop.
NothingUnapproved == [][HandsOffWhileAttached /\ NoRuleOverridden]_partVars
===============================================================================

-------------------------------- MODULE Arming --------------------------------
(***************************************************************************)
(* From a screen to a running macro.  The rule engine proposes (reflex), a *)
(* human says yes to the proposal (tw reflex --arm, or the shell), the     *)
(* daemon derives it anew and starts the macro if it is still the same     *)
(* (reflex_arm); the run may be paused, stopped and launched again         *)
(* (autoloop_relaunch).  Every verb runs in a thread of its own, so the    *)
(* screen, the rules on disk and the runner may change between two steps   *)
(* of one verb (rule_engine.py, rules/reflex.py, rules/arm.py,             *)
(* session/protocol.py, session/autoloop.py).                              *)
(***************************************************************************)
EXTENDS Integers, FiniteSets

CONSTANTS
  ScreenClasses,   \* classes of a screen
  Facts,     \* what a guard may ask of the status
  Libraries, \* the rule stores there may be, as read_rule_store reads them
  Rails,     \* the rails a start by hand may set
  Asked,     \* the cycles a start may ask for
  PassCeiling,   \* CYCLES_HARD_CEILING
  Unnamed    \* no macro, no rule

ASSUME ArmingAssumption ==
  /\ PassCeiling \in Nat \ {0} /\ Asked \subseteq Nat \ {0}
  /\ \A l \in Libraries : /\ l.status \in {"ok", "absent", "partial", "unreadable"}
                          /\ IsFiniteSet(l.rules) /\ \A r \in l.rules : r.priority \in Int

VARIABLES
  class, facts, \* what the screen and the session show; a fact is "yes", "no" or "unknown"
  ruleStore,      \* the rule store
  proposal,        \* the proposal the human looks at
  promised,     \* the one the human said yes to, on its way to the daemon
  status,       \* reflex_arm's one status read: "none", or what it showed
  arming,        \* what reflex_arm has decided to start: a macro and its cycles
  running,      \* _in_flight
  stopEvent,         \* the run's stop event
  runReport,       \* the RunReport: what the run was started with, and its passes
  standing,    \* "none", "pause", "stop"
  paused        \* the report autoloop_relaunch has read, or the empty one

armScreenVars == <<class, facts, ruleStore>>
humanVars == <<proposal, promised>>
runnerVars == <<running, stopEvent, runReport, standing>>
armVars == <<armScreenVars, humanVars, status, arming, runnerVars, paused>>

NoProposal == [macro |-> Unnamed, rule |-> Unnamed, class |-> Unnamed, scope |-> "one-shot"]
NoArmReport == [macro |-> Unnamed, floor |-> 0, target |-> 0, cycles |-> 1, pass |-> 0]
NoStatus == [read |-> FALSE, class |-> Unnamed, facts |-> [f \in Facts |-> "unknown"]]
NotArmed == [macro |-> Unnamed, cycles |-> 1]

\* A guard passes on a fact that is known to hold, and on nothing else.
GuardHolds(guard, known) == known[guard.fact] = "yes"
StopsOnNo(r, known) == \E g \in r.guards : g.posture = "stop" /\ known[g.fact] = "no"
Stops(r, known) == \E g \in r.guards : g.posture = "stop" /\ ~GuardHolds(g, known)
Eligible(r, known) == \A g \in r.guards : GuardHolds(g, known)

\* select_rule: a stop wins over everything; else the one rule of the highest
\* priority among the eligible, and nothing when there are two.
Select(lib, c, known) ==
  LET candidates == {r \in lib.rules : r.approved /\ r.match = c}
      eligible == {r \in candidates : Eligible(r, known)}
      winners == {r \in eligible : \A o \in eligible : o.priority <= r.priority} IN
  IF \/ lib.status \notin {"ok", "absent"} \/ \E r \in candidates : Stops(r, known)
     \/ Cardinality(winners) # 1
  THEN NoProposal
  ELSE LET r == CHOOSE r \in winners : TRUE IN
       [macro |-> r.macro, rule |-> r.id, class |-> c, scope |-> r.scope]

\* What the human confirms of a proposal (PROPOSAL_IDENTITY).
Identity(p) == <<p.rule, p.macro, p.class>>

ArmInit ==
  /\ class \in ScreenClasses /\ facts = [f \in Facts |-> "unknown"] /\ ruleStore \in Libraries
  /\ proposal = NoProposal /\ promised = NoProposal
  /\ status = NoStatus /\ arming = NotArmed
  /\ running = FALSE /\ stopEvent = FALSE /\ runReport = NoArmReport /\ standing = "none" /\ paused = NoArmReport

-------------------------------------------------------------------------------
\* The game shows another screen, the session another state, and somebody
\* approves, edits or withdraws a rule.
Changes ==
  /\ \/ class' \in ScreenClasses \ {class} /\ UNCHANGED <<facts, ruleStore>>
     \/ (\E f \in Facts, v \in {"yes", "no"} : facts' = [facts EXCEPT ![f] = v]) /\ UNCHANGED <<class, ruleStore>>
     \/ ruleStore' \in Libraries \ {ruleStore} /\ UNCHANGED <<class, facts>>
  /\ UNCHANGED <<humanVars, status, arming, runnerVars, paused>>

\* The reflex verb, answered to the human.
Proposes ==
  /\ promised = NoProposal
  /\ proposal' = Select(ruleStore, class, facts)
  /\ UNCHANGED <<armScreenVars, promised, status, arming, runnerVars, paused>>

\* A typed y; anything else, or no complete identity, promises nothing.
Agrees ==
  /\ proposal # NoProposal
  /\ \/ promised' = proposal \/ promised' = NoProposal
  /\ proposal' = NoProposal
  /\ UNCHANGED <<armScreenVars, status, arming, runnerVars, paused>>

\* reflex_arm: the status, read once.
ReadsStatus ==
  /\ promised # NoProposal /\ ~status.read
  /\ status' = [read |-> TRUE, class |-> class, facts |-> facts]
  /\ UNCHANGED <<armScreenVars, humanVars, arming, runnerVars, paused>>

\* proposal_drift: nothing of the identity has changed.
NotGone(fresh) == fresh # NoProposal
NotDrifted(fresh) == fresh # NoProposal /\ Identity(fresh) = Identity(promised)

\* The rules, read after it; the proposal must still be the promised one.
Derives ==
  /\ status.read /\ arming = NotArmed
  /\ LET fresh == Select(ruleStore, status.class, status.facts) IN
     IF NotDrifted(fresh)
     THEN /\ arming' = [macro |-> fresh.macro, cycles |-> IF fresh.scope = "repeating" THEN PassCeiling ELSE 1]
          /\ UNCHANGED <<promised, status>>
     ELSE promised' = NoProposal /\ status' = NoStatus /\ UNCHANGED arming
  /\ UNCHANGED <<armScreenVars, proposal, runnerVars, paused>>

-------------------------------------------------------------------------------
(* AutoLoopRunner                                                          *)

Begins(macro, floor, target, cycles) ==
  /\ runReport' = [macro |-> macro, floor |-> floor, target |-> target, pass |-> 1,
                cycles |-> IF cycles < PassCeiling THEN cycles ELSE PassCeiling]
  /\ running' = TRUE /\ stopEvent' = FALSE /\ standing' = "none"

\* start is refused while a run is in flight, when the seat is taken or when
\* the macro cannot be loaded.
ArmStarts ==
  /\ arming # NotArmed
  /\ \/ ~running /\ Begins(arming.macro, 0, 0, arming.cycles)
     \/ UNCHANGED runnerVars
  /\ arming' = NotArmed /\ promised' = NoProposal /\ status' = NoStatus
  /\ UNCHANGED <<armScreenVars, proposal, paused>>

\* autoloop_start with the rails of the caller's choosing.
StartsByHand ==
  /\ ~running
  /\ \E m \in {r.macro : r \in UNION {l.rules : l \in Libraries}}, rails \in Rails, c \in Asked :
       Begins(m, rails.floor, rails.target, c)
  /\ UNCHANGED <<armScreenVars, humanVars, status, arming, paused>>

\* The thread: another pass after one that completed, the end after one that
\* did not, after the last, or when stood down.
PassEnds ==
  /\ running
  /\ \/ /\ ~stopEvent /\ runReport.pass < runReport.cycles
        /\ runReport' = [runReport EXCEPT !.pass = @ + 1] /\ UNCHANGED running
     \/ running' = FALSE /\ UNCHANGED runReport
  /\ stopEvent' = (stopEvent /\ running')
  /\ UNCHANGED <<armScreenVars, humanVars, status, arming, standing, paused>>

\* pause and stop: the intent first, then the event of the run, if there is one.
IsStoodDown(intent) ==
  /\ standing' = intent /\ stopEvent' = running
  /\ UNCHANGED <<armScreenVars, humanVars, status, arming, running, runReport, paused>>

\* autoloop_relaunch: reads the snapshot, then starts from its report.
ReadsPaused ==
  /\ standing = "pause" /\ runReport # NoArmReport /\ paused = NoArmReport
  /\ paused' = runReport
  /\ UNCHANGED <<armScreenVars, humanVars, status, arming, runnerVars>>

Relaunches ==
  /\ paused # NoArmReport
  /\ \/ ~running /\ Begins(paused.macro, paused.floor, 0, paused.cycles)
     \/ UNCHANGED runnerVars
  /\ paused' = NoArmReport
  /\ UNCHANGED <<armScreenVars, humanVars, status, arming>>

ArmNext ==
  \/ Changes \/ Proposes \/ Agrees \/ ReadsStatus \/ Derives \/ ArmStarts \/ StartsByHand
  \/ PassEnds \/ IsStoodDown("pause") \/ IsStoodDown("stop") \/ ReadsPaused \/ Relaunches
ArmSpec == ArmInit /\ [][ArmNext]_armVars

-------------------------------------------------------------------------------
ArmTypeOK ==
  /\ class \in ScreenClasses /\ facts \in [Facts -> {"yes", "no", "unknown"}] /\ ruleStore \in Libraries
  /\ running \in BOOLEAN /\ stopEvent \in BOOLEAN /\ (stopEvent => running)
  /\ standing \in {"none", "pause", "stop"} /\ status.read \in BOOLEAN
  /\ runReport.cycles \in 1..PassCeiling /\ runReport.pass \in 0..runReport.cycles

\* What reflex_arm starts is the macro a human said yes to, and it was still
\* the answer, for the promised screen and by the promised rule, when the
\* daemon looked (proposal_drift).
ArmedIsPromised ==
  arming # NotArmed => arming.macro = promised.macro /\ status.class = promised.class

ArmInv == ArmTypeOK /\ ArmedIsPromised

\* When a rule's macro is armed, no approved rule for that screen said stop,
\* and none with as high a priority was eligible (select_rule).
NoRuleOverridden ==
  arming = NotArmed /\ arming' # NotArmed =>
     \E r \in ruleStore.rules :
       /\ r.id = promised.rule /\ r.approved /\ Eligible(r, status.facts)
       /\ \A o \in ruleStore.rules : o.approved /\ o.match = status.class =>
            /\ \A g \in o.guards : g.posture = "stop" => status.facts[g.fact] = "yes"
            /\ o = r \/ o.priority < r.priority \/ \E g \in o.guards : status.facts[g.fact] # "yes"

\* protocol.py 1077-1080: a relaunch takes up the arguments of the paused run,
\* so that the operator need not type them again.  Refuted: the profit target
\* is not among those passed on (protocol.py 1108-1113).
RelaunchKeepsRails ==
  [][Relaunches /\ running' # running =>
     runReport'.floor = paused.floor /\ runReport'.target = paused.target /\ runReport'.cycles = paused.cycles]_armVars
===============================================================================

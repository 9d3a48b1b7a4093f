------------------------------- MODULE PlayShell ------------------------------
(***************************************************************************)
(* The play shell's key loop (app.py, _run_play) with the gates of its     *)
(* screen (screens.py, PlayShellScreen.handle_key).  One key is one step.  *)
(* While attached a key goes to the game; otherwise the screen turns it    *)
(* into an intent - a gate that is up takes it first - and a key without   *)
(* an intent may still be one of the loop's own offer keys.  Starts and    *)
(* stops are requests to the daemon, whose one runner may also end by      *)
(* itself, refuse, or start although the answer is lost.                   *)
(*                                                                         *)
(* A plan stands for what an offer would run (a trade chain, a hold buy, a *)
(* reflex, an analyze draft).  Left out: the record session, the rules     *)
(* library, the list cursors, the connection chip, status texts.           *)
(***************************************************************************)
EXTENDS Naturals, FiniteSets

CONSTANTS
  Offers,     \* what an offer may propose
  Armable,    \* what the list of loops has rows of
  NoPlan

ASSUME ShellAssumption == NoPlan \notin Offers /\ Armable \subseteq {"discovered", "taught"}

\* The keys that mean something somewhere, and "n" for the others.
Keys == {"y", "n", "esc", "mode", "enter", "o", "e", "h", "g",
         "v", "d", "t", "space", "a", "l", "z"}

VARIABLES
  shell,      \* "idle" outside, "loop" inside _run_play
  conn,       \* attach_conn is set
  attached, spectating,
  gates,      \* _arm_confirm, _genesis_confirm, _rule_identity, _draft_approve
  analyzing,  \* analyze_session is open
  pendingConfirm,    \* pending_confirm_action
  slots,       \* pending_confirm_trade, _hold, _reflex
  confirmText,      \* what the confirm on the screen says it will start
  dock,       \* explore_dock_opt_in, standing for the tolls opt-in as well
  loopArm,    \* trade_loop_arm: "none", "discovered", "taught"
  polls,      \* the *_poll_active flags that are set
  runner,     \* the daemon: what runs
  ending,     \* the daemon: it was asked to stop
  unseen,     \* it runs, but its start or a poll was not answered (history)
  stopFailed  \* the last stop before an attach failed (history)

seatVars == <<conn, attached, spectating>>
gateVars == <<gates, pendingConfirm, slots, confirmText>>
daemonVars == <<runner, ending, unseen, stopFailed>>
shellVars == <<shell, seatVars, gateVars, analyzing, dock, loopArm, polls, daemonVars>>

Slots == {"trade", "hold", "reflex"}
NoneHeld == [s \in Slots |-> NoPlan]
NoConfirm == [kind |-> "none", plan |-> NoPlan, dock |-> FALSE]
Flag(kind) == IF kind = "loop" THEN "autoloop" ELSE kind

ShellInit ==
  /\ shell = "idle"
  /\ conn = FALSE /\ attached = FALSE /\ spectating = FALSE
  /\ gates = {} /\ pendingConfirm = "none" /\ slots = NoneHeld /\ confirmText = NoConfirm
  /\ analyzing = FALSE /\ dock = TRUE
  /\ loopArm = "none" /\ polls = {}
  /\ runner = "none" /\ ending = FALSE /\ unseen = FALSE /\ stopFailed = FALSE

\* A start request: granted, refused, or granted with the answer lost.
StartCall(kind, ok) ==
  /\ \/ ok /\ runner = "none" /\ runner' = kind /\ ending' = FALSE /\ unseen' = FALSE
     \/ ~ok /\ UNCHANGED <<runner, ending, unseen>>
     \/ ~ok /\ runner = "none" /\ runner' = kind /\ ending' = FALSE /\ unseen' = TRUE
  /\ UNCHANGED stopFailed

StopCallTaught(kinds, ok) ==
  /\ ending' = (ending \/ (ok /\ runner \in kinds \ {"hold"}))
  /\ UNCHANGED runner
\* A stop request for runners of some kinds; it may fail.
StopCall(kinds, ok) ==
  /\ ending' = (ending \/ (ok /\ runner \in kinds))
  /\ UNCHANGED runner

\* _start_policy_explore, without a confirm: at the start and on E.  The flag
\* becomes what this start came to, whatever ran before.
PolicyExplore(ok) ==
  \/ ok /\ StartCall("explore", TRUE) /\ polls' = polls \cup {"explore"}
  \/ /\ ~ok /\ polls' = polls \ {"explore"}
     /\ IF runner # "explore" THEN StartCall("explore", FALSE)
        ELSE unseen' = TRUE /\ UNCHANGED <<runner, ending, stopFailed>>

Enters ==
  /\ shell = "idle" /\ shell' = "loop"
  /\ \/ UNCHANGED <<polls, daemonVars>>
     \/ \E ok \in BOOLEAN : PolicyExplore(ok)
  /\ UNCHANGED <<seatVars, gateVars, analyzing, dock, loopArm>>

-------------------------------------------------------------------------------
\* No key for a second: the first flag that is set is polled; when none is and
\* nobody drives by hand, an upgrade at the top of the focus list is bought.
TickPollsOnce(flag, others) ==
  /\ flag \in polls /\ polls \cap others = {}
  /\ \/ polls' = {} /\ UNCHANGED unseen
     \/ polls' = polls \ {flag} /\ unseen' = (unseen \/ Flag(runner) = flag)
  /\ UNCHANGED <<runner, ending, stopFailed>>
TickPolls(flag, others) ==
  /\ flag \in polls /\ polls \cap others = {}
  /\ \/ polls' = (IF Flag(runner) = flag THEN polls ELSE polls \ {flag}) /\ UNCHANGED unseen
     \/ polls' = polls \ {flag} /\ unseen' = (unseen \/ Flag(runner) = flag)
  /\ UNCHANGED <<runner, ending, stopFailed>>

AutoFiresBehind ==
  /\ polls = {}
  /\ \E ok \in BOOLEAN :
       /\ StartCall("hold", ok)
       /\ polls' = IF ok THEN {"hold"} ELSE {}
AutoFires ==
  /\ polls = {} /\ ~conn /\ ~spectating /\ ~attached
  /\ \E ok \in BOOLEAN :
       /\ StartCall("hold", ok)
       /\ polls' = IF ok THEN {"hold"} ELSE {}

Idles ==
  /\ shell = "loop"
  /\ \/ TickPolls("explore", {}) \/ TickPolls("trade", {"explore"})
     \/ TickPolls("autoloop", {"explore", "trade"})
     \/ TickPolls("hold", {"explore", "trade", "autoloop"})
     \/ AutoFires
  /\ UNCHANGED <<shell, seatVars, gateVars, analyzing, dock, loopArm>>

\* A key while attached goes to the game, but Esc: Ctrl-A hands the seat to
\* the app; Ctrl-] and a send that fails end in spectating.
KeyToGame ==
  /\ shell = "loop" /\ conn
  /\ \/ UNCHANGED seatVars
     \/ conn' = FALSE /\ attached' = FALSE /\ spectating' \in BOOLEAN
  /\ stopFailed' = (stopFailed /\ conn')
  /\ UNCHANGED <<shell, gateVars, analyzing, dock, loopArm, polls, runner, ending, unseen>>

-------------------------------------------------------------------------------
\* handle_key: the gate on top takes the key, whatever it is.
TopGate ==
  IF gates = {} THEN "none"
  ELSE IF "arm" \in gates THEN "arm"
  ELSE IF "genesis" \in gates THEN "genesis"
  ELSE IF "identity" \in gates THEN "identity" ELSE "draft"

Bound == [mode |-> "attach", t |-> "trade_loop_toggle", v |-> "reflex_offer",
          z |-> "genesis_offer", space |-> "pause", l |-> "chains_open"]

IntentUnder(top, k) ==
  IF top = "arm" THEN IF k = "y" THEN "arm_confirm" ELSE "none"
  ELSE IF top = "genesis" THEN IF k = "y" THEN "genesis_confirm" ELSE "none"
  ELSE IF top = "identity" THEN IF k = "esc" THEN "rule_identity_cancel"
                                ELSE IF k = "enter" THEN "rule_identity" ELSE "none"
  ELSE IF top = "draft" THEN IF k = "y" THEN "draft_approve" ELSE "draft_reject"
  ELSE IF k = "esc" THEN IF analyzing THEN "analyze_close" ELSE "back"
  ELSE IF k = "a" THEN IF analyzing THEN "analyze_close" ELSE "analyze_open"
  ELSE IF k \in DOMAIN Bound THEN Bound[k] ELSE "none"
Intent(k) == IntentUnder(TopGate, k)

\* The gates a key leaves: all but the rule form are gone after one key.
Left == gates \ (IF TopGate = "identity" THEN {} ELSE {TopGate})

Handles(k, intent) == shell = "loop" /\ (conn => k = "esc") /\ Intent(k) = intent
AsksConfirm(action, slot, plan) ==
  /\ gates' = Left \cup {"arm"} /\ pendingConfirm' = action
  /\ slots' = [s \in Slots |-> IF s = slot THEN plan ELSE NoPlan]
  /\ confirmText' = [kind |-> action, plan |-> plan, dock |-> dock]
Lowers == gates' = Left /\ confirmText' = (IF TopGate = "arm" THEN NoConfirm ELSE confirmText)
Still == UNCHANGED <<shell, seatVars, analyzing, dock, loopArm, polls, daemonVars>>

\* A key that only takes a gate down.
Unwanted == {k \in Keys \ {"o", "h", "g"} : (conn => k = "esc") /\ Intent(k) = "none"}
Drops ==
  /\ shell = "loop" /\ Unwanted # {} /\ gates # {}
  /\ Lowers /\ UNCHANGED <<pendingConfirm, slots>> /\ Still

\* O: the autonomy policy's offer, when it has one; H: a hold buy.
OffersAutonomy ==
  /\ Handles("o", "none")
  /\ \/ Lowers /\ UNCHANGED <<pendingConfirm, slots>>
     \/ AsksConfirm("explore", "none", NoPlan)
     \/ \E p \in Offers : AsksConfirm("trade", "trade", p) \/ AsksConfirm("hold", "hold", p)
  /\ Still
OffersHold ==
  /\ Handles("h", "none")
  /\ \/ Lowers /\ UNCHANGED <<pendingConfirm, slots>>
     \/ \E p \in Offers : AsksConfirm("hold", "hold", p)
  /\ Still

\* G, V and Z leave an older trade plan in its slot.
Keeping(slot, plan) == slots' = [NoneHeld EXCEPT !["trade"] = slots["trade"], ![slot] = plan]
OffersRelaunch ==
  /\ Handles("g", "none")
  /\ gates' = Left \cup {"arm"} /\ pendingConfirm' = "relaunch" /\ Keeping("hold", NoPlan)
  /\ confirmText' = [kind |-> "relaunch", plan |-> NoPlan, dock |-> dock]
  /\ Still
OffersReflex ==
  /\ Handles("v", "reflex_offer")
  /\ \/ Keeping("hold", NoPlan) /\ UNCHANGED <<gates, pendingConfirm, confirmText>>
     \/ \E p \in Offers :
          /\ gates' = Left \cup {"arm"} /\ pendingConfirm' = "reflex" /\ Keeping("reflex", p)
          /\ confirmText' = [kind |-> "reflex", plan |-> p, dock |-> dock]
  /\ Still
OffersGenesis ==
  /\ Handles("z", "genesis_offer")
  /\ gates' = Left \cup {"genesis"} /\ pendingConfirm' = "genesis" /\ Keeping("hold", NoPlan) /\ UNCHANGED confirmText
  /\ Still
\* Never sent: a connection would have taken the y, and has no send anyway.
RefusesGenesis ==
  /\ Handles("y", "genesis_confirm")
  /\ Lowers /\ pendingConfirm' = "none" /\ UNCHANGED slots /\ Still

\* D flips an opt-in, E starts the policy's explore.
TogglesDock ==
  /\ Handles("d", "none")
  /\ dock' = ~dock /\ Lowers
  /\ UNCHANGED <<shell, seatVars, analyzing, pendingConfirm, slots, loopArm,
                 polls, daemonVars>>
StartsExplore ==
  /\ Handles("e", "none")
  /\ \E ok \in BOOLEAN : PolicyExplore(ok)
  /\ Lowers
  /\ UNCHANGED <<shell, seatVars, analyzing, pendingConfirm, slots, dock, loopArm>>
-------------------------------------------------------------------------------
\* y to a confirm: the pending action picks its slot, and what the slot holds
\* is started.
SlotFilled(action) == IF slots["trade"] # NoPlan THEN slots["trade"] ELSE IF action \in Slots THEN slots[action] ELSE NoPlan
Slot(action) == IF action \in Slots THEN slots[action] ELSE NoPlan
ConfirmedStart(action) == [kind |-> action, plan |-> Slot(action), dock |-> dock]
Runs(action) == IF action \in {"relaunch", "reflex"} THEN "loop" ELSE action

ArmConfirmed ==
  /\ Handles("y", "arm_confirm") /\ pendingConfirm \in {"trade", "hold", "relaunch", "reflex", "explore"}
  /\ Lowers /\ pendingConfirm' = "none"
  /\ slots' = CASE pendingConfirm \in {"trade", "hold"} -> NoneHeld
               [] pendingConfirm = "relaunch" -> [slots EXCEPT !["hold"] = NoPlan]
               [] OTHER -> [slots EXCEPT !["hold"] = NoPlan, !["reflex"] = NoPlan]
  /\ IF pendingConfirm \in Slots /\ slots[pendingConfirm] = NoPlan
     THEN UNCHANGED <<polls, daemonVars>>
     ELSE \E ok \in BOOLEAN :
            /\ StartCall(Runs(pendingConfirm), ok)
            /\ polls' = IF ok THEN polls \cup {Flag(Runs(pendingConfirm))} ELSE polls
  /\ UNCHANGED <<shell, seatVars, analyzing, dock, loopArm>>

\* Space: the taught run is parked.
Pauses ==
  /\ Handles("space", "pause")
  /\ \E ok \in BOOLEAN :
       /\ StopCall({"loop"}, ok)
       /\ polls' = IF ok THEN polls \ {"autoloop"} ELSE polls
  /\ UNCHANGED <<shell, seatVars, gateVars, analyzing, dock, loopArm, unseen, stopFailed>>

\* T: stop what T started, else start the armed loop in explore's place.  The
\* calls report a refusal as a result, which the stops do not look at.
StopsLoop(flag, kind) ==
  /\ Handles("t", "trade_loop_toggle") /\ flag \in polls
  /\ flag = "autoloop" => "trade" \notin polls
  /\ \E ok \in BOOLEAN :
       /\ StopCall({kind}, ok)
       /\ unseen' = (unseen \/ (~ok /\ runner = kind))
  /\ polls' = polls \ {flag}
  /\ UNCHANGED <<shell, seatVars, gateVars, analyzing, dock, loopArm, stopFailed>>

StartsLoop ==
  /\ Handles("t", "trade_loop_toggle") /\ polls \cap {"trade", "autoloop"} = {}
  /\ \/ UNCHANGED <<polls, daemonVars>>
     \/ /\ loopArm # "none"
        /\ \E ok \in BOOLEAN :
             LET kind == IF loopArm = "discovered" THEN "trade" ELSE "loop"
             IN IF runner = "none"
                THEN /\ StartCall(kind, ok)
                     /\ polls' = (polls \ {"explore"}) \cup (IF ok THEN {Flag(kind)} ELSE {})
                ELSE /\ StopCall({"explore"}, ok) /\ UNCHANGED stopFailed
                     /\ unseen' = (unseen \/ (~ok /\ runner = "explore"))
                     /\ polls' = polls \ {"explore"}
  /\ UNCHANGED <<shell, seatVars, gateVars, analyzing, dock, loopArm>>

\* Ctrl-A: every runner is asked to stop, then the human's seat is asked for.
Attaches ==
  /\ Handles("mode", "attach") /\ ~conn
  /\ \/ conn' = TRUE /\ attached' = TRUE /\ spectating' = FALSE
     \/ UNCHANGED seatVars
  /\ \E ok \in BOOLEAN :
       /\ StopCall({"explore", "trade", "loop", "hold"}, ok)
       /\ stopFailed' = (~ok /\ conn') /\ unseen' = (unseen \/ (~ok /\ runner # "none"))
  /\ polls' = {}
  /\ UNCHANGED <<shell, gateVars, analyzing, dock, loopArm>>

\* Leaving closes the attach and forgets the rest: the shell that is entered
\* next does not know what runs.
Leaves ==
  /\ Handles("esc", "back")
  /\ shell' = "idle" /\ conn' = FALSE /\ attached' = FALSE /\ spectating' = FALSE
  /\ gates' = {} /\ pendingConfirm' = "none" /\ slots' = NoneHeld /\ confirmText' = NoConfirm
  /\ analyzing' = FALSE /\ dock' = TRUE /\ loopArm' = "none" /\ polls' = {}
  /\ unseen' = (runner # "none") /\ stopFailed' = FALSE
  /\ UNCHANGED <<runner, ending>>

-------------------------------------------------------------------------------
\* The list of loops is opened and closed again, a row taken for T's or not.
Browses ==
  /\ Handles("l", "chains_open")
  /\ loopArm' \in {loopArm} \cup Armable
  /\ UNCHANGED <<shell, seatVars, gateVars, analyzing, dock, polls, daemonVars>>

Analyzes ==
  /\ Handles("a", "analyze_open") /\ analyzing' = TRUE
  /\ UNCHANGED <<shell, seatVars, gateVars, dock, loopArm, polls, daemonVars>>

\* Analyze drafts a rule, y approves it, the form names it, and it is written.
Drafts(k) ==
  /\ Handles(k, "analyze_close")
  /\ analyzing' = FALSE /\ gates' \in {gates, gates \cup {"draft"}}
  /\ UNCHANGED <<shell, seatVars, pendingConfirm, slots, confirmText, dock, loopArm, polls, daemonVars>>
DraftDecided(k) ==
  /\ \/ Handles(k, "draft_approve") /\ gates' = {"identity"}
     \/ Handles(k, "draft_reject") /\ gates' = {}
     \/ Handles(k, "rule_identity") /\ gates' \in {gates, {}}
     \/ Handles(k, "rule_identity_cancel") /\ gates' = {}
  /\ UNCHANGED <<shell, seatVars, pendingConfirm, slots, confirmText, analyzing, dock, loopArm, polls, daemonVars>>

RunnerEnds ==
  /\ runner # "none" /\ runner' = "none" /\ ending' = FALSE /\ unseen' = FALSE
  /\ UNCHANGED <<shell, seatVars, gateVars, analyzing, dock, loopArm, polls, stopFailed>>

\* Any key but y rejects a draft, n for all of them.
ShellNext ==
  \/ Enters \/ Idles \/ RunnerEnds \/ KeyToGame \/ Drops
  \/ Leaves \/ (\E k \in {"esc", "a"} : Drafts(k)) \/ (\E k \in {"y", "enter", "esc", "n"} : DraftDecided(k))
  \/ OffersAutonomy \/ OffersHold \/ OffersRelaunch \/ OffersReflex \/ OffersGenesis
  \/ RefusesGenesis \/ TogglesDock \/ StartsExplore \/ ArmConfirmed \/ Pauses
  \/ StopsLoop("trade", "trade") \/ StopsLoop("autoloop", "loop") \/ StartsLoop
  \/ Attaches \/ Browses \/ Analyzes

ShellSpec == ShellInit /\ [][ShellNext]_shellVars

-------------------------------------------------------------------------------
ShellTypeOK ==
  /\ shell \in {"idle", "loop"}
  /\ gates \subseteq {"arm", "genesis", "identity", "draft"}
  /\ polls \subseteq {"explore", "trade", "autoloop", "hold"}
  /\ pendingConfirm \in {"none", "explore", "trade", "hold", "relaunch", "reflex", "genesis"}
  /\ slots \in [Slots -> Offers \cup {NoPlan}]
  /\ runner \in {"none", "explore", "trade", "loop", "hold"} /\ loopArm \in {"none", "discovered", "taught"}
  /\ \A v \in {conn, analyzing, attached, spectating, dock, ending, unseen, stopFailed} : v \in BOOLEAN

\* A y starts what the confirm on the screen names, with the plan and opt-in
\* it names, whatever was declined and left in a slot before it.
ApprovedIsShown ==
  "arm" \in gates => ConfirmedStart(pendingConfirm) = confirmText

\* While a human has the seat from this shell nothing is started from it: no
\* gate, no idle tick and no toggle reaches the daemon.
HandsOffWhileAttached ==
  runner' # runner /\ runner' # "none" => ~conn /\ ~attached

\* A run that was started and not asked to stop is being polled, unless the
\* shell was not told, or E was pressed again over a running explore.
RunWatched ==
  runner # "none" /\ ~ending /\ ~unseen => Flag(runner) \in polls

\* Once attached, whatever ran was asked to stop or the screen said it was not.
HumanAlone == attached => runner = "none" \/ ending \/ stopFailed

\* No run goes on that the shell neither watches nor has asked to stop, and
\* none is started that the screen did not name.
RunsAccountedFor == ShellTypeOK /\ RunWatched /\ HumanAlone /\ ApprovedIsShown

\* screens.py calls the capture of a gate total: a key it declines with raises
\* no other confirm, and starts no run the operator did not say y to.
CaptureIsTotal ==
  [][gates # {} =>
       /\ confirmText' \in {confirmText, NoConfirm}
       /\ "explore" \in polls' \ polls => pendingConfirm = "explore" /\ pendingConfirm' = "none"]_shellVars
===============================================================================

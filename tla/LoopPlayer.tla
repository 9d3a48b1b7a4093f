------------------------------ MODULE LoopPlayer ------------------------------
(***************************************************************************)
(* The macro player (loops/player.py) inside its runner                    *)
(* (session/autoloop.py): a taught macro of Steps keystroke strings is     *)
(* replayed for a number of cycles.  Before every send the player settles, *)
(* looks at the screen once and runs every rail over what it saw: the      *)
(* human's fence, the operator's stop, the screen classes nothing may      *)
(* answer automatically, the hazards, the credit floor, the turn budget,   *)
(* the profit target and the start anchor.                                 *)
(*                                                                         *)
(* A gauge (credits, turns, profit) has a true value in the game and a     *)
(* snapshot in the session; the snapshot changes only when a screen shows  *)
(* the gauge, and grows stale with time.  Only armed gauges are kept: a    *)
(* rail that was not asked for is never read.                              *)
(***************************************************************************)
EXTENDS Naturals, FiniteSets

CONSTANTS
  Steps,     \* steps of the macro
  Ceiling,   \* CYCLES_HARD_CEILING
  Requests,  \* the numbers of cycles a caller may ask for
  ArmedSets, \* the sets of gauges a caller may arm together
  Top        \* bound of a gauge's value; a rail's number is 1

Gauges == {"credits", "turns", "profit"}

ASSUME PlayerAssumption ==
  /\ Steps \in Nat \ {0}
  /\ Ceiling \in Nat \ {0}
  /\ Requests \subseteq Nat
  /\ ArmedSets \subseteq SUBSET Gauges
  /\ Top \in Nat \ {0}

VARIABLES
  order,    \* what start() accepted
  player,   \* where the run's thread is
  at,       \* steps of this pass already sent
  cycle,    \* the pass
  held,     \* this run's generation is live in the control lock
  stop,     \* the run's stop event
  standDown,\* _stand_down: the operator's last request
  report,   \* the run's report, once finished
  sends,    \* total_sends of _run: what finished passes issued
  real,     \* the game: value of each armed gauge
  seen,     \* the session: snapshot of each armed gauge
  told,     \* the game has shown the gauge since it last changed
  pressed,  \* how many sends reached the wire (history)
  late      \* sends since the stop event was set (history)

playerOrderVars == <<order, standDown>>
playerGameVars == <<real, told>>
passVars == <<at, cycle, sends>>
playerVars == <<order, player, at, cycle, held, stop, standDown, report, sends,
                real, seen, told, pressed, late>>

\* The ladder of a rail: never observed, too old, at the number, or clear.
Passed(g, v) == IF g = "profit" THEN v >= 1 ELSE v <= 1
Ladder(g, snap) ==
  CASE ~snap.known -> "unknown"
    [] snap.known /\ ~snap.fresh -> "stale"
    [] snap.known /\ snap.fresh /\ Passed(g, snap.value) -> "reached"
    [] OTHER -> "clear"

NotSeen == [known |-> FALSE, fresh |-> FALSE, value |-> 0]
NoReport == [outcome |-> "none", reason |-> "none", sends |-> 0, error |-> FALSE]
NoOrder == [cycles |-> 1, armed |-> {}, anchored |-> FALSE, bound |-> TRUE]

PlayerInit ==
  /\ order = NoOrder /\ player = "idle" /\ at = 0 /\ cycle = 0
  /\ held = FALSE /\ stop = FALSE /\ standDown = "none"
  /\ report = NoReport /\ sends = 0 /\ pressed = 0 /\ late = 0
  /\ real = [g \in {} |-> 0] /\ seen = [g \in {} |-> NotSeen]
  /\ told = [g \in {} |-> FALSE]

CyclesUncut(n) == n
\* cycles_requested under the hard ceiling.
Cycles(n) == IF n < Ceiling THEN n ELSE Ceiling

\* start: a request for no cycles is refused, more than the ceiling is cut.
Starts(n, armed) ==
  /\ player = "idle" /\ n > 0
  /\ \E anchored, bound \in BOOLEAN, v \in [armed -> 0..Top] :
       /\ order' = [cycles |-> Cycles(n), armed |-> armed,
                    anchored |-> anchored, bound |-> bound]
       /\ real' = v
  /\ seen' = [g \in armed |-> NotSeen] /\ told' = [g \in armed |-> FALSE]
  /\ player' = "pass" /\ held' = TRUE /\ stop' = FALSE /\ standDown' = "none"
  /\ UNCHANGED <<passVars, report, pressed, late>>

\* _run's finally: the report, with what the finished passes sent.
Ends(outcome, reason, n, error) ==
  /\ player' = "over" /\ held' = FALSE
  /\ report' = [outcome |-> outcome, reason |-> reason, sends |-> n, error |-> error]
  /\ UNCHANGED <<at, cycle, sends, stop, playerOrderVars, playerGameVars, seen, pressed, late>>

\* The head of _run's loop: the next pass, unless stop() came in between.
PassBegins ==
  /\ player = "pass"
  /\ \/ stop /\ Ends("halted", "operator_stop", sends, FALSE)
     \/ /\ ~stop /\ order.bound
        /\ player' = "settle" /\ cycle' = cycle + 1 /\ at' = 0
        /\ UNCHANGED <<playerOrderVars, held, stop, report, sends, playerGameVars, seen, pressed, late>>

\* An exception out of a pass, at its entry for an unbound parameter or from
\* the port: the report keeps the outcome of the pass before it.
PassRaises ==
  /\ player \in {"pass", "settle", "look", "press", "confirm"}
  /\ player = "pass" => ~stop /\ ~order.bound
  /\ IF cycle < 2 THEN Ends("crashed", "player_error", 0, TRUE)
                  ELSE Ends("completed", "none", sends, TRUE)

HaltsUncounted(reason) == Ends("halted", reason, sends, FALSE)
\* replay_loop returns: what this pass sent joins the total.
Halts(reason) == Ends("halted", reason, sends + at, FALSE)

SettleEnds ==
  /\ player = "settle"
  /\ \/ Halts("settle_failed")
     \/ /\ player' = "look"
        /\ UNCHANGED <<playerOrderVars, passVars, held, stop, report, playerGameVars, seen, pressed, late>>

\* What a settled screen can say: its class, the sector in its prompt, no
\* fighters aboard, and the gauges it shows.
Classes == {"expected", "other", "never_auto", "game_select", "unknown"}
Sectors == {"anchor", "elsewhere", "absent", "unreadable"}

GateDeaf(klass) ==
  CASE ~held -> "human_attach_blocks_trainer"
    [] held /\ klass = "never_auto" -> "never_auto_action"
    [] held /\ klass = "unknown" -> "unrecognized_screen"
    [] OTHER -> "clear"
Gate(klass) ==
  CASE ~held -> "human_attach_blocks_trainer"
    [] held /\ stop -> "operator_stop"
    [] held /\ ~stop /\ klass = "never_auto" -> "never_auto_action"
    [] held /\ ~stop /\ klass = "unknown" -> "unrecognized_screen"
    [] OTHER -> "clear"

Hazard(klass, stranded) ==
  CASE klass = "game_select" -> "autopilot_game_select"
    [] klass # "game_select" /\ stranded -> "fighters_zero"
    [] OTHER -> "clear"

Anchor(sector) ==
  CASE ~order.anchored -> "start_anchor_missing"
    [] order.anchored /\ sector = "unreadable" -> "current_sector_unreadable"
    [] order.anchored /\ sector = "absent" -> "current_sector_absent"
    [] order.anchored /\ sector = "elsewhere" -> "start_anchor_mismatch"
    [] OTHER -> "clear"

Rail(g, snaps) == IF g \in order.armed THEN Ladder(g, snaps[g]) ELSE "clear"

\* The first refusal of a boundary, in the order of replay_loop.
Judge(klass, sector, stranded, snaps) ==
  LET verdicts == <<Gate(klass), Hazard(klass, stranded), Rail("credits", snaps),
                    Rail("turns", snaps), Rail("profit", snaps),
                    IF at = 0 THEN Anchor(sector)
                    ELSE IF klass # "expected" THEN "post_class" ELSE "clear">>
      bad == {i \in DOMAIN verdicts : verdicts[i] # "clear"}
  IN IF bad = {} THEN "clear" ELSE verdicts[CHOOSE i \in bad : \A j \in bad : i <= j]

SnapshotsKept(shown) ==
  [g \in order.armed |-> IF g \in shown /\ ~seen[g].known
                         THEN [known |-> TRUE, fresh |-> TRUE, value |-> real[g]]
                         ELSE seen[g]]
Snapshots(shown) ==
  [g \in order.armed |-> IF g \in shown
                         THEN [known |-> TRUE, fresh |-> TRUE, value |-> real[g]]
                         ELSE seen[g]]

\* A refusal ends the run, with what this pass sent.
BoundaryWaits(verdict) == player' = "settle" /\ UNCHANGED <<held, report, sends>>
BoundaryRefused(verdict) ==
  /\ player' = "over" /\ held' = FALSE
  /\ report' = [outcome |-> "halted", reason |-> verdict, sends |-> sends + at, error |-> FALSE]
  /\ UNCHANGED sends

\* One boundary: the screen is read once, the snapshots after it, the fence
\* and the stop event last.
Looks ==
  /\ player = "look"
  /\ \E klass \in Classes, sector \in Sectors, stranded \in BOOLEAN, shown \in SUBSET order.armed :
       LET snaps == Snapshots(shown)
           verdict == Judge(klass, sector, stranded, snaps)
       IN /\ seen' = snaps
          /\ told' = [g \in order.armed |-> told[g] \/ g \in shown]
          /\ IF verdict # "clear"
             THEN BoundaryRefused(verdict)
             ELSE IF at < Steps
             THEN player' = "press" /\ UNCHANGED <<held, report, sends>>
             ELSE IF cycle < order.cycles
             THEN player' = "pass" /\ sends' = sends + at /\ UNCHANGED <<held, report>>
             ELSE /\ player' = "over" /\ held' = FALSE /\ sends' = sends + at
                  /\ report' = [outcome |-> "completed", reason |-> "none",
                                sends |-> sends + at, error |-> FALSE]
  /\ UNCHANGED <<playerOrderVars, at, cycle, stop, real, pressed, late>>

\* The game changes what it likes; what it changed it has not shown yet.
GameMoves ==
  /\ \E v \in [order.armed -> 0..Top] :
       /\ \A g \in order.armed : v[g] <= real[g] + 1 /\ real[g] <= v[g] + 1
       /\ real' = v
       /\ told' = [g \in order.armed |-> told[g] /\ v[g] = real[g]]

\* The step's keystrokes go out: counted before the send, confirmed after it.
Presses ==
  /\ player = "press"
  /\ player' = "confirm" /\ at' = at + 1 /\ pressed' = pressed + 1
  /\ late' = IF stop THEN late + 1 ELSE late
  /\ GameMoves
  /\ UNCHANGED <<playerOrderVars, cycle, sends, held, stop, report, seen>>

Confirms ==
  /\ player = "confirm"
  /\ \/ Halts("confirm_failed")
     \/ /\ player' = "settle"
        /\ UNCHANGED <<playerOrderVars, passVars, held, stop, report, playerGameVars, seen, pressed, late>>

\* pause() and stop(): the intent is remembered even when nothing runs.
StandsDown(intent) ==
  /\ standDown' = intent
  /\ stop' = (stop \/ player \notin {"idle", "over"})
  /\ UNCHANGED <<order, player, passVars, held, report, playerGameVars, seen, pressed, late>>

HumanTakesSeat ==
  /\ held /\ held' = FALSE
  /\ UNCHANGED <<playerOrderVars, player, passVars, stop, report, playerGameVars, seen, pressed, late>>

\* A human at the keyboard, once the fence is up.
HumanSpends ==
  /\ ~held /\ player \notin {"idle", "over"}
  /\ GameMoves
  /\ UNCHANGED <<playerOrderVars, player, passVars, held, stop, report, seen, pressed, late>>

\* Snapshots outlive their window.
Ages ==
  /\ player \notin {"idle", "over"}
  /\ \E g \in order.armed :
       /\ seen[g].fresh
       /\ seen' = [seen EXCEPT ![g].fresh = FALSE]
  /\ UNCHANGED <<playerOrderVars, player, passVars, held, stop, report, playerGameVars, pressed, late>>

ThreadStep == PassBegins \/ PassRaises \/ SettleEnds \/ Looks \/ Presses \/ Confirms

PlayerNext ==
  \/ \E n \in Requests, armed \in ArmedSets : Starts(n, armed)
  \/ ThreadStep
  \/ \E intent \in {"stop", "pause"} : StandsDown(intent)
  \/ HumanTakesSeat
  \/ HumanSpends
  \/ Ages
PlayerSpec == PlayerInit /\ [][PlayerNext]_playerVars

-------------------------------------------------------------------------------
PlayerTypeOK ==
  /\ order \in [cycles : 1..Ceiling, armed : SUBSET Gauges, anchored : BOOLEAN, bound : BOOLEAN]
  /\ player \in {"idle", "pass", "settle", "look", "press", "confirm", "over"}
  /\ at \in 0..Steps /\ cycle \in 0..order.cycles
  /\ held \in BOOLEAN /\ stop \in BOOLEAN /\ standDown \in {"none", "stop", "pause"}
  /\ sends \in 0..(Ceiling * Steps) /\ pressed \in 0..(Ceiling * Steps) /\ late \in Nat
  /\ real \in [order.armed -> 0..Top] /\ told \in [order.armed -> BOOLEAN]
  /\ seen \in [order.armed -> [known : BOOLEAN, fresh : BOOLEAN, value : 0..Top]]
  /\ report.outcome \in {"none", "halted", "completed", "crashed"}

\* No step is pressed past a rail the game has told the session about: when
\* the game has shown an armed gauge since it last moved, its true value is
\* still on the right side of the number (_check_floor and its two sisters,
\* over every attach, spend and stale reading between look and press).
RailHonoured ==
  [][Presses => \A g \in order.armed : told[g] => ~Passed(g, real[g])]_playerVars

\* Whatever comes between its look and its press, the run sends at most once
\* after the operator stood it down (should_abort at every boundary).
StopWithinOneStep == late <= 1

\* A report without an error tells the truth about the wire: it counts every
\* send, and it says completed exactly of a run that sent every step of every
\* cycle it was asked for (_run's bookkeeping over passes that halt half way).
ReportTruthful ==
  player = "over" /\ ~report.error =>
    /\ report.sends = pressed
    /\ report.outcome = "completed" => pressed = order.cycles * Steps

\* Stopped or not, a run sends no more than it may, and reports what it sent.
RunAccounted == StopWithinOneStep /\ ReportTruthful

\* A run that started ends, whatever the game shows and whoever interferes.
PlayerRunEnds == player = "pass" ~> player = "over"
===============================================================================

--------------------------- MODULE LockContract ---------------------------
(***************************************************************************)
(* ControlLock under every legal caller.                                   *)
(*                                                                         *)
(* The class cannot see its callers; its docstrings state what a caller    *)
(* owes it: an attach that was granted releases once, a dispatch that was  *)
(* granted releases once, and a run hands back the very token it was given *)
(* once, however late -- after a human preempted it, after that human left *)
(* and after newer runs came and went.  `runs' holds the tokens granted    *)
(* and not yet handed back.                                                *)
(***************************************************************************)
EXTENDS ControlLock

VARIABLE runs

contractVars == <<mode, autoLoopHeld, autoLoopGeneration, driving,
                  driverFenced, autoLoopFencedGenerations, runs>>

Init == LockInit /\ runs = {}

HumanAttaches == TakeHuman /\ UNCHANGED runs

HumanDetaches ==
  /\ mode = "human"
  /\ ReleaseHuman
  /\ UNCHANGED runs

DispatchStarts == AcquireDriver /\ UNCHANGED runs

DispatchEnds ==
  /\ driving
  /\ ReleaseDriver
  /\ UNCHANGED runs

RunStarts ==
  /\ EnterAutoLoop
  /\ runs' = runs \cup {autoLoopGeneration + 1}

RunEnds(g) ==
  /\ g \in runs
  /\ LeaveAutoLoop(g)
  /\ runs' = runs \ {g}

PanelToggles(newMode) == SetMode(newMode) /\ UNCHANGED runs

Next ==
  \/ HumanAttaches
  \/ HumanDetaches
  \/ DispatchStarts
  \/ DispatchEnds
  \/ RunStarts
  \/ \E g \in 1..MaxGeneration : RunEnds(g)
  \/ \E newMode \in {"app", "spectate"} : PanelToggles(newMode)

Spec == Init /\ [][Next]_contractVars

-----------------------------------------------------------------------------
(* Invariants *)

TypeOK == LockTypeOK /\ runs \in SUBSET (1..MaxGeneration)

\* The lock's two records -- the standing hold and the fenced generations --
\* account for every run that still owes its release, and for nothing else,
\* however preemptions, detaches, grants and late releases interleave.
EveryRunAccounted == runs = autoLoopFencedGenerations \cup HoldingGeneration

\* A dispatch and an auto-loop hold never stand together, a hold never
\* stands under a human or in spectate, and the holder is never one of the
\* preempted generations.
SeatExclusive ==
  /\ ~(driving /\ autoLoopHeld)
  /\ autoLoopHeld => mode = "app"
  /\ HoldingGeneration \cap autoLoopFencedGenerations = {}

\* While a human holds the keyboard, the one signal the keystroke path polls
\* is up exactly as long as some App activity is still on the wire.
HumanSeesEveryDriver ==
  mode = "human" => (IsDriverFenced <=> (driving \/ runs # {}))

\* The seat is safe: the books of the lock are complete, nobody shares the
\* seat, and a human is told of everybody who still drives.
SeatSafe == EveryRunAccounted /\ SeatExclusive /\ HumanSeesEveryDriver

-----------------------------------------------------------------------------
(* Action properties *)

OwnsHold(g) == autoLoopHeld /\ autoLoopGeneration = g

HoldLostToAttachOnly ==
  \A g \in runs \cap runs' :
    OwnsHold(g) # OwnsHold(g)' => OwnsHold(g) /\ mode' = "human"

FenceReleasedByOwner ==
  /\ \A g \in autoLoopFencedGenerations :
       g \notin autoLoopFencedGenerations' => g \notin runs'
  /\ driverFenced /\ ~driverFenced' => ~driving'

\* A run that has not handed its token back loses the hold to a human attach
\* and to nothing else: no stale release, no newer grant, no detach of a
\* human takes it away, and a hold once lost never comes back to that run.
OnlyAttachRevokesHold == [][HoldLostToAttachOnly]_contractVars

\* A fence claim falls only with its own run's release; the dispatch fence
\* falls only with the dispatch.
FenceFallsWithItsOwner == [][FenceReleasedByOwner]_contractVars

\* Neither a hold nor a fence goes by anybody's hand but its owner's, or the
\* human's who attaches.
HoldsAndFencesKept == [][HoldLostToAttachOnly /\ FenceReleasedByOwner]_contractVars

-----------------------------------------------------------------------------
(* The lock implements the one-seat promise of DrivingSeat.                *)

seatHolder ==
  CASE mode = "human" -> <<"human", 0>>
    [] mode # "human" /\ autoLoopHeld -> <<"run", autoLoopGeneration>>
    [] mode # "human" /\ ~autoLoopHeld /\ driving /\ ~driverFenced -> <<"dispatch", 0>>
    [] OTHER -> <<"free", 0>>

seatWinding ==
  (IF driverFenced THEN {<<"dispatch", 0>>} ELSE {})
    \cup {<<"run", g>> : g \in autoLoopFencedGenerations}

Seat == INSTANCE DrivingSeat
          WITH holder <- seatHolder, winding <- seatWinding,
               started <- autoLoopGeneration

\* Every behaviour of the lock, under every legal caller, is a behaviour of
\* the seat: grants only into a free seat, preemption only by a human, and
\* nobody forgotten while winding down.
ImplementsSeat == Seat!Spec
=============================================================================

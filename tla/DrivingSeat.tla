---------------------------- MODULE DrivingSeat ----------------------------
(***************************************************************************)
(* What the daemon's control lock promises, said without any of its flags. *)
(*                                                                         *)
(* One seat drives the one game connection.  A human takes it at any time  *)
(* from anybody but another human; an App dispatch or a background run     *)
(* gets it only when nobody sits there.  An App activity that loses the    *)
(* seat to a human is still on the wire until it winds down by itself, so  *)
(* it stays in `winding' until it says so: nothing anybody else does --    *)
(* the human leaving, a newer run starting or ending -- forgets it.        *)
(*                                                                         *)
(* Source: the module docstring of session/control_lock.py, as the code    *)
(* of ControlLock implements it.                                           *)
(***************************************************************************)
EXTENDS Naturals

CONSTANT MaxGeneration       \* bound on the runs ever started

VARIABLES
  holder,     \* who sits in the seat
  winding,    \* App activities preempted by a human and not yet wound down
  started     \* number of runs started so far

seatVars == <<holder, winding, started>>

Free     == <<"free", 0>>
Human    == <<"human", 0>>
Dispatch == <<"dispatch", 0>>
Run(n)   == <<"run", n>>

Activities == {Dispatch} \cup {Run(n) : n \in 1..MaxGeneration}

Init ==
  /\ holder = Free
  /\ winding = {}
  /\ started = 0

HumanTakes ==
  /\ holder # Human
  /\ winding' = winding \cup ({holder} \ {Free})
  /\ holder' = Human
  /\ UNCHANGED started

HumanLeaves ==
  /\ holder = Human
  /\ holder' = Free
  /\ UNCHANGED <<winding, started>>

\* A preempted dispatch blocks both kinds of App grant; a preempted run
\* blocks neither.
DispatchStarts ==
  /\ holder = Free
  /\ Dispatch \notin winding
  /\ holder' = Dispatch
  /\ UNCHANGED <<winding, started>>

RunStarts ==
  /\ holder = Free
  /\ Dispatch \notin winding
  /\ started < MaxGeneration
  /\ started' = started + 1
  /\ holder' = Run(started + 1)
  /\ UNCHANGED winding

\* An activity ends where it is: in the seat, or winding down.
Ends(x) ==
  /\ \/ holder = x /\ holder' = Free /\ UNCHANGED winding
     \/ x \in winding /\ winding' = winding \ {x} /\ UNCHANGED holder
  /\ UNCHANGED started

Next ==
  \/ HumanTakes
  \/ HumanLeaves
  \/ DispatchStarts
  \/ RunStarts
  \/ \E x \in Activities : Ends(x)

Spec == Init /\ [][Next]_seatVars
=============================================================================

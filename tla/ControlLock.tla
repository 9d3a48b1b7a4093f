---------------------------- MODULE ControlLock ----------------------------
(***************************************************************************)
(* The methods of session/control_lock.py::ControlLock.                    *)
(*                                                                         *)
(* Every method body is one critical section of ControlLock._lock, so one  *)
(* operator of this module is one method call: its guard is the outcome    *)
(* "not refused" and its primed variables are the fields it assigns.  A    *)
(* refused call raises before any assignment and changes nothing; the      *)
(* operators named ...Refusal give the reason it raises.                   *)
(*                                                                         *)
(* Who may call what, and when, is not decided here: LockContract closes   *)
(* these methods with the most general legal callers, AppDrivers with the  *)
(* daemon's own threads.                                                   *)
(***************************************************************************)
EXTENDS Naturals, FiniteSets

CONSTANT MaxGeneration       \* bound on _auto_loop_generation

ASSUME MaxGenerationAssumption == MaxGeneration \in Nat

Modes == {"app", "human", "spectate"}

VARIABLES
  mode,                      \* _mode
  autoLoopHeld,              \* _auto_loop_held
  autoLoopGeneration,        \* _auto_loop_generation
  driving,                   \* _driving
  driverFenced,              \* _driver_fenced
  autoLoopFencedGenerations  \* _auto_loop_fenced_generations

lockVars == <<mode, autoLoopHeld, autoLoopGeneration, driving, driverFenced,
              autoLoopFencedGenerations>>

LockInit ==
  /\ mode = "app"
  /\ autoLoopHeld = FALSE
  /\ autoLoopGeneration = 0
  /\ driving = FALSE
  /\ driverFenced = FALSE
  /\ autoLoopFencedGenerations = {}

LockTypeOK ==
  /\ mode \in Modes
  /\ autoLoopHeld \in BOOLEAN
  /\ autoLoopGeneration \in 0..MaxGeneration
  /\ driving \in BOOLEAN
  /\ driverFenced \in BOOLEAN
  /\ autoLoopFencedGenerations \in SUBSET (1..MaxGeneration)

-----------------------------------------------------------------------------
(* Reads *)

\* is_driver_fenced(): what Session.send_raw polls before a human byte.
IsDriverFenced == driverFenced \/ autoLoopFencedGenerations # {}

\* The generation that owns the standing hold, as a set: empty when no hold.
HoldingGeneration == IF autoLoopHeld THEN {autoLoopGeneration} ELSE {}

-----------------------------------------------------------------------------
(* Attach: take_human, release_human *)

\* Mutated form: the preempted hold is revoked without a fence.
TakeHumanUnfenced ==
  /\ mode # "human"
  /\ driverFenced' = (driverFenced \/ driving)
  /\ autoLoopHeld' = FALSE
  /\ mode' = "human"
  /\ UNCHANGED <<autoLoopGeneration, driving, autoLoopFencedGenerations>>

\* Mutated form: one owner slot instead of a set, newest preemption wins.
TakeHumanOneSlot ==
  /\ mode # "human"
  /\ driverFenced' = (driverFenced \/ driving)
  /\ autoLoopFencedGenerations' =
       IF autoLoopHeld THEN HoldingGeneration ELSE autoLoopFencedGenerations
  /\ autoLoopHeld' = FALSE
  /\ mode' = "human"
  /\ UNCHANGED <<autoLoopGeneration, driving>>

\* Mutated form: the generation is fenced whether or not it holds.
TakeHumanAlwaysFencing ==
  /\ mode # "human"
  /\ driverFenced' = (driverFenced \/ driving)
  /\ autoLoopFencedGenerations' = autoLoopFencedGenerations \cup {autoLoopGeneration}
  /\ autoLoopHeld' = FALSE
  /\ mode' = "human"
  /\ UNCHANGED <<autoLoopGeneration, driving>>

TakeHuman ==
  /\ mode # "human"
  /\ driverFenced' = (driverFenced \/ driving)
  /\ autoLoopFencedGenerations' = autoLoopFencedGenerations \cup HoldingGeneration
  /\ autoLoopHeld' = FALSE
  /\ mode' = "human"
  /\ UNCHANGED <<autoLoopGeneration, driving>>

\* Mutated form: the detach launders every outstanding fence.
ReleaseHumanLaundering ==
  /\ mode' = "app"
  /\ autoLoopHeld' = FALSE
  /\ autoLoopFencedGenerations' = {}
  /\ UNCHANGED <<autoLoopGeneration, driving, driverFenced>>

ReleaseHuman ==
  /\ mode' = "app"
  /\ autoLoopHeld' = FALSE
  /\ UNCHANGED <<autoLoopGeneration, driving, driverFenced,
                 autoLoopFencedGenerations>>

-----------------------------------------------------------------------------
(* One-shot App dispatch: acquire_driver, release_driver *)

\* The reason acquire_driver raises, in the order the code tests for it.
AcquireRefusal ==
  CASE mode = "human"    -> "controller_locked_by_human"
    [] mode = "spectate" -> "spectate_read_only"
    [] mode = "app" /\ autoLoopHeld -> "controller_locked_by_auto_loop"
    [] mode = "app" /\ ~autoLoopHeld /\ driving -> "controller_busy"
    [] OTHER -> "granted"

\* Mutated form: the auto-loop hold is not consulted.
AcquireDriverIgnoringHold ==
  /\ mode = "app"
  /\ ~driving
  /\ driving' = TRUE
  /\ driverFenced' = FALSE
  /\ UNCHANGED <<mode, autoLoopHeld, autoLoopGeneration,
                 autoLoopFencedGenerations>>

AcquireDriver ==
  /\ AcquireRefusal = "granted"
  /\ driving' = TRUE
  /\ driverFenced' = FALSE
  /\ UNCHANGED <<mode, autoLoopHeld, autoLoopGeneration,
                 autoLoopFencedGenerations>>

ReleaseDriver ==
  /\ driving' = FALSE
  /\ driverFenced' = FALSE
  /\ UNCHANGED <<mode, autoLoopHeld, autoLoopGeneration,
                 autoLoopFencedGenerations>>

-----------------------------------------------------------------------------
(* Background runs: enter_auto_loop, leave_auto_loop *)

EnterRefusal ==
  CASE mode = "human" -> "locked_by_human_attach"
    [] mode # "human" /\ autoLoopHeld -> "already_running"
    [] mode # "human" /\ ~autoLoopHeld /\ driving -> "locked_by_active_driver"
    [] OTHER -> "granted"

\* Mutated form: a fresh grant supersedes whatever its predecessors still owe.
EnterAutoLoopNewestWins ==
  /\ EnterRefusal = "granted"
  /\ autoLoopGeneration < MaxGeneration
  /\ mode' = "app"
  /\ autoLoopHeld' = TRUE
  /\ autoLoopGeneration' = autoLoopGeneration + 1
  /\ autoLoopFencedGenerations' = {}
  /\ UNCHANGED <<driving, driverFenced>>

\* The token handed back to the caller is the new autoLoopGeneration.
EnterAutoLoop ==
  /\ EnterRefusal = "granted"
  /\ autoLoopGeneration < MaxGeneration
  /\ mode' = "app"
  /\ autoLoopHeld' = TRUE
  /\ autoLoopGeneration' = autoLoopGeneration + 1
  /\ UNCHANGED <<driving, driverFenced, autoLoopFencedGenerations>>

\* Mutated form: the release before generation tokens existed.
LeaveAutoLoopUnconditional(generation) ==
  /\ autoLoopHeld' = FALSE
  /\ autoLoopFencedGenerations' = autoLoopFencedGenerations \ {generation}
  /\ UNCHANGED <<mode, autoLoopGeneration, driving, driverFenced>>

LeaveAutoLoop(generation) ==
  /\ autoLoopHeld' = (autoLoopHeld /\ generation # autoLoopGeneration)
  /\ autoLoopFencedGenerations' = autoLoopFencedGenerations \ {generation}
  /\ UNCHANGED <<mode, autoLoopGeneration, driving, driverFenced>>

-----------------------------------------------------------------------------
(* Standing toggle: set_mode.  Refused under an attach or a hold, but not  *)
(* while a dispatch is in flight.                                          *)

SetMode(newMode) ==
  /\ newMode \in {"app", "spectate"}
  /\ mode # "human"
  /\ ~autoLoopHeld
  /\ mode' = newMode
  /\ UNCHANGED <<autoLoopHeld, autoLoopGeneration, driving, driverFenced,
                 autoLoopFencedGenerations>>
=============================================================================

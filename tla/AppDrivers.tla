---------------------------- MODULE AppDrivers ----------------------------
(***************************************************************************)
(* Everything in the daemon that puts bytes on the one telnet connection   *)
(* through the control lock:                                               *)
(*                                                                         *)
(*   runs        one background thread per granted generation, started and *)
(*               stopped by one of the four runners of the daemon          *)
(*   dispatches  one connection thread inside _driving_dispatch            *)
(*   humans      one connection thread inside CommandHandler._handle_attach*)
(*                                                                         *)
(* together with Session.send_lock, Session.send_raw's bounded wait for    *)
(* the fence, and TelnetConnection.force_unblock_sends.                    *)
(*                                                                         *)
(* Abstracted: what is sent, what the screen shows and which screen stops  *)
(* a run (any boundary may stop it); the clock (a bounded wait may expire  *)
(* whenever its condition still holds).  The guardian, which sends without *)
(* the lock, is not here.                                                  *)
(***************************************************************************)
EXTENDS ControlLock

CONSTANTS
  Attachers,      \* connections that may ask to attach
  Dispatchers,    \* connections that may ask for a one-shot App drive
  Runners,        \* the runners this instance has
  LateSendBound   \* cap on the count of sends a run begins after losing its hold, 0: not counted

RunnerKinds == {"autoloop", "sector_explore", "trade_chain", "stardock_hold"}

ASSUME DriversAssumption ==
  /\ Runners \subseteq RunnerKinds
  /\ LateSendBound \in Nat

\* start() refuses while another generation still owes its release.
ChecksOutstanding == {"autoloop", "trade_chain", "stardock_hold"}
\* The run re-reads is_auto_loop_held() at each boundary.  ExploreRunner asks
\* the Session for is_driver_fenced/should_abort, which Session does not
\* have; StardockHoldRunner passes is_armed=lambda: True.
WatchesHold == {"autoloop", "trade_chain"}
\* run_hold_purchase looks for the screen under names Session does not have,
\* so it refuses ("unknown_qty_range") before its only send.
Sends == RunnerKinds \ {"stardock_hold"}
\* stop() shuts the socket down when the thread outlives the join bound.
UnblocksOnStop == {"autoloop", "trade_chain"}

Generations == 1..MaxGeneration

VARIABLES
  starting,   \* runners inside start(), past the in-flight and outstanding checks
  inFlight,   \* runner -> _in_flight
  current,    \* runner -> generation behind _thread/_stop, 0 when None
  stopper,    \* runner -> its stop() call: phase, and the thread it joins
  run,        \* generation -> its thread
  dispatch,   \* dispatcher -> phase
  human,      \* attacher -> phase
  gaveUp,     \* attachers whose current keystroke outwaited the fence bound
  connected   \* TelnetConnection.connected of the session's connection

runnerVars == <<starting, inFlight, current, stopper>>
clientVars == <<dispatch, human, gaveUp>>
vars == <<mode, autoLoopHeld, autoLoopGeneration, driving, driverFenced,
          autoLoopFencedGenerations, starting, inFlight, current, stopper,
          run, dispatch, human, gaveUp, connected>>

RunPhases == {"none", "boundary", "cleared", "sending", "broken", "settling",
              "closing", "unwinding", "released", "published", "done"}
DispatchPhases == {"idle", "granted", "sending", "broken", "settling", "releasing"}
HumanPhases == {"away", "attached", "waiting", "unblocked", "typing",
                "sending", "broken", "leaving"}

NoRun == [kind |-> "none", phase |-> "none", stop |-> FALSE, late |-> 0]
NotStopping == [phase |-> "idle", target |-> 0]

Init ==
  /\ LockInit
  /\ starting = {}
  /\ inFlight = [k \in Runners |-> FALSE]
  /\ current = [k \in Runners |-> 0]
  /\ stopper = [k \in Runners |-> NotStopping]
  /\ run = [g \in Generations |-> NoRun]
  /\ dispatch = [d \in Dispatchers |-> "idle"]
  /\ human = [a \in Attachers |-> "away"]
  /\ gaveUp = {}
  /\ connected = TRUE

TypeOK ==
  /\ LockTypeOK
  /\ starting \subseteq Runners
  /\ inFlight \in [Runners -> BOOLEAN]
  /\ current \in [Runners -> 0..MaxGeneration]
  /\ stopper \in [Runners -> [phase : {"idle", "joining", "rejoining"},
                             target : 0..MaxGeneration]]
  /\ run \in [Generations -> [kind : Runners \cup {"none"}, phase : RunPhases,
                              stop : BOOLEAN, late : 0..LateSendBound]]
  /\ dispatch \in [Dispatchers -> DispatchPhases]
  /\ human \in [Attachers -> HumanPhases]
  /\ gaveUp \subseteq Attachers
  /\ connected \in BOOLEAN

-----------------------------------------------------------------------------
(* Session.send_lock and the wire *)

InSend == {"sending", "broken"}

\* Some thread is inside send/send_raw with send_lock held.
SendLockHeld ==
  \/ \E g \in Generations : run[g].phase \in InSend
  \/ \E d \in Dispatchers : dispatch[d] \in InSend
  \/ \E a \in Attachers : human[a] \in InSend

\* force_unblock_sends(): whoever is inside sendall will see it raise.
Broken(phase) == IF phase = "sending" THEN "broken" ELSE phase
BrokenHumans == [a \in Attachers |-> Broken(human[a])]

ForceUnblockApp ==
  /\ connected' = FALSE
  /\ run' = [g \in Generations |-> [run[g] EXCEPT !.phase = Broken(@)]]
  /\ dispatch' = [d \in Dispatchers |-> Broken(dispatch[d])]

\* The peer resets the connection: sends in progress raise as well.
PeerDrops ==
  /\ connected
  /\ ForceUnblockApp
  /\ human' = BrokenHumans
  /\ UNCHANGED <<lockVars, runnerVars, gaveUp>>

\* A thread that is about to fail on the dead connection.
Failing ==
  \/ \E g \in Generations : run[g].phase \in {"cleared", "broken"}
  \/ \E d \in Dispatchers : dispatch[d] = "broken"
  \/ \E a \in Attachers : human[a] \in {"typing", "broken"}

\* Session.reconnect(), by the guardian's burst or by an ensure: a fresh
\* TelnetConnection replaces the dead one.
Reconnect ==
  /\ ~connected
  /\ connected' = TRUE
  /\ UNCHANGED <<lockVars, runnerVars, run, clientVars>>

-----------------------------------------------------------------------------
(* Background runs *)

Phase(g, p) == run' = [run EXCEPT ![g].phase = p]

LiveRuns == {g \in Generations : run[g].phase \notin {"none", "released", "done"}}

\* The runner's mutex is held: inside start().
MutexHeld(k) ==
  k \in starting \/ \E g \in Generations : run[g].kind = k /\ run[g].phase = "unwinding"

\* Mutated form: start() leaves the refusal to the lock.
StartChecksLockOnly(k) ==
  /\ ~MutexHeld(k)
  /\ autoLoopGeneration < MaxGeneration
  /\ starting' = starting \cup {k}
  /\ UNCHANGED <<lockVars, inFlight, current, stopper, run, clientVars, connected>>

\* start() up to its reads of _in_flight and of the outstanding generations.
\* The lock is released between that read and enter_auto_loop.
StartChecks(k) ==
  /\ ~MutexHeld(k)
  /\ ~inFlight[k]
  /\ k \in ChecksOutstanding => autoLoopFencedGenerations = {}
  /\ autoLoopGeneration < MaxGeneration
  /\ starting' = starting \cup {k}
  /\ UNCHANGED <<lockVars, inFlight, current, stopper, run, clientVars, connected>>

StartRefused(k) ==
  /\ k \in starting
  /\ EnterRefusal # "granted"
  /\ starting' = starting \ {k}
  /\ UNCHANGED <<lockVars, inFlight, current, stopper, run, clientVars, connected>>

\* The grant and the registration of the thread; when thread.start() raises,
\* the same mutex hold unwinds both.
StartGranted(k, phase) ==
  /\ k \in starting
  /\ EnterAutoLoop
  /\ LET g == autoLoopGeneration + 1 IN
       /\ run' = [run EXCEPT ![g] = [kind |-> k, phase |-> phase,
                                     stop |-> FALSE, late |-> 0]]
       /\ current' = [current EXCEPT ![k] = g]
  /\ inFlight' = [inFlight EXCEPT ![k] = TRUE]
  /\ starting' = starting \ {k}
  /\ UNCHANGED <<stopper, clientVars, connected>>

Unregister(k) ==
  /\ inFlight' = [inFlight EXCEPT ![k] = FALSE]
  /\ current' = [current EXCEPT ![k] = 0]

StartUnwinds(g) ==
  /\ run[g].phase = "unwinding"
  /\ LeaveAutoLoop(g)
  /\ Unregister(run[g].kind)
  /\ Phase(g, "done")
  /\ UNCHANGED <<starting, stopper, clientVars, connected>>

\* Mutated form: a run that does not look at the hold at its boundary.
RunClearsBlind(g) ==
  /\ run[g].phase = "boundary"
  /\ ~run[g].stop
  /\ run[g].kind \in Sends
  /\ Phase(g, "cleared")
  /\ UNCHANGED <<lockVars, runnerVars, clientVars, connected>>

\* A boundary passed; until the next one the run does not look at the lock.
RunClears(g) ==
  /\ run[g].phase = "boundary"
  /\ ~run[g].stop
  /\ run[g].kind \in Sends
  /\ run[g].kind \in WatchesHold => autoLoopHeld
  /\ Phase(g, "cleared")
  /\ UNCHANGED <<lockVars, runnerVars, clientVars, connected>>

\* Any boundary may end the run: stopped, fenced, a screen it may not drive,
\* a rail tripped, or the work complete.
RunEndsAtBoundary(g) ==
  /\ run[g].phase = "boundary"
  /\ Phase(g, "closing")
  /\ UNCHANGED <<lockVars, runnerVars, clientVars, connected>>

Preempted(g) == ~(autoLoopHeld /\ autoLoopGeneration = g)

RunBeginsSend(g) ==
  /\ run[g].phase = "cleared"
  /\ ~SendLockHeld
  /\ run' = [run EXCEPT ![g].phase = IF connected THEN "sending" ELSE "broken",
                        ![g].late = IF Preempted(g) /\ @ < LateSendBound
                                    THEN @ + 1 ELSE @]
  /\ UNCHANGED <<lockVars, runnerVars, clientVars, connected>>

RunSendReturns(g) ==
  /\ run[g].phase = "sending"
  /\ Phase(g, "settling")
  /\ UNCHANGED <<lockVars, runnerVars, clientVars, connected>>

\* sendall raised: the exception unwinds to the run's own end.
RunSendRaises(g) ==
  /\ run[g].phase = "broken"
  /\ Phase(g, "closing")
  /\ UNCHANGED <<lockVars, runnerVars, clientVars, connected>>

\* The post-send wait ends confirmed, or unconfirmed and fatal to the run.
RunSettles(g) ==
  /\ run[g].phase = "settling"
  /\ \/ Phase(g, "boundary")
     \/ Phase(g, "closing")
  /\ UNCHANGED <<lockVars, runnerVars, clientVars, connected>>

\* AutoLoopRunner releases and publishes under one hold of its mutex.
AutoLoopFinishes(g) ==
  /\ run[g].phase = "closing"
  /\ run[g].kind = "autoloop"
  /\ LeaveAutoLoop(g)
  /\ Unregister("autoloop")
  /\ Phase(g, "done")
  /\ UNCHANGED <<starting, stopper, clientVars, connected>>

\* TradeChainRunner releases first and takes its mutex afterwards.
TradeChainReleases(g) ==
  /\ run[g].phase = "closing"
  /\ run[g].kind = "trade_chain"
  /\ LeaveAutoLoop(g)
  /\ Phase(g, "released")
  /\ UNCHANGED <<runnerVars, clientVars, connected>>

TradeChainPublishes(g) ==
  /\ run[g].phase = "released"
  /\ Unregister("trade_chain")
  /\ Phase(g, "done")
  /\ UNCHANGED <<lockVars, starting, stopper, clientVars, connected>>

\* ExploreRunner and StardockHoldRunner publish first and release afterwards;
\* ExploreRunner leaves _thread and _stop standing.
ExplorePublishes(g) ==
  /\ run[g].phase = "closing"
  /\ run[g].kind = "sector_explore"
  /\ inFlight' = [inFlight EXCEPT !["sector_explore"] = FALSE]
  /\ Phase(g, "published")
  /\ UNCHANGED <<lockVars, starting, current, stopper, clientVars, connected>>

StardockHoldPublishes(g) ==
  /\ run[g].phase = "closing"
  /\ run[g].kind = "stardock_hold"
  /\ Unregister("stardock_hold")
  /\ Phase(g, "published")
  /\ UNCHANGED <<lockVars, starting, stopper, clientVars, connected>>

\* Mutated form: an exit path without leave_auto_loop.
EndsWithoutReleasing(g) ==
  /\ run[g].phase = "published"
  /\ Phase(g, "done")
  /\ UNCHANGED <<lockVars, runnerVars, clientVars, connected>>

ReleasesAfterPublishing(g) ==
  /\ run[g].phase = "published"
  /\ LeaveAutoLoop(g)
  /\ Phase(g, "done")
  /\ UNCHANGED <<runnerVars, clientVars, connected>>

RunStep(g) ==
  \/ RunClears(g) \/ RunEndsAtBoundary(g) \/ RunBeginsSend(g)
  \/ RunSendReturns(g) \/ RunSendRaises(g) \/ RunSettles(g)
  \/ StartUnwinds(g) \/ AutoLoopFinishes(g)
  \/ TradeChainReleases(g) \/ TradeChainPublishes(g)
  \/ ExplorePublishes(g) \/ StardockHoldPublishes(g) \/ ReleasesAfterPublishing(g)

-----------------------------------------------------------------------------
(* stop(): set the event under the mutex, join outside it *)

\* With nothing registered stop() returns at once and changes nothing.
StopRequested(k) ==
  /\ stopper[k].phase = "idle"
  /\ ~MutexHeld(k)
  /\ current[k] # 0
  /\ run' = [run EXCEPT ![current[k]].stop = TRUE]
  /\ stopper' = [stopper EXCEPT ![k] = [phase |-> "joining", target |-> current[k]]]
  /\ UNCHANGED <<lockVars, starting, inFlight, current, clientVars, connected>>

JoinReturns(k) ==
  /\ stopper[k].phase # "idle"
  /\ run[stopper[k].target].phase = "done"
  /\ stopper' = [stopper EXCEPT ![k] = NotStopping]
  /\ UNCHANGED <<lockVars, starting, inFlight, current, run, clientVars, connected>>

\* The join bound expires only on a thread that is itself waiting: for the
\* socket, for the game, or for send_lock.
Waiting(g) ==
  \/ run[g].phase \in {"sending", "settling"}
  \/ run[g].phase = "cleared" /\ SendLockHeld

\* Mutated form: the join bound expires and the socket is left alone.
JoinExpiresQuietly(k) ==
  /\ stopper[k].phase = "joining"
  /\ Waiting(stopper[k].target)
  /\ stopper' = [stopper EXCEPT ![k] = NotStopping]
  /\ UNCHANGED <<run, dispatch, human, connected>>
  /\ UNCHANGED <<lockVars, starting, inFlight, current, gaveUp>>

JoinExpires(k) ==
  /\ stopper[k].phase = "joining"
  /\ Waiting(stopper[k].target)
  /\ IF k \in UnblocksOnStop
     THEN /\ ForceUnblockApp
          /\ human' = BrokenHumans
          /\ stopper' = [stopper EXCEPT ![k].phase = "rejoining"]
     ELSE /\ stopper' = [stopper EXCEPT ![k] = NotStopping]
          /\ UNCHANGED <<run, dispatch, human, connected>>
  /\ UNCHANGED <<lockVars, starting, inFlight, current, gaveUp>>

RejoinExpires(k) ==
  /\ stopper[k].phase = "rejoining"
  /\ Waiting(stopper[k].target)
  /\ stopper' = [stopper EXCEPT ![k] = NotStopping]
  /\ UNCHANGED <<lockVars, starting, inFlight, current, run, clientVars, connected>>

RunnerStep(k) ==
  \/ StartChecks(k)
  \/ StartRefused(k)
  \/ StartGranted(k, "boundary")
  \/ StartGranted(k, "unwinding")
  \/ StopRequested(k) \/ JoinReturns(k) \/ JoinExpires(k) \/ RejoinExpires(k)

-----------------------------------------------------------------------------
(* One-shot dispatches: do, send, ensure under _driving_dispatch *)

DispatchPhase(d, p) == dispatch' = [dispatch EXCEPT ![d] = p]

DispatchAcquires(d) ==
  /\ dispatch[d] = "idle"
  /\ AcquireDriver
  /\ DispatchPhase(d, "granted")
  /\ UNCHANGED <<runnerVars, run, human, gaveUp, connected>>

DispatchBeginsSend(d) ==
  /\ dispatch[d] = "granted"
  /\ ~SendLockHeld
  /\ DispatchPhase(d, IF connected THEN "sending" ELSE "broken")
  /\ UNCHANGED <<lockVars, runnerVars, run, human, gaveUp, connected>>

DispatchSendReturns(d) ==
  /\ dispatch[d] = "sending"
  /\ DispatchPhase(d, "settling")
  /\ UNCHANGED <<lockVars, runnerVars, run, human, gaveUp, connected>>

\* do and send make one send; ensure's login goes on to the next.
DispatchSettles(d) ==
  /\ dispatch[d] = "settling"
  /\ \E p \in {"granted", "releasing"} : DispatchPhase(d, p)
  /\ UNCHANGED <<lockVars, runnerVars, run, human, gaveUp, connected>>

\* Leaving the with-block: answered without a send, or by an exception.
DispatchUnwinds(d) ==
  /\ dispatch[d] \in {"granted", "broken"}
  /\ DispatchPhase(d, "releasing")
  /\ UNCHANGED <<lockVars, runnerVars, run, human, gaveUp, connected>>

DispatchReleases(d) ==
  /\ dispatch[d] = "releasing"
  /\ ReleaseDriver
  /\ DispatchPhase(d, "idle")
  /\ UNCHANGED <<runnerVars, run, human, gaveUp, connected>>

\* _driver_was_fenced(): the interrupted_by_human a dispatch writes into its
\* ledger row after its settle, still inside the with-block.
DriverWasFenced == IsDriverFenced

DispatchStep(d) ==
  \/ DispatchAcquires(d) \/ DispatchBeginsSend(d) \/ DispatchSendReturns(d)
  \/ DispatchSettles(d) \/ DispatchUnwinds(d) \/ DispatchReleases(d)

-----------------------------------------------------------------------------
(* Attached humans: _handle_attach and Session.send_raw *)

HumanPhase(a, p) == human' = [human EXCEPT ![a] = p]

Attaches(a) ==
  /\ human[a] = "away"
  /\ TakeHuman
  /\ HumanPhase(a, "attached")
  /\ UNCHANGED <<runnerVars, run, dispatch, gaveUp, connected>>

PressesKey(a) ==
  /\ human[a] = "attached"
  /\ HumanPhase(a, "waiting")
  /\ UNCHANGED <<lockVars, runnerVars, run, dispatch, gaveUp, connected>>

\* Mutated form: the keystroke does not wait for the fence.
FenceSeenDownUnchecked(a) ==
  /\ human[a] \in {"waiting", "unblocked"}
  /\ HumanPhase(a, "typing")
  /\ UNCHANGED <<lockVars, runnerVars, run, dispatch, gaveUp, connected>>

FenceSeenDown(a) ==
  /\ human[a] \in {"waiting", "unblocked"}
  /\ ~IsDriverFenced
  /\ HumanPhase(a, "typing")
  /\ UNCHANGED <<lockVars, runnerVars, run, dispatch, gaveUp, connected>>

\* Mutated form: the bound expires and the socket is left alone.
FenceWaitExpiresQuietly(a) ==
  /\ human[a] = "waiting"
  /\ IsDriverFenced
  /\ HumanPhase(a, "unblocked")
  /\ gaveUp' = gaveUp \cup {a}
  /\ UNCHANGED <<lockVars, runnerVars, run, dispatch, connected>>

\* _FENCE_WAIT_TIMEOUT_S is over and the fence still stands.
FenceWaitExpires(a) ==
  /\ human[a] = "waiting"
  /\ IsDriverFenced
  /\ ForceUnblockApp
  /\ human' = [BrokenHumans EXCEPT ![a] = "unblocked"]
  /\ gaveUp' = gaveUp \cup {a}
  /\ UNCHANGED <<lockVars, runnerVars>>

\* _FENCE_UNBLOCK_WAIT_S is over: the keystroke goes ahead regardless.
UnblockWaitExpires(a) ==
  /\ human[a] = "unblocked"
  /\ IsDriverFenced
  /\ HumanPhase(a, "typing")
  /\ UNCHANGED <<lockVars, runnerVars, run, dispatch, gaveUp, connected>>

KeyBeginsSend(a) ==
  /\ human[a] = "typing"
  /\ ~SendLockHeld
  /\ HumanPhase(a, IF connected THEN "sending" ELSE "broken")
  /\ UNCHANGED <<lockVars, runnerVars, run, dispatch, gaveUp, connected>>

KeySent(a) ==
  /\ human[a] = "sending"
  /\ HumanPhase(a, "attached")
  /\ gaveUp' = gaveUp \ {a}
  /\ UNCHANGED <<lockVars, runnerVars, run, dispatch, connected>>

\* The OSError ends the attach loop; the keystroke is gone.
KeyRaises(a) ==
  /\ human[a] = "broken"
  /\ HumanPhase(a, "leaving")
  /\ UNCHANGED <<lockVars, runnerVars, run, dispatch, gaveUp, connected>>

\* The finally of _handle_attach, after EOF or an error.
Detaches(a) ==
  /\ human[a] \in {"attached", "leaving"}
  /\ ReleaseHuman
  /\ HumanPhase(a, "away")
  /\ gaveUp' = gaveUp \ {a}
  /\ UNCHANGED <<runnerVars, run, dispatch, connected>>

HumanStep(a) ==
  \/ Attaches(a) \/ PressesKey(a) \/ FenceSeenDown(a) \/ FenceWaitExpires(a)
  \/ UnblockWaitExpires(a) \/ KeyBeginsSend(a) \/ KeySent(a) \/ KeyRaises(a)
  \/ Detaches(a)

-----------------------------------------------------------------------------

ThreadStep ==
  \/ \E g \in Generations : RunStep(g)
  \/ \E k \in Runners : RunnerStep(k)
  \/ \E d \in Dispatchers : DispatchStep(d)
  \/ \E a \in Attachers : HumanStep(a)

Next == ThreadStep \/ PeerDrops \/ Reconnect

Spec == Init /\ [][Next]_vars

(* What the scheduler and the bounded waits guarantee: every thread keeps     *)
(* running, a settle wait ends, a join bound and a fence bound expire.  A     *)
(* sendall may block for ever (the socket has no send budget), nobody is      *)
(* obliged to start, stop, attach or press a key, and nobody to reconnect.    *)
(* A thread waiting for send_lock gets it if it keeps coming free.            *)

RunProgress(g) ==
  \/ RunClears(g) \/ RunEndsAtBoundary(g) \/ RunBeginsSend(g)
  \/ RunSendRaises(g) \/ RunSettles(g)
  \/ StartUnwinds(g) \/ AutoLoopFinishes(g)
  \/ TradeChainReleases(g) \/ TradeChainPublishes(g)
  \/ ExplorePublishes(g) \/ StardockHoldPublishes(g) \/ ReleasesAfterPublishing(g)

StopProgress(k) == JoinReturns(k) \/ JoinExpires(k) \/ RejoinExpires(k)

DispatchProgress(d) ==
  \/ DispatchBeginsSend(d) \/ DispatchSettles(d) \/ DispatchUnwinds(d)
  \/ DispatchReleases(d)

KeyProgress(a) ==
  \/ FenceSeenDown(a) \/ FenceWaitExpires(a) \/ UnblockWaitExpires(a)
  \/ KeyBeginsSend(a) \/ KeyRaises(a)

Fairness ==
  /\ \A g \in Generations : WF_vars(RunProgress(g)) /\ SF_vars(RunBeginsSend(g))
  /\ \A k \in Runners : WF_vars(StopProgress(k))
  /\ \A d \in Dispatchers : WF_vars(DispatchProgress(d))
  /\ \A a \in Attachers : WF_vars(KeyProgress(a)) /\ SF_vars(KeyBeginsSend(a))

\* A thread that waits for send_lock, or wakes from a shut-down socket, gets
\* there before a new telnet connection is up.
TimelyNext == ThreadStep \/ PeerDrops \/ (~Failing /\ Reconnect)

FairSpec == Init /\ [][TimelyNext]_vars /\ Fairness

-----------------------------------------------------------------------------
(* Invariants *)

OnTheWire == {"cleared", "sending", "settling"}

\* The human's byte and an App step are never on the wire together, unless
\* the wait for the fence ran out: a run that was preempted, and whose human
\* left and came back, still keeps the keystroke waiting.
QuietWire ==
  \A a \in Attachers :
    human[a] \in {"typing", "sending"} /\ a \notin gaveUp =>
      /\ \A g \in Generations : run[g].phase \notin OnTheWire
      /\ \A d \in Dispatchers : dispatch[d] = "idle"

\* stop() reaches every run that may still send: no later start, and no late
\* publication of an earlier run, takes over or clears its registration.
EveryRunStoppable ==
  \A g \in Generations :
    run[g].phase \in OnTheWire \cup {"boundary", "broken"} =>
      inFlight[run[g].kind] /\ current[run[g].kind] = g

\* AutoLoopRunner's port asks whether some hold stands, and takes the answer
\* for its own (session/autoloop.py:113): it is, unless another runner holds.
StandingHoldIsMine ==
  \A g \in Generations :
    run[g].kind = "autoloop" /\ run[g].phase = "boundary" /\ autoLoopHeld =>
      \/ autoLoopGeneration = g
      \/ run[autoLoopGeneration].kind # "autoloop"

\* A run of another runner was granted after this one.
Overtaken(g) ==
  \E h \in Generations : h > g /\ run[h].kind \notin {"none", "autoloop"}

\* A macro run that lost its hold to a human finishes the step it had already
\* cleared and begins no other, whoever comes and goes while it winds down,
\* unless a run of another runner came after it.
PreemptedMacroSendsAtMostOnce ==
  \A g \in Generations : run[g].kind = "autoloop" => run[g].late <= 1 \/ Overtaken(g)

\* A preempted macro yields: it takes no later macro's hold for its own, and
\* sends at most the step it had cleared; only a hold of another runner, which
\* it cannot tell from its own, can make it go on.
MacroYields == StandingHoldIsMine /\ PreemptedMacroSendsAtMostOnce

-----------------------------------------------------------------------------
(* The daemon's threads are legal callers of the lock. *)

Contract == INSTANCE LockContract WITH runs <- LiveRuns

\* Every step of every thread is a legal call of the lock or none: in whatever
\* order a runner clears its flags and releases its hold, on every exit, the
\* token goes back exactly once.
CallersKeepContract == Contract!Spec

-----------------------------------------------------------------------------
(* Liveness *)

\* stop() on a runner that shuts the socket down ends the run, even one whose
\* sendall never returns.
StopEndsRun ==
  \A g \in Generations :
    run[g].stop /\ run[g].kind \in UnblocksOnStop ~> run[g].phase = "done"

\* A keystroke that meets a fence is not held for ever: it gets to the socket
\* even when the fenced run's sendall never returns.
KeyReachesSocket ==
  \A a \in Attachers : human[a] = "waiting" ~> human[a] \in InSend

\* Nobody is stuck behind a sendall that never returns, the one who stops the
\* run as little as the one who types.
NobodyStuck == StopEndsRun /\ KeyReachesSocket

-----------------------------------------------------------------------------
(* Statements of the repository that this model refutes.  A run checks the    *)
(* first; the others are here to be put after INVARIANT in a configuration    *)
(* with an attacher, a dispatcher and the autoloop runner.                    *)

\* A human attached, so the trainer yields the keyboard unconditionally
\* (canon/architecture/control-and-escalation.md:109): a preempted run of any
\* runner sends at most what it had already cleared.
PreemptedRunSendsAtMostOnce == \A g \in Generations : run[g].late <= 1

\* The keystroke is always eventually sent even if the fence bound is reached
\* (session/session.py:1026): giving up on the fence does not lose the byte.
KeyOutlivesFenceBound == \A a \in gaveUp : human[a] # "broken"

\* A ledger row says interrupted_by_human when an attach fenced this dispatch
\* (session/protocol.py:1274), not when some earlier run was.
InterruptedMeansThisDispatch ==
  \A d \in Dispatchers : dispatch[d] = "settling" => (DriverWasFenced <=> driverFenced)

\* One thing drives the connection at any instant (README.md:79): no dispatch
\* puts its bytes into the send-then-settle window of a run.
OneDriverOnTheWire ==
  ~ \E g \in Generations, d \in Dispatchers :
      run[g].phase \in {"sending", "settling"} /\ dispatch[d] \in {"sending", "settling"}
=============================================================================

--------------------------- MODULE AppDriversProofs ---------------------------
(***************************************************************************)
(* AppDrivers for any number of runs, runners, dispatches and humans: its  *)
(* threads are legal callers of the lock, a keystroke never meets an App   *)
(* step on the wire unless the wait for the fence ran out, and stop()      *)
(* reaches every run that may still send; and a macro that lost its hold   *)
(* yields, unless a run of another runner came after it.                   *)
(***************************************************************************)
EXTENDS AppDrivers, TLAPS

-----------------------------------------------------------------------------
(* The inductive invariant *)

\* The lock's two records account for the live runs; a hold stands under no
\* human and beside no dispatch.
Books ==
  /\ LiveRuns = autoLoopFencedGenerations \cup HoldingGeneration
  /\ HoldingGeneration \cap autoLoopFencedGenerations = {}
  /\ autoLoopHeld => mode = "app"
  /\ ~(driving /\ autoLoopHeld)

\* The driving slot is the one dispatch's inside its with-block; a human who
\* has the seat finds it fenced.
OneDispatch ==
  /\ driverFenced => driving
  /\ mode = "human" /\ driving => driverFenced
  /\ driving <=> \E d \in Dispatchers : dispatch[d] # "idle"
  /\ \A d, e \in Dispatchers : dispatch[d] # "idle" /\ dispatch[e] # "idle" => d = e

\* The mode is "human" while the one attached connection is inside its handler.
OneHuman ==
  /\ mode = "human" <=> \E a \in Attachers : human[a] # "away"
  /\ \A a, b \in Attachers : human[a] # "away" /\ human[b] # "away" => a = b

\* Tokens are minted in order, each for a thread of one runner.
Minted ==
  \A g \in Generations : run[g].phase # "none" => g <= autoLoopGeneration /\ run[g].kind \in Runners

\* Until it publishes, a run is the one its runner has registered; a runner
\* inside start() has none in flight.
Registered == {"boundary", "cleared", "sending", "broken", "settling", "closing", "unwinding", "released"}
Registration ==
  /\ \A k \in starting : ~inFlight[k]
  /\ \A g \in Generations : run[g].phase \in Registered =>
       inFlight[run[g].kind] /\ current[run[g].kind] = g
  /\ \A g \in Generations : run[g].phase = "released" => run[g].kind = "trade_chain"

\* Who types without having outwaited the fence saw it down, and nothing of the
\* App's can come up while the human stays.
FenceDown ==
  /\ \A a \in Attachers : human[a] \in {"typing", "sending"} /\ a \notin gaveUp => ~IsDriverFenced
  /\ \A a \in Attachers : human[a] = "unblocked" => a \in gaveUp

DriversInv ==
  TypeOK /\ Books /\ OneDispatch /\ OneHuman /\ Minted /\ Registration /\ FenceDown

-----------------------------------------------------------------------------
(* Every step keeps the invariant *)

RunRecords == [kind : Runners \cup {"none"}, phase : RunPhases, stop : BOOLEAN, late : 0..LateSendBound]

\* Nothing drives at the start.
LEMMA InitDrivers == Init => DriversInv
<1> SUFFICES ASSUME Init PROVE DriversInv
  OBVIOUS
<1> USE MaxGenerationAssumption, DriversAssumption DEF Init, LockInit
<1>1. TypeOK
  <2>1. mode \in Modes /\ autoLoopGeneration \in 0..MaxGeneration
    BY DEF Modes
  <2>2. autoLoopHeld \in BOOLEAN /\ driving \in BOOLEAN /\ driverFenced \in BOOLEAN /\ connected \in BOOLEAN
    OBVIOUS
  <2>3. autoLoopFencedGenerations \in SUBSET (1..MaxGeneration) /\ starting \subseteq Runners /\ gaveUp \subseteq Attachers
    OBVIOUS
  <2>4. inFlight \in [Runners -> BOOLEAN]
    OBVIOUS
  <2>5. current \in [Runners -> 0..MaxGeneration]
    OBVIOUS
  <2>6. stopper \in [Runners -> [phase : {"idle", "joining", "rejoining"}, target : 0..MaxGeneration]]
    BY DEF NotStopping
  <2>7. run \in [Generations -> RunRecords]
    BY DEF NoRun, RunPhases, RunRecords
  <2>8. dispatch \in [Dispatchers -> DispatchPhases] /\ human \in [Attachers -> HumanPhases]
    BY DEF DispatchPhases, HumanPhases
  <2> QED BY <2>1, <2>2, <2>3, <2>4, <2>5, <2>6, <2>7, <2>8 DEF TypeOK, LockTypeOK, RunRecords
<1>2. Books /\ OneDispatch /\ OneHuman
  BY DEF Books, OneDispatch, OneHuman, LiveRuns, HoldingGeneration, NoRun
<1>3. Minted /\ Registration
  BY DEF Minted, Registration, Registered, NoRun
<1>4. FenceDown
  BY DEF FenceDown
<1> QED BY <1>1, <1>2, <1>3, <1>4 DEF DriversInv

-----------------------------------------------------------------------------
\* A step that calls no method of the lock and registers nothing: it moves
\* threads on, between places that count alike.
Working == {"boundary", "cleared", "sending", "broken", "settling", "closing"}
Alike ==
  /\ UNCHANGED <<lockVars, inFlight, current>>
  /\ \A k \in starting' : ~inFlight[k]
  /\ \A g \in Generations :
       /\ run'[g].kind = run[g].kind
       /\ run'[g].phase = run[g].phase \/ {run[g].phase, run'[g].phase} \subseteq Working
  /\ \A d \in Dispatchers : dispatch'[d] = "idle" <=> dispatch[d] = "idle"
  /\ \A a \in Attachers :
       /\ human'[a] = "away" <=> human[a] = "away"
       /\ human'[a] \in {"typing", "sending"} /\ a \notin gaveUp' =>
            (human[a] \in {"typing", "sending"} /\ a \notin gaveUp) \/ ~IsDriverFenced
       /\ human'[a] = "unblocked" => a \in gaveUp'

\* Such a step keeps the books, whatever it is.
LEMMA AlikeKeeps ==
  ASSUME DriversInv, Alike, TypeOK' PROVE DriversInv' /\ LiveRuns' = LiveRuns
<1> USE DEF DriversInv, Alike, lockVars
<1>1. LiveRuns' = LiveRuns
  BY DEF LiveRuns, Working
<1>2. Books'
  BY <1>1 DEF Books, HoldingGeneration
<1>3. OneDispatch'
  BY DEF OneDispatch
<1>4. OneHuman'
  BY DEF OneHuman
<1>5. Minted'
  BY DEF Minted, Working
<1>6. Registration'
  BY DEF Registration, Registered, Working
<1>7. FenceDown'
  BY DEF FenceDown, IsDriverFenced
<1> QED BY <1>1, <1>2, <1>3, <1>4, <1>5, <1>6, <1>7

\* The steps that are such.
QuietStep ==
  \/ PeerDrops \/ Reconnect
  \/ \E g \in Generations :
       RunClears(g) \/ RunEndsAtBoundary(g) \/ RunBeginsSend(g) \/ RunSendReturns(g) \/ RunSendRaises(g) \/ RunSettles(g)
  \/ \E k \in Runners :
       StartChecks(k) \/ StartRefused(k) \/ StopRequested(k) \/ JoinReturns(k) \/ JoinExpires(k) \/ RejoinExpires(k)
  \/ \E d \in Dispatchers : DispatchBeginsSend(d) \/ DispatchSendReturns(d) \/ DispatchSettles(d) \/ DispatchUnwinds(d)
  \/ \E a \in Attachers :
       PressesKey(a) \/ FenceSeenDown(a) \/ FenceWaitExpires(a) \/ UnblockWaitExpires(a)
       \/ KeyBeginsSend(a) \/ KeySent(a) \/ KeyRaises(a)

\* A run that moves to another phase is a run still.
LEMMA PhaseTyped ==
  ASSUME TypeOK, NEW g \in Generations, NEW p \in RunPhases, Phase(g, p)
  PROVE  run' \in [Generations -> RunRecords]
<1>1. run \in [Generations -> RunRecords]
  BY DEF TypeOK, RunRecords
<1>2. run' = [run EXCEPT ![g].phase = p]
  BY DEF Phase
<1>3. [run[g] EXCEPT !.phase = p] \in RunRecords
  BY <1>1 DEF RunRecords
<1> QED BY ONLY <1>1, <1>2, <1>3

\* A broken connection interrupts the sends and nothing else.
LEMMA BrokenTyped ==
  ASSUME TypeOK, ForceUnblockApp
  PROVE  /\ run' \in [Generations -> RunRecords] /\ dispatch' \in [Dispatchers -> DispatchPhases]
         /\ connected' \in BOOLEAN /\ BrokenHumans \in [Attachers -> HumanPhases]
<1>1. \A g \in Generations : [run[g] EXCEPT !.phase = Broken(@)] \in RunRecords
  <2> TAKE g \in Generations
  <2>1. run[g] \in RunRecords
    BY DEF TypeOK, RunRecords
  <2>2. Broken(run[g].phase) \in RunPhases
    <3>1. run[g].phase \in RunPhases
      BY <2>1 DEF RunRecords
    <3> QED BY ONLY <3>1 DEF Broken, RunPhases
  <2> QED BY <2>1, <2>2 DEF RunRecords
<1>2. run' \in [Generations -> RunRecords]
  BY <1>1 DEF ForceUnblockApp
<1>3. \A d \in Dispatchers : Broken(dispatch[d]) \in DispatchPhases
  BY DEF TypeOK, Broken, DispatchPhases
<1>4. \A a \in Attachers : Broken(human[a]) \in HumanPhases
  BY DEF TypeOK, Broken, HumanPhases
<1> QED BY <1>2, <1>3, <1>4 DEF ForceUnblockApp, BrokenHumans

\* They keep the types.
LEMMA QuietTypes == ASSUME TypeOK, QuietStep PROVE TypeOK'
<1> USE MaxGenerationAssumption, DriversAssumption DEF RunRecords, TypeOK, LockTypeOK, lockVars, runnerVars, clientVars
<1>1. ASSUME NEW g \in Generations, RunClears(g) PROVE TypeOK'
  <2>1. PICK p \in RunPhases : Phase(g, p)
    BY <1>1 DEF RunClears, RunPhases
  <2>2. run' \in [Generations -> RunRecords]
    BY <2>1, PhaseTyped
  <2>3. UNCHANGED <<lockVars, runnerVars, clientVars, connected>>
    BY <1>1 DEF RunClears
  <2> QED BY <2>2, <2>3
<1>2. ASSUME NEW g \in Generations, RunEndsAtBoundary(g) PROVE TypeOK'
  <2>1. PICK p \in RunPhases : Phase(g, p)
    BY <1>2 DEF RunEndsAtBoundary, RunPhases
  <2>2. run' \in [Generations -> RunRecords]
    BY <2>1, PhaseTyped
  <2>3. UNCHANGED <<lockVars, runnerVars, clientVars, connected>>
    BY <1>2 DEF RunEndsAtBoundary
  <2> QED BY <2>2, <2>3
<1>3. ASSUME NEW g \in Generations, RunBeginsSend(g) PROVE TypeOK'
  <2> DEFINE n == IF Preempted(g) /\ run[g].late < LateSendBound THEN run[g].late + 1 ELSE run[g].late
  <2>1. n \in 0..LateSendBound
    OBVIOUS
  <2> DEFINE p == IF connected THEN "sending" ELSE "broken"
  <2>2. run' = [run EXCEPT ![g].phase = p, ![g].late = n] /\ p \in RunPhases
    BY <1>3 DEF RunBeginsSend, RunPhases
  <2> HIDE DEF n, p
  <2>3. run' \in [Generations -> RunRecords]
    <3>1. [run[g] EXCEPT !.phase = p, !.late = n] \in RunRecords
      BY <2>1, <2>2
    <3>2. run \in [Generations -> RunRecords]
      OBVIOUS
    <3> QED BY ONLY <2>2, <3>1, <3>2
  <2>4. UNCHANGED <<lockVars, runnerVars, clientVars, connected>>
    BY <1>3 DEF RunBeginsSend
  <2> QED BY <2>3, <2>4
<1>4. ASSUME NEW g \in Generations, RunSendReturns(g) PROVE TypeOK'
  <2>1. PICK p \in RunPhases : Phase(g, p)
    BY <1>4 DEF RunSendReturns, RunPhases
  <2>2. run' \in [Generations -> RunRecords]
    BY <2>1, PhaseTyped
  <2>3. UNCHANGED <<lockVars, runnerVars, clientVars, connected>>
    BY <1>4 DEF RunSendReturns
  <2> QED BY <2>2, <2>3
<1>5. ASSUME NEW g \in Generations, RunSendRaises(g) PROVE TypeOK'
  <2>1. PICK p \in RunPhases : Phase(g, p)
    BY <1>5 DEF RunSendRaises, RunPhases
  <2>2. run' \in [Generations -> RunRecords]
    BY <2>1, PhaseTyped
  <2>3. UNCHANGED <<lockVars, runnerVars, clientVars, connected>>
    BY <1>5 DEF RunSendRaises
  <2> QED BY <2>2, <2>3
<1>6. ASSUME NEW g \in Generations, RunSettles(g) PROVE TypeOK'
  <2>1. PICK p \in RunPhases : Phase(g, p)
    BY <1>6 DEF RunSettles, RunPhases
  <2>2. run' \in [Generations -> RunRecords]
    BY <2>1, PhaseTyped
  <2>3. UNCHANGED <<lockVars, runnerVars, clientVars, connected>>
    BY <1>6 DEF RunSettles
  <2> QED BY <2>2, <2>3
<1>7. ASSUME NEW k \in Runners, StartChecks(k) PROVE TypeOK'
  BY <1>7 DEF StartChecks, NotStopping
<1>8. ASSUME NEW k \in Runners, StartRefused(k) PROVE TypeOK'
  BY <1>8 DEF StartRefused, NotStopping
<1>9. ASSUME NEW k \in Runners, StopRequested(k) PROVE TypeOK'
  <2>1. current[k] \in 0..MaxGeneration
    OBVIOUS
  <2> DEFINE c == current[k]
  <2>2. /\ run' = [run EXCEPT ![c].stop = TRUE]
        /\ stopper' = [stopper EXCEPT ![k] = [phase |-> "joining", target |-> c]]
        /\ UNCHANGED <<lockVars, starting, inFlight, current, clientVars, connected>>
    BY <1>9 DEF StopRequested
  <2> HIDE DEF c
  <2>3. run \in [Generations -> RunRecords]
    OBVIOUS
  <2>4. run' \in [Generations -> RunRecords]
    <3>1. CASE c \in Generations
      <4>1. [run[c] EXCEPT !.stop = TRUE] \in RunRecords
        BY <2>3, <3>1
      <4> QED BY ONLY <2>2, <2>3, <3>1, <4>1
    <3>2. CASE c \notin Generations
      BY ONLY <2>2, <2>3, <3>2
    <3> QED BY <3>1, <3>2
  <2>5. stopper' \in [Runners -> [phase : {"idle", "joining", "rejoining"}, target : 0..MaxGeneration]]
    BY <2>1, <2>2 DEF c
  <2> QED BY <2>2, <2>4, <2>5
<1>10. ASSUME NEW k \in Runners, JoinReturns(k) PROVE TypeOK'
  BY <1>10 DEF JoinReturns, NotStopping
<1>11. ASSUME NEW k \in Runners, JoinExpires(k) PROVE TypeOK'
  <2>1. CASE k \in UnblocksOnStop
    <3>1. stopper' \in [Runners -> [phase : {"idle", "joining", "rejoining"}, target : 0..MaxGeneration]]
      BY <1>11, <2>1 DEF JoinExpires
    <3>2. /\ run' \in [Generations -> RunRecords]
          /\ dispatch' \in [Dispatchers -> DispatchPhases] /\ human' \in [Attachers -> HumanPhases]
      <4>1. ForceUnblockApp /\ human' = BrokenHumans
        BY <1>11, <2>1 DEF JoinExpires
      <4> QED BY <4>1, BrokenTyped
    <3>3. UNCHANGED <<lockVars, starting, inFlight, current, gaveUp>> /\ connected' \in BOOLEAN
      BY <1>11, <2>1 DEF JoinExpires, ForceUnblockApp
    <3> QED BY <3>1, <3>2, <3>3
  <2>2. CASE k \notin UnblocksOnStop
    BY <1>11, <2>2 DEF JoinExpires, NotStopping
  <2> QED BY <2>1, <2>2
<1>12. ASSUME NEW k \in Runners, RejoinExpires(k) PROVE TypeOK'
  BY <1>12 DEF RejoinExpires, NotStopping
<1>13. ASSUME NEW d \in Dispatchers, DispatchBeginsSend(d) PROVE TypeOK'
  BY <1>13 DEF DispatchBeginsSend, DispatchPhase, DispatchPhases
<1>14. ASSUME NEW d \in Dispatchers, DispatchSendReturns(d) PROVE TypeOK'
  BY <1>14 DEF DispatchSendReturns, DispatchPhase, DispatchPhases
<1>15. ASSUME NEW d \in Dispatchers, DispatchSettles(d) PROVE TypeOK'
  BY <1>15 DEF DispatchSettles, DispatchPhase, DispatchPhases
<1>16. ASSUME NEW d \in Dispatchers, DispatchUnwinds(d) PROVE TypeOK'
  BY <1>16 DEF DispatchUnwinds, DispatchPhase, DispatchPhases
<1>17. ASSUME NEW a \in Attachers, PressesKey(a) PROVE TypeOK'
  BY <1>17 DEF PressesKey, HumanPhase, HumanPhases
<1>18. ASSUME NEW a \in Attachers, FenceSeenDown(a) PROVE TypeOK'
  BY <1>18 DEF FenceSeenDown, HumanPhase, HumanPhases
<1>19. ASSUME NEW a \in Attachers, FenceWaitExpires(a) PROVE TypeOK'
  <2>1. ForceUnblockApp /\ human' = [BrokenHumans EXCEPT ![a] = "unblocked"]
    BY <1>19 DEF FenceWaitExpires
  <2>2. gaveUp' \subseteq Attachers /\ UNCHANGED <<lockVars, runnerVars>>
    BY <1>19 DEF FenceWaitExpires
  <2>3. BrokenHumans \in [Attachers -> HumanPhases]
    BY <2>1, BrokenTyped
  <2>4. human' \in [Attachers -> HumanPhases]
    BY ONLY <2>1, <2>3 DEF HumanPhases
  <2> QED BY <2>1, <2>2, <2>4, BrokenTyped
<1>20. ASSUME NEW a \in Attachers, UnblockWaitExpires(a) PROVE TypeOK'
  BY <1>20 DEF UnblockWaitExpires, HumanPhase, HumanPhases
<1>21. ASSUME NEW a \in Attachers, KeyBeginsSend(a) PROVE TypeOK'
  BY <1>21 DEF KeyBeginsSend, HumanPhase, HumanPhases
<1>22. ASSUME NEW a \in Attachers, KeySent(a) PROVE TypeOK'
  BY <1>22 DEF KeySent, HumanPhase, HumanPhases
<1>23. ASSUME NEW a \in Attachers, KeyRaises(a) PROVE TypeOK'
  BY <1>23 DEF KeyRaises, HumanPhase, HumanPhases
<1>24. CASE PeerDrops
  <2>1. ForceUnblockApp /\ human' = BrokenHumans /\ UNCHANGED <<lockVars, runnerVars, gaveUp>>
    BY <1>24 DEF PeerDrops
  <2> QED BY <2>1, BrokenTyped
<1>25. CASE Reconnect
  BY <1>25 DEF Reconnect
<1> QED
  BY <1>1, <1>2, <1>3, <1>4, <1>5, <1>6, <1>7, <1>8, <1>9, <1>10, <1>11, <1>12, <1>13, <1>14, <1>15, <1>16,
     <1>17, <1>18, <1>19, <1>20, <1>21, <1>22, <1>23, <1>24, <1>25 DEF QuietStep

\* They are alike.
LEMMA QuietSteps == ASSUME DriversInv, QuietStep PROVE Alike
<1> USE DEF DriversInv, TypeOK, Alike, Working, lockVars, runnerVars, clientVars, Registration, FenceDown
<1>1. ASSUME NEW g \in Generations, RunClears(g) PROVE Alike
  BY <1>1 DEF RunClears, Phase
<1>2. ASSUME NEW g \in Generations, RunEndsAtBoundary(g) PROVE Alike
  BY <1>2 DEF RunEndsAtBoundary, Phase
<1>3. ASSUME NEW g \in Generations, RunBeginsSend(g) PROVE Alike
  BY <1>3 DEF RunBeginsSend, Phase
<1>4. ASSUME NEW g \in Generations, RunSendReturns(g) PROVE Alike
  BY <1>4 DEF RunSendReturns, Phase
<1>5. ASSUME NEW g \in Generations, RunSendRaises(g) PROVE Alike
  BY <1>5 DEF RunSendRaises, Phase
<1>6. ASSUME NEW g \in Generations, RunSettles(g) PROVE Alike
  BY <1>6 DEF RunSettles, Phase
<1>7. ASSUME NEW k \in Runners, StartChecks(k) PROVE Alike
  BY <1>7 DEF StartChecks, NotStopping
<1>8. ASSUME NEW k \in Runners, StartRefused(k) PROVE Alike
  BY <1>8 DEF StartRefused, NotStopping
<1>9. ASSUME NEW k \in Runners, StopRequested(k) PROVE Alike
  BY <1>9 DEF StopRequested
<1>10. ASSUME NEW k \in Runners, JoinReturns(k) PROVE Alike
  BY <1>10 DEF JoinReturns, NotStopping
<1>11. ASSUME NEW k \in Runners, JoinExpires(k) PROVE Alike
  BY <1>11 DEF JoinExpires, NotStopping, ForceUnblockApp, BrokenHumans, Broken
<1>12. ASSUME NEW k \in Runners, RejoinExpires(k) PROVE Alike
  BY <1>12 DEF RejoinExpires, NotStopping
<1>13. ASSUME NEW d \in Dispatchers, DispatchBeginsSend(d) PROVE Alike
  BY <1>13 DEF DispatchBeginsSend, DispatchPhase
<1>14. ASSUME NEW d \in Dispatchers, DispatchSendReturns(d) PROVE Alike
  BY <1>14 DEF DispatchSendReturns, DispatchPhase
<1>15. ASSUME NEW d \in Dispatchers, DispatchSettles(d) PROVE Alike
  BY <1>15 DEF DispatchSettles, DispatchPhase
<1>16. ASSUME NEW d \in Dispatchers, DispatchUnwinds(d) PROVE Alike
  BY <1>16 DEF DispatchUnwinds, DispatchPhase
<1>17. ASSUME NEW a \in Attachers, PressesKey(a) PROVE Alike
  BY <1>17 DEF PressesKey, HumanPhase
<1>18. ASSUME NEW a \in Attachers, FenceSeenDown(a) PROVE Alike
  BY <1>18 DEF FenceSeenDown, HumanPhase
<1>19. ASSUME NEW a \in Attachers, FenceWaitExpires(a) PROVE Alike
  BY <1>19 DEF FenceWaitExpires, HumanPhase, ForceUnblockApp, BrokenHumans, Broken
<1>20. ASSUME NEW a \in Attachers, UnblockWaitExpires(a) PROVE Alike
  BY <1>20 DEF UnblockWaitExpires, HumanPhase
<1>21. ASSUME NEW a \in Attachers, KeyBeginsSend(a) PROVE Alike
  BY <1>21 DEF KeyBeginsSend, HumanPhase
<1>22. ASSUME NEW a \in Attachers, KeySent(a) PROVE Alike
  BY <1>22 DEF KeySent, HumanPhase
<1>23. ASSUME NEW a \in Attachers, KeyRaises(a) PROVE Alike
  BY <1>23 DEF KeyRaises, HumanPhase
<1>24. CASE PeerDrops
  BY <1>24 DEF PeerDrops, ForceUnblockApp, BrokenHumans, Broken
<1>25. CASE Reconnect
  BY <1>25 DEF Reconnect
<1> QED
  BY <1>1, <1>2, <1>3, <1>4, <1>5, <1>6, <1>7, <1>8, <1>9, <1>10, <1>11, <1>12, <1>13, <1>14, <1>15, <1>16,
     <1>17, <1>18, <1>19, <1>20, <1>21, <1>22, <1>23, <1>24, <1>25 DEF QuietStep

-----------------------------------------------------------------------------
(* The steps that call the lock or publish *)

\* The contract's methods are the lock's own.
LEMMA SameMethods ==
  /\ Contract!TakeHuman <=> TakeHuman
  /\ Contract!ReleaseHuman <=> ReleaseHuman
  /\ Contract!AcquireDriver <=> AcquireDriver
  /\ Contract!ReleaseDriver <=> ReleaseDriver
  /\ Contract!EnterAutoLoop <=> EnterAutoLoop
  /\ \A g : Contract!LeaveAutoLoop(g) <=> LeaveAutoLoop(g)
BY DEF Contract!TakeHuman, TakeHuman, Contract!ReleaseHuman, ReleaseHuman, Contract!AcquireDriver, AcquireDriver,
   Contract!AcquireRefusal, AcquireRefusal, Contract!ReleaseDriver, ReleaseDriver, Contract!EnterAutoLoop, EnterAutoLoop,
   Contract!EnterRefusal, EnterRefusal, Contract!LeaveAutoLoop, LeaveAutoLoop, Contract!HoldingGeneration, HoldingGeneration

\* A start that is granted, or whose thread does not come up.
LEMMA StartIsGranted ==
  ASSUME DriversInv, NEW k \in Runners, NEW phase \in {"boundary", "unwinding"}, StartGranted(k, phase)
  PROVE  DriversInv' /\ Contract!RunStarts
<1> USE MaxGenerationAssumption, DriversAssumption
    DEF DriversInv, TypeOK, LockTypeOK, clientVars, StartGranted, EnterAutoLoop, EnterRefusal
<1>1. TypeOK'
  <2>1. LockTypeOK'
    <3>1. autoLoopGeneration + 1 \in 0..MaxGeneration
      OBVIOUS
    <3>2. mode' = "app" /\ autoLoopHeld' = TRUE /\ UNCHANGED <<driving, driverFenced, autoLoopFencedGenerations>>
      OBVIOUS
    <3> QED BY <3>1, <3>2 DEF Modes
  <2>2. run' \in [Generations -> RunRecords]
    <3> DEFINE record == [kind |-> k, phase |-> phase, stop |-> FALSE, late |-> 0]
    <3>1. record \in RunRecords
      BY DEF RunRecords, RunPhases
    <3>2. run' = [run EXCEPT ![autoLoopGeneration + 1] = record]
      OBVIOUS
    <3> HIDE DEF record
    <3> QED BY <3>1, <3>2 DEF RunRecords
  <2>3. inFlight' \in [Runners -> BOOLEAN] /\ starting' \subseteq Runners
    OBVIOUS
  <2>4. current' \in [Runners -> 0..MaxGeneration]
    <3>1. autoLoopGeneration + 1 \in 0..MaxGeneration
      OBVIOUS
    <3> QED BY <3>1
  <2> QED BY <2>1, <2>2, <2>3, <2>4 DEF RunRecords
<1>2. LiveRuns' = LiveRuns \cup {autoLoopGeneration + 1}
  BY DEF LiveRuns, Generations
<1>3. Books'
  BY <1>2 DEF Books, HoldingGeneration, Minted, LiveRuns
<1>4. OneDispatch' /\ OneHuman'
  BY DEF OneDispatch, OneHuman
<1>5. Minted'
  BY DEF Minted, Generations
<1>6. Registration'
  BY DEF Registration, Registered, Minted
<1>7. FenceDown'
  BY DEF FenceDown, IsDriverFenced
<1>8. Contract!RunStarts
  BY <1>2, SameMethods DEF Contract!RunStarts
<1> QED BY <1>1, <1>3, <1>4, <1>5, <1>6, <1>7, <1>8

\* A live run gives its hold back: with its registration, before it or after.
Releases(g) ==
  /\ LeaveAutoLoop(g)
  /\ UNCHANGED <<starting, stopper, clientVars, connected>>
  /\ \/ run[g].phase \in {"closing", "unwinding"} /\ Unregister(run[g].kind) /\ Phase(g, "done")
     \/ run[g].phase = "published" /\ UNCHANGED <<inFlight, current>> /\ Phase(g, "done")
     \/ TradeChainReleases(g)

\* It does so as a legal call.
LEMMA RunReleases == ASSUME DriversInv, NEW g \in Generations, Releases(g) PROVE DriversInv' /\ Contract!RunEnds(g)
<1> USE MaxGenerationAssumption DEF DriversInv, clientVars, Releases, TradeChainReleases, runnerVars, LeaveAutoLoop, Unregister, Phase
<1>1. TypeOK'
  <2>1. LockTypeOK'
    BY DEF TypeOK, LockTypeOK
  <2>2. run' \in [Generations -> RunRecords]
    <3>1. PICK p \in {"done", "released"} : Phase(g, p)
      OBVIOUS
    <3>2. p \in RunPhases
      BY DEF RunPhases
    <3> QED BY <3>1, <3>2, PhaseTyped
  <2>3. inFlight' \in [Runners -> BOOLEAN] /\ current' \in [Runners -> 0..MaxGeneration]
    <3>1. CASE UNCHANGED <<inFlight, current>>
      BY <3>1 DEF TypeOK
    <3>2. CASE Unregister(run[g].kind)
      <4>1. inFlight' = [inFlight EXCEPT ![run[g].kind] = FALSE] /\ current' = [current EXCEPT ![run[g].kind] = 0]
        BY <3>2
      <4>2. inFlight \in [Runners -> BOOLEAN] /\ current \in [Runners -> 0..MaxGeneration]
        BY DEF TypeOK
      <4>3. inFlight' \in [Runners -> BOOLEAN]
        BY ONLY <4>1, <4>2
      <4>4. current' \in [Runners -> 0..MaxGeneration]
        <5>1. 0 \in 0..MaxGeneration
          OBVIOUS
        <5> QED BY ONLY <4>1, <4>2, <5>1
      <4> QED BY <4>3, <4>4
    <3> QED BY <3>1, <3>2
  <2> QED BY <2>1, <2>2, <2>3 DEF TypeOK, RunRecords
<1> USE DEF TypeOK, LockTypeOK
<1>2. LiveRuns' = LiveRuns \ {g} /\ g \in LiveRuns
  BY DEF LiveRuns
<1>3. Books'
  BY <1>2 DEF Books, HoldingGeneration
<1>4. OneDispatch' /\ OneHuman'
  BY DEF OneDispatch, OneHuman
<1>5. Minted'
  <2>1. run[g].phase # "none" /\ UNCHANGED autoLoopGeneration
    OBVIOUS
  <2>2. PICK p \in {"done", "released"} : Phase(g, p)
    OBVIOUS
  <2>3. \A h \in Generations : run'[h].kind = run[h].kind /\ (run'[h].phase = run[h].phase \/ h = g)
    BY <2>2 DEF RunRecords
  <2> QED BY <2>1, <2>3 DEF Minted
<1>6. Registration'
  <2>1. CASE UNCHANGED <<inFlight, current>>
    BY <2>1 DEF Registration, Registered
  <2>2. CASE Unregister(run[g].kind) /\ Phase(g, "done") /\ run[g].phase \in Registered
    BY <2>2 DEF Registration, Registered, Minted
  <2> QED BY <2>1, <2>2 DEF Registered
<1>7. FenceDown'
  BY DEF FenceDown, IsDriverFenced
<1>8. Contract!RunEnds(g)
  BY <1>2, SameMethods DEF Contract!RunEnds
<1> QED BY <1>1, <1>3, <1>4, <1>5, <1>6, <1>7, <1>8

\* A run clears its registration before its hold, or after it.
Publishes(g) == TradeChainPublishes(g) \/ ExplorePublishes(g) \/ StardockHoldPublishes(g)

\* The lock is not called.
LEMMA RunPublishes ==
  ASSUME DriversInv, NEW g \in Generations, Publishes(g)
  PROVE  DriversInv' /\ UNCHANGED Contract!contractVars
<1> USE DEF DriversInv, TypeOK, lockVars, clientVars, Publishes, TradeChainPublishes, ExplorePublishes, StardockHoldPublishes,
            Unregister, Phase
<1>1. TypeOK'
  <2>1. LockTypeOK'
    BY DEF LockTypeOK
  <2>2. run' \in [Generations -> RunRecords]
    <3>1. PICK p \in {"done", "published"} : Phase(g, p)
      OBVIOUS
    <3>2. p \in RunPhases
      BY DEF RunPhases
    <3> QED BY <3>1, <3>2, PhaseTyped
  <2>3. inFlight' \in [Runners -> BOOLEAN]
    <3>1. inFlight \in [Runners -> BOOLEAN] /\ \E k : inFlight' = [inFlight EXCEPT ![k] = FALSE]
      OBVIOUS
    <3> QED BY ONLY <3>1
  <2>4. current' \in [Runners -> 0..MaxGeneration]
    <3>1. current' = current \/ \E k : current' = [current EXCEPT ![k] = 0]
      OBVIOUS
    <3>2. current \in [Runners -> 0..MaxGeneration] /\ 0 \in 0..MaxGeneration
      BY MaxGenerationAssumption
    <3> QED BY ONLY <3>1, <3>2
  <2> QED BY <2>1, <2>2, <2>3, <2>4 DEF RunRecords
<1>2. LiveRuns' = LiveRuns
  BY DEF LiveRuns
<1>3. Books' /\ OneDispatch' /\ OneHuman'
  BY <1>2 DEF Books, HoldingGeneration, OneDispatch, OneHuman
<1>4. Minted'
  BY DEF Minted
<1>5. Registration'
  <2>1. CASE TradeChainPublishes(g)
    BY <2>1 DEF Registration, Registered, Minted
  <2>2. CASE ExplorePublishes(g)
    BY <2>2 DEF Registration, Registered, Minted
  <2>3. CASE StardockHoldPublishes(g)
    BY <2>3 DEF Registration, Registered, Minted
  <2> QED BY <2>1, <2>2, <2>3
<1>6. FenceDown'
  BY DEF FenceDown, IsDriverFenced
<1> QED BY <1>1, <1>2, <1>3, <1>4, <1>5, <1>6 DEF Contract!contractVars

\* A dispatch gets the driving slot, and gives it back.
LEMMA SlotChangesHands ==
  ASSUME DriversInv, NEW d \in Dispatchers, DispatchAcquires(d) \/ DispatchReleases(d)
  PROVE  DriversInv' /\ (Contract!DispatchStarts \/ Contract!DispatchEnds)
<1> USE DEF DriversInv, TypeOK, LockTypeOK, runnerVars, DispatchAcquires, AcquireDriver, AcquireRefusal,
            DispatchReleases, ReleaseDriver, DispatchPhase
<1>1. TypeOK'
  BY DEF DispatchPhases
<1>2. LiveRuns' = LiveRuns
  BY DEF LiveRuns
<1>3. Books'
  BY <1>2 DEF Books, HoldingGeneration
<1>4. OneDispatch' /\ OneHuman'
  <2>1. CASE DispatchAcquires(d)
    <3>1. mode = "app" /\ ~driving /\ driving' /\ ~driverFenced'
      BY <2>1 DEF Modes
    <3>2. \A e \in Dispatchers : dispatch[e] = "idle" /\ (dispatch'[e] # "idle" <=> e = d)
      BY <2>1, <3>1 DEF OneDispatch
    <3> QED BY <2>1, <3>1, <3>2 DEF OneDispatch, OneHuman
  <2>2. CASE DispatchReleases(d)
    BY <2>2 DEF OneDispatch, OneHuman
  <2> QED BY <2>1, <2>2
<1>5. Minted' /\ Registration'
  BY DEF Minted, Registration, Registered
<1>6. FenceDown'
  BY DEF FenceDown, IsDriverFenced
<1>7. Contract!DispatchStarts \/ Contract!DispatchEnds
  <2>1. DispatchReleases(d) => driving
    BY DEF OneDispatch
  <2> QED BY <1>2, <2>1, SameMethods DEF Contract!DispatchStarts, Contract!DispatchEnds
<1> QED BY <1>1, <1>3, <1>4, <1>5, <1>6, <1>7

\* A human takes the seat, and leaves it.
LEMMA SeatChangesHands ==
  ASSUME DriversInv, NEW a \in Attachers, Attaches(a) \/ Detaches(a)
  PROVE  DriversInv' /\ (Contract!HumanAttaches \/ Contract!HumanDetaches)
<1> USE DEF DriversInv, TypeOK, LockTypeOK, runnerVars, Attaches, TakeHuman, Detaches, ReleaseHuman, HumanPhase
<1>1. TypeOK'
  BY DEF HumanPhases, Modes, HoldingGeneration, Books, LiveRuns, Generations
<1>2. LiveRuns' = LiveRuns
  BY DEF LiveRuns
<1>3. Detaches(a) => mode = "human"
  BY DEF OneHuman
<1>4. Books'
  BY <1>2, <1>3 DEF Books, HoldingGeneration
<1>5. OneDispatch' /\ OneHuman'
  BY DEF OneDispatch, OneHuman, Modes
<1>6. Minted' /\ Registration'
  BY DEF Minted, Registration, Registered
<1>7. FenceDown'
  BY DEF FenceDown, IsDriverFenced, OneHuman, HoldingGeneration
<1>8. Contract!HumanAttaches \/ Contract!HumanDetaches
  BY <1>2, <1>3, SameMethods DEF Contract!HumanAttaches, Contract!HumanDetaches
<1> QED BY <1>1, <1>4, <1>5, <1>6, <1>7, <1>8

-----------------------------------------------------------------------------

\* Every step of every thread keeps the invariant, and is a legal call of the
\* lock or none.
LEMMA NextDrivers == ASSUME DriversInv, [Next]_vars PROVE DriversInv' /\ [Contract!Next]_Contract!contractVars
<1>1. CASE QuietStep
  <2>1. DriversInv' /\ LiveRuns' = LiveRuns /\ UNCHANGED lockVars
    BY <1>1, QuietTypes, QuietSteps, AlikeKeeps DEF DriversInv, Alike
  <2> QED BY <2>1 DEF Contract!contractVars, lockVars
<1>2. ASSUME NEW k \in Runners, StartGranted(k, "boundary") \/ StartGranted(k, "unwinding")
      PROVE  DriversInv' /\ Contract!Next
  BY <1>2, StartIsGranted DEF Contract!Next
<1>3. ASSUME NEW g \in Generations,
             StartUnwinds(g) \/ AutoLoopFinishes(g) \/ TradeChainReleases(g) \/ ReleasesAfterPublishing(g)
      PROVE  DriversInv' /\ Contract!Next
  <2>1. Releases(g)
    BY <1>3 DEF Releases, StartUnwinds, AutoLoopFinishes, TradeChainReleases, ReleasesAfterPublishing, runnerVars
  <2> QED BY <2>1, RunReleases DEF Contract!Next, Generations
<1>4. ASSUME NEW g \in Generations, Publishes(g) PROVE DriversInv' /\ UNCHANGED Contract!contractVars
  BY <1>4, RunPublishes
<1>5. ASSUME NEW d \in Dispatchers, DispatchAcquires(d) \/ DispatchReleases(d) PROVE DriversInv' /\ Contract!Next
  BY <1>5, SlotChangesHands DEF Contract!Next
<1>6. ASSUME NEW a \in Attachers, Attaches(a) \/ Detaches(a) PROVE DriversInv' /\ Contract!Next
  BY <1>6, SeatChangesHands DEF Contract!Next
<1>7. CASE UNCHANGED vars
  <2>1. UNCHANGED Contract!contractVars
    BY <1>7 DEF vars, Contract!contractVars, LiveRuns
  <2>2. DriversInv'
    BY <1>7 DEF vars, DriversInv, TypeOK, LockTypeOK, Books, LiveRuns, HoldingGeneration, OneDispatch, OneHuman, Minted,
       Registration, FenceDown, IsDriverFenced
  <2> QED BY <2>1, <2>2
<1>8. Next => \/ QuietStep
              \/ \E k \in Runners : StartGranted(k, "boundary") \/ StartGranted(k, "unwinding")
              \/ \E g \in Generations :
                   StartUnwinds(g) \/ AutoLoopFinishes(g) \/ TradeChainReleases(g) \/ ReleasesAfterPublishing(g)
              \/ \E g \in Generations : Publishes(g)
              \/ \E d \in Dispatchers : DispatchAcquires(d) \/ DispatchReleases(d)
              \/ \E a \in Attachers : Attaches(a) \/ Detaches(a)
  BY DEF Next, ThreadStep, QuietStep, RunStep, RunnerStep, DispatchStep, HumanStep, Publishes
<1> QED BY <1>1, <1>2, <1>3, <1>4, <1>5, <1>6, <1>7, <1>8

\* The daemon's threads keep the books of the lock, the registrations of the
\* runners and the fence the human waits for.
THEOREM DriversInvariance == Spec => []DriversInv
<1>1. DriversInv /\ [Next]_vars => DriversInv'
  BY NextDrivers
<1> QED BY InitDrivers, <1>1, PTL DEF Spec

\* Every variable of every thread keeps its type.
THEOREM DriversTyped == Spec => []TypeOK
<1>1. DriversInv => TypeOK
  BY DEF DriversInv
<1> QED BY <1>1, DriversInvariance, PTL

\* With any number of runs of any of the four runners, of dispatches and of
\* humans: a keystroke and an App step are on the wire together only when the
\* wait for the fence ran out.
THEOREM WireIsQuiet == Spec => []QuietWire
<1>1. DriversInv => QuietWire
  <2> SUFFICES ASSUME DriversInv, NEW a \in Attachers, human[a] \in {"typing", "sending"}, a \notin gaveUp
               PROVE  /\ \A g \in Generations : run[g].phase \notin OnTheWire
                      /\ \A d \in Dispatchers : dispatch[d] = "idle"
    BY DEF QuietWire
  <2>1. ~IsDriverFenced /\ mode = "human"
    BY DEF DriversInv, FenceDown, OneHuman
  <2>2. LiveRuns = {}
    BY <2>1 DEF DriversInv, Books, HoldingGeneration, IsDriverFenced
  <2>3. ~driving
    BY <2>1 DEF DriversInv, OneDispatch, IsDriverFenced
  <2> QED BY <2>2, <2>3 DEF DriversInv, OneDispatch, LiveRuns, OnTheWire
<1> QED BY <1>1, DriversInvariance, PTL

\* stop() finds every run that may still send, however starts, late
\* publications and preemptions interleave.
THEOREM RunsStoppable == Spec => []EveryRunStoppable
<1>1. DriversInv => EveryRunStoppable
  BY DEF DriversInv, Registration, Registered, EveryRunStoppable, OnTheWire
<1> QED BY <1>1, DriversInvariance, PTL

\* The daemon's threads implement the contract the lock is proved under: each
\* of their steps is a legal call or none, so what holds of the lock under
\* every legal caller holds in the daemon.
THEOREM ThreadsKeepContract == Spec => CallersKeepContract
<1>1. Init => Contract!Init
  BY DEF Init, LockInit, Contract!Init, Contract!LockInit, LiveRuns, NoRun
<1>2. DriversInv /\ [Next]_vars => [Contract!Next]_Contract!contractVars
  BY NextDrivers
<1> QED BY <1>1, <1>2, DriversInvariance, PTL DEF Spec, CallersKeepContract, Contract!Spec

-----------------------------------------------------------------------------
(* A preempted macro                                                       *)

\* A macro run that began a send after it lost its hold is past its last
\* boundary and clears no other step, as long as no run of another runner was
\* granted after it.
LateIsLast ==
  \A g \in Generations :
    /\ run[g].phase = "none" => run[g].late = 0
    /\ run[g].phase = "published" => run[g].kind # "autoloop"
    /\ run[g].kind # "none" <=> run[g].phase # "none"
    /\ run[g].kind = "autoloop" /\ ~Overtaken(g) =>
         /\ run[g].late <= 1
         /\ run[g].late = 1 => Preempted(g) /\ run[g].phase # "cleared"

\* A hold that stands is the macro's own, or a later run's of another runner.
LEMMA HoldIsMine ==
  ASSUME DriversInv, LateIsLast,
         NEW g \in Generations, run[g].kind = "autoloop", run[g].phase \in Registered, autoLoopHeld
  PROVE  \/ autoLoopGeneration = g
         \/ run[autoLoopGeneration].kind # "autoloop" /\ Overtaken(g)
<1>1. autoLoopGeneration \in LiveRuns
  BY DEF DriversInv, Books, HoldingGeneration
<1> DEFINE h == autoLoopGeneration
<1>2. h \in Generations /\ run[h].phase # "none" /\ run[h].phase # "done"
  BY <1>1 DEF LiveRuns
<1>3. CASE run[h].kind = "autoloop"
  <2>1. run[h].phase \in Registered
    BY <1>2, <1>3 DEF LateIsLast, DriversInv, TypeOK, RunPhases, Registered, LiveRuns, Generations
  <2> QED BY <1>2, <1>3, <2>1 DEF DriversInv, Registration
<1>4. CASE run[h].kind # "autoloop"
  <2>1. run[h].kind # "none"
    BY <1>2 DEF LateIsLast
  <2>2. g <= h /\ g # h
    BY <1>4 DEF DriversInv, Minted, Registered
  <2>3. g \in Nat /\ h \in Nat
    BY <1>2, MaxGenerationAssumption DEF Generations
  <2>4. h > g
    BY <2>2, <2>3
  <2> QED BY <1>2, <1>4, <2>1, <2>4 DEF Overtaken
<1> QED BY <1>3, <1>4

\* What a step may do to one run: move it on, let it clear a step under a
\* standing hold, begin the send it had cleared, or bring it up.
MovesOn(g) ==
  /\ run'[g].late = run[g].late
  /\ run'[g].kind = run[g].kind
  /\ run'[g].phase = "cleared" => run[g].phase = "cleared"
  /\ run'[g].phase = "none" <=> run[g].phase = "none"
  /\ run'[g].phase = "published" /\ run[g].phase # "published" =>
       run[g].phase # "none" /\ run[g].kind # "autoloop"
Clears(g) ==
  /\ run'[g].late = run[g].late
  /\ run'[g].kind = run[g].kind
  /\ run[g].phase = "boundary" /\ run'[g].phase = "cleared"
  /\ run[g].kind \in WatchesHold => autoLoopHeld
BeginsSend(g) ==
  /\ run[g].phase = "cleared" /\ run'[g].phase \in {"sending", "broken"}
  /\ run'[g].kind = run[g].kind
  /\ run'[g].late = run[g].late \/ (Preempted(g) /\ run'[g].late = run[g].late + 1)
ComesUp(g) ==
  /\ g = autoLoopGeneration + 1
  /\ run'[g].late = 0 /\ run'[g].kind \in Runners /\ run'[g].phase \in {"boundary", "unwinding"}

\* A step does nothing else to a run.
LEMMA RunMoves ==
  ASSUME TypeOK, Next, NEW g \in Generations
  PROVE  MovesOn(g) \/ Clears(g) \/ BeginsSend(g) \/ ComesUp(g)
<1> USE DEF TypeOK, MovesOn
<1>1. CASE UNCHANGED run
  BY <1>1
<1>2. ASSUME NEW h \in Generations, RunStep(h) PROVE MovesOn(g) \/ Clears(g) \/ BeginsSend(g)
  <2>1. CASE RunClears(h)
    BY <2>1 DEF RunClears, Phase, Clears
  <2>2. CASE RunBeginsSend(h)
    <3>1. CASE g = h
      <4>1. run'[g].phase \in {"sending", "broken"} /\ run[g].phase = "cleared"
        BY <2>2, <3>1 DEF RunBeginsSend
      <4>2. run'[g].late = IF Preempted(g) /\ run[g].late < LateSendBound THEN run[g].late + 1 ELSE run[g].late
        BY <2>2, <3>1 DEF RunBeginsSend
      <4>3. run'[g].kind = run[g].kind
        BY <2>2, <3>1 DEF RunBeginsSend
      <4> QED BY <4>1, <4>2, <4>3 DEF BeginsSend
    <3>2. CASE g # h
      BY <2>2, <3>2 DEF RunBeginsSend
    <3> QED BY <3>1, <3>2
  <2>3. CASE ~RunClears(h) /\ ~RunBeginsSend(h)
    BY <1>2, <2>3 DEF RunStep, Phase, RunEndsAtBoundary, RunSendReturns, RunSendRaises, RunSettles, StartUnwinds,
       AutoLoopFinishes, TradeChainReleases, TradeChainPublishes, ExplorePublishes, StardockHoldPublishes,
       ReleasesAfterPublishing
  <2> QED BY <2>1, <2>2, <2>3
<1>3. ASSUME NEW k \in Runners, StartGranted(k, "boundary") \/ StartGranted(k, "unwinding")
      PROVE  MovesOn(g) \/ ComesUp(g)
  <2> PICK phase \in {"boundary", "unwinding"} : StartGranted(k, phase)
    BY <1>3
  <2>1. run' = [run EXCEPT ![autoLoopGeneration + 1] = [kind |-> k, phase |-> phase, stop |-> FALSE, late |-> 0]]
    BY DEF StartGranted
  <2>2. CASE g = autoLoopGeneration + 1
    BY <2>1, <2>2 DEF ComesUp
  <2>3. CASE g # autoLoopGeneration + 1
    BY <2>1, <2>3
  <2> QED BY <2>2, <2>3
<1>4. ASSUME NEW k \in Runners, StopRequested(k) PROVE MovesOn(g)
  BY <1>4 DEF StopRequested
<1>5. CASE ForceUnblockApp
  BY <1>5 DEF ForceUnblockApp, Broken
<1>6. Next => \/ UNCHANGED run
              \/ ForceUnblockApp
              \/ \E h \in Generations : RunStep(h)
              \/ \E k \in Runners : StartGranted(k, "boundary") \/ StartGranted(k, "unwinding") \/ StopRequested(k)
  BY DEF Next, ThreadStep, PeerDrops, Reconnect, RunnerStep, DispatchStep, HumanStep, clientVars, StartChecks, StartRefused,
     JoinReturns, JoinExpires, RejoinExpires, DispatchAcquires, DispatchBeginsSend, DispatchSendReturns, DispatchSettles,
     DispatchUnwinds, DispatchReleases, Attaches, PressesKey, FenceSeenDown, FenceWaitExpires, UnblockWaitExpires,
     KeyBeginsSend, KeySent, KeyRaises, Detaches
<1> QED BY <1>1, <1>2, <1>3, <1>4, <1>5, <1>6

\* A hold that is gone does not come back under the same generation.
LEMMA HoldPassesOn ==
  ASSUME DriversInv, Next
  PROVE  \/ (autoLoopHeld' => autoLoopHeld) /\ autoLoopGeneration' = autoLoopGeneration
         \/ autoLoopGeneration' = autoLoopGeneration + 1
<1> USE DEF lockVars
<1>1. ASSUME NEW g \in Generations, RunStep(g) PROVE (autoLoopHeld' => autoLoopHeld) /\ autoLoopGeneration' = autoLoopGeneration
  <2>1. CASE LeaveAutoLoop(g)
    BY <2>1 DEF LeaveAutoLoop
  <2> QED BY <1>1, <2>1 DEF RunStep, RunClears, RunEndsAtBoundary, RunBeginsSend, RunSendReturns, RunSendRaises, RunSettles, StartUnwinds,
     AutoLoopFinishes, TradeChainReleases, TradeChainPublishes, ExplorePublishes, StardockHoldPublishes,
     ReleasesAfterPublishing
<1>2. ASSUME NEW k \in Runners, RunnerStep(k)
      PROVE  UNCHANGED lockVars \/ autoLoopGeneration' = autoLoopGeneration + 1
  BY <1>2 DEF RunnerStep, StartChecks, StartRefused, StartGranted, EnterAutoLoop, StopRequested, JoinReturns, JoinExpires, RejoinExpires
<1>3. ASSUME NEW d \in Dispatchers, DispatchStep(d) PROVE UNCHANGED <<autoLoopHeld, autoLoopGeneration>>
  BY <1>3 DEF DispatchStep, DispatchAcquires, DispatchBeginsSend, DispatchSendReturns, DispatchSettles,
     DispatchUnwinds, DispatchReleases, AcquireDriver, ReleaseDriver
<1>4. ASSUME NEW a \in Attachers, HumanStep(a) PROVE (autoLoopHeld' => autoLoopHeld) /\ autoLoopGeneration' = autoLoopGeneration
  BY <1>4 DEF HumanStep, Attaches, PressesKey, FenceSeenDown, FenceWaitExpires, UnblockWaitExpires, KeyBeginsSend, KeySent,
     KeyRaises, Detaches, TakeHuman, ReleaseHuman
<1> QED BY <1>1, <1>2, <1>3, <1>4 DEF Next, ThreadStep, PeerDrops, Reconnect

\* Who was overtaken stays so: a run keeps its kind.
LEMMA StaysOvertaken ==
  ASSUME DriversInv, LateIsLast, Next, NEW g \in Generations, Overtaken(g)
  PROVE  Overtaken(g)'
<1>1. PICK h \in Generations : h > g /\ run[h].kind \notin {"none", "autoloop"}
  BY DEF Overtaken
<1>2. run[h].phase # "none" /\ h <= autoLoopGeneration
  BY <1>1 DEF LateIsLast, DriversInv, Minted
<1>3. autoLoopGeneration \in Nat /\ h \in Nat
  BY MaxGenerationAssumption DEF DriversInv, TypeOK, LockTypeOK, Generations
<1>4. ~ComesUp(h)
  BY <1>2, <1>3 DEF ComesUp
<1>5. run'[h].kind = run[h].kind
  BY <1>4, RunMoves DEF DriversInv, MovesOn, Clears, BeginsSend
<1> QED BY <1>1, <1>5 DEF Overtaken

\* Every step keeps a run that sent late from clearing another step.
LEMMA NextLate ==
  ASSUME DriversInv, LateIsLast, [Next]_vars
  PROVE  LateIsLast'
<1>1. CASE UNCHANGED vars
  BY <1>1 DEF vars, LateIsLast, Preempted, Overtaken
<1>2. CASE Next
  <2> SUFFICES ASSUME NEW g \in Generations
               PROVE  /\ run'[g].phase = "none" => run'[g].late = 0
                      /\ run'[g].phase = "published" => run'[g].kind # "autoloop"
                      /\ run'[g].kind # "none" <=> run'[g].phase # "none"
                      /\ run'[g].kind = "autoloop" /\ ~Overtaken(g)' =>
                           /\ run'[g].late <= 1
                           /\ run'[g].late = 1 => Preempted(g)' /\ run'[g].phase # "cleared"
    BY DEF LateIsLast
  <2>1. run[g].late \in Nat /\ run'[g].late \in Nat
    <3>1. DriversInv'
      BY NextDrivers
    <3> QED BY <3>1, DriversAssumption DEF DriversInv, TypeOK
  <2>2. run[g].phase # "none" => g <= autoLoopGeneration
    BY DEF DriversInv, Minted
  <2>3. run[g].phase # "none" /\ Preempted(g) => Preempted(g)'
    <3>1. autoLoopGeneration \in Nat /\ g \in Nat
      BY MaxGenerationAssumption DEF DriversInv, TypeOK, LockTypeOK, Generations
    <3> QED BY <1>2, <2>2, <3>1, HoldPassesOn DEF Preempted
  <2>4. Overtaken(g) => Overtaken(g)'
    BY <1>2, StaysOvertaken
  <2> HIDE DEF Overtaken, Preempted
  <2>5. CASE MovesOn(g)
    BY <2>1, <2>3, <2>4, <2>5 DEF MovesOn, LateIsLast
  <2>6. CASE Clears(g)
    <3>1. run[g].kind = "autoloop" => ~Preempted(g) \/ Overtaken(g)
      <4>1. CASE run[g].kind = "autoloop"
        <5>1. autoLoopHeld /\ run[g].phase \in Registered
          BY <2>6, <4>1 DEF Clears, WatchesHold, Registered
        <5> QED BY <4>1, <5>1, HoldIsMine DEF Preempted
      <4> QED BY <4>1
    <3> QED BY <2>1, <2>4, <2>6, <3>1 DEF Clears, LateIsLast
  <2>7. CASE BeginsSend(g)
    BY <2>1, <2>3, <2>4, <2>7 DEF BeginsSend, LateIsLast
  <2>8. CASE ComesUp(g)
    BY <2>8, DriversAssumption DEF ComesUp, RunnerKinds
  <2> QED BY <1>2, <2>5, <2>6, <2>7, <2>8, RunMoves DEF DriversInv
<1> QED BY <1>1, <1>2

\* A macro run that lost its hold takes no later macro's hold for its own, and
\* begins at most the one send it had cleared, however often humans and runs
\* come and go meanwhile, unless another runner's run was granted after it.
THEOREM PreemptedMacroYields == Spec => []MacroYields
<1>1. Init => LateIsLast
  BY DEF Init, LateIsLast, NoRun
<1>2. DriversInv /\ LateIsLast /\ [Next]_vars => LateIsLast'
  BY NextLate
<1>3. DriversInv /\ LateIsLast => MacroYields
  BY HoldIsMine DEF MacroYields, StandingHoldIsMine, PreemptedMacroSendsAtMostOnce, LateIsLast, Registered
<1> QED BY <1>1, <1>2, <1>3, DriversInvariance, PTL DEF Spec

\* The fair behaviours are behaviours: what is proved of Spec holds of them.
LEMMA FairIsSpec == FairSpec => Spec
<1>1. TimelyNext => Next
  BY DEF TimelyNext, Next
<1> QED BY <1>1, PTL DEF FairSpec, Spec
===============================================================================

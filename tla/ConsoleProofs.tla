------------------------------- MODULE ConsoleProofs -------------------------------
(***************************************************************************)
(* Proofs about what stands between an operator and the game: the control  *)
(* lock, the attachments whose keys pass under it, the hub that shows every*)
(* watcher the screen, the cockpit drawn on the operator's terminal, what  *)
(* the session reads off the screen, and what is computed from what is on  *)
(* record - the trade chains, and the prices of the yard with the advice   *)
(* given on them.                                                          *)
(***************************************************************************)
EXTENDS LockContract, AttachKeys, WatchHub, CockpitFrame, ScreenReading, ChainSearch, Outfitting,
        FiniteSetTheorems, SequenceTheorems, WellFoundedInduction, TLAPS

\* The dispatch fence stands only on an in-flight dispatch, and every
\* dispatch a human finds in flight is fenced.
DispatchFence ==
  /\ driverFenced => driving
  /\ mode = "human" /\ driving => driverFenced

\* Tokens are minted in order: no outstanding generation is newer than the
\* counter.
TokensMinted == runs \subseteq 1..autoLoopGeneration

IInv == TypeOK /\ EveryRunAccounted /\ SeatExclusive /\ DispatchFence /\ TokensMinted

-----------------------------------------------------------------------------

\* The lock starts free, with nothing owed.
LEMMA InitIInv == Init => IInv
<1> SUFFICES ASSUME Init PROVE IInv
  OBVIOUS
<1> USE DEF Init, LockInit
<1>1. TypeOK
  <2>1. autoLoopGeneration \in 0..MaxGeneration
    BY MaxGenerationAssumption
  <2>2. mode \in Modes
    BY DEF Modes
  <2>3. autoLoopHeld \in BOOLEAN /\ driving \in BOOLEAN /\ driverFenced \in BOOLEAN
    OBVIOUS
  <2>4. autoLoopFencedGenerations \in SUBSET (1..MaxGeneration) /\ runs \in SUBSET (1..MaxGeneration)
    OBVIOUS
  <2> QED BY <2>1, <2>2, <2>3, <2>4 DEF TypeOK, LockTypeOK
<1>2. HoldingGeneration = {}
  BY DEF HoldingGeneration
<1>3. EveryRunAccounted
  BY <1>2 DEF EveryRunAccounted
<1>4. SeatExclusive /\ DispatchFence
  BY <1>2 DEF SeatExclusive, DispatchFence
<1>5. TokensMinted
  BY DEF TokensMinted
<1> QED BY <1>1, <1>3, <1>4, <1>5 DEF IInv

\* Every method call by a legal caller preserves the inductive invariant.
LEMMA NextIInv == IInv /\ [Next]_contractVars => IInv'
<1> SUFFICES ASSUME IInv, [Next]_contractVars PROVE IInv'
  OBVIOUS
<1> USE MaxGenerationAssumption
    DEF IInv, TypeOK, LockTypeOK, Modes, EveryRunAccounted, HoldingGeneration,
        SeatExclusive, DispatchFence, TokensMinted
<1>1. CASE HumanAttaches
  BY <1>1 DEF HumanAttaches, TakeHuman
<1>2. CASE HumanDetaches
  BY <1>2 DEF HumanDetaches, ReleaseHuman
<1>3. CASE DispatchStarts
  BY <1>3 DEF DispatchStarts, AcquireDriver, AcquireRefusal
<1>4. CASE DispatchEnds
  BY <1>4 DEF DispatchEnds, ReleaseDriver
<1>5. CASE RunStarts
  BY <1>5 DEF RunStarts, EnterAutoLoop, EnterRefusal
<1>6. ASSUME NEW g \in 1..MaxGeneration, RunEnds(g) PROVE IInv'
  BY <1>6 DEF RunEnds, LeaveAutoLoop
<1>7. ASSUME NEW newMode \in {"app", "spectate"}, PanelToggles(newMode) PROVE IInv'
  BY <1>7 DEF PanelToggles, SetMode
<1>8. CASE UNCHANGED contractVars
  BY <1>8 DEF contractVars
<1>9. QED
  BY <1>1, <1>2, <1>3, <1>4, <1>5, <1>6, <1>7, <1>8 DEF Next

\* The contract's inductive invariant.
THEOREM Invariance == Spec => []IInv
  BY InitIInv, NextIInv, PTL DEF Spec

\* Every variable keeps its type.
THEOREM TypeCorrect == Spec => []TypeOK
<1>1. IInv => TypeOK
  BY DEF IInv
<1> QED BY <1>1, Invariance, PTL

\* The hold and the fence set together are exactly the runs that still owe a
\* release: the set representation forgets nobody and invents nobody.
THEOREM RunsAccounted == Spec => []EveryRunAccounted
<1>1. IInv => EveryRunAccounted
  BY DEF IInv
<1> QED BY <1>1, Invariance, PTL

\* At most one of a dispatch and an unpreempted run drives, and never under
\* a human.
THEOREM Exclusive == Spec => []SeatExclusive
<1>1. IInv => SeatExclusive
  BY DEF IInv
<1> QED BY <1>1, Invariance, PTL

\* The fence a human's keystrokes wait on is up exactly while an App
\* activity is still on the wire.
THEOREM HumanSees == Spec => []HumanSeesEveryDriver
<1>1. IInv => HumanSeesEveryDriver
  BY DEF IInv, HumanSeesEveryDriver, IsDriverFenced, EveryRunAccounted,
         HoldingGeneration, SeatExclusive, DispatchFence
<1> QED BY <1>1, Invariance, PTL

-----------------------------------------------------------------------------
(* Action properties *)

\* A live run loses the hold to a human attach only, and never regains it.
THEOREM RevokedByAttachOnly == Spec => OnlyAttachRevokesHold
<1>1. IInv /\ [Next]_contractVars => [HoldLostToAttachOnly]_contractVars
  <2> SUFFICES ASSUME IInv, Next, NEW g \in runs \cap runs', OwnsHold(g) # OwnsHold(g)'
               PROVE  OwnsHold(g) /\ mode' = "human"
    BY DEF HoldLostToAttachOnly
  <2> USE DEF IInv, TypeOK, LockTypeOK, EveryRunAccounted, HoldingGeneration,
              SeatExclusive, TokensMinted, OwnsHold
  <2>1. CASE HumanAttaches
    BY <2>1 DEF HumanAttaches, TakeHuman
  <2>2. CASE HumanDetaches
    BY <2>2 DEF HumanDetaches, ReleaseHuman
  <2>3. CASE DispatchStarts
    BY <2>3 DEF DispatchStarts, AcquireDriver
  <2>4. CASE DispatchEnds
    BY <2>4 DEF DispatchEnds, ReleaseDriver
  <2>5. CASE RunStarts
    BY <2>5 DEF RunStarts, EnterAutoLoop, EnterRefusal
  <2>6. ASSUME NEW h \in 1..MaxGeneration, RunEnds(h)
        PROVE  OwnsHold(g) /\ mode' = "human"
    BY <2>6 DEF RunEnds, LeaveAutoLoop
  <2>7. ASSUME NEW newMode \in {"app", "spectate"}, PanelToggles(newMode)
        PROVE  OwnsHold(g) /\ mode' = "human"
    BY <2>7 DEF PanelToggles, SetMode
  <2> QED BY <2>1, <2>2, <2>3, <2>4, <2>5, <2>6, <2>7 DEF Next
<1> QED BY <1>1, Invariance, PTL DEF Spec, OnlyAttachRevokesHold

\* Nobody but the run that owes it takes a fence claim down.
THEOREM FenceOwned == Spec => FenceFallsWithItsOwner
<1>1. IInv /\ [Next]_contractVars => [FenceReleasedByOwner]_contractVars
  <2> SUFFICES ASSUME IInv, Next PROVE FenceReleasedByOwner
    OBVIOUS
  <2> USE DEF IInv, TypeOK, LockTypeOK, Modes, DispatchFence, FenceReleasedByOwner
  <2>1. CASE HumanAttaches
    BY <2>1 DEF HumanAttaches, TakeHuman
  <2>2. CASE HumanDetaches
    BY <2>2 DEF HumanDetaches, ReleaseHuman
  <2>3. CASE DispatchStarts
    BY <2>3 DEF DispatchStarts, AcquireDriver, AcquireRefusal
  <2>4. CASE DispatchEnds
    BY <2>4 DEF DispatchEnds, ReleaseDriver
  <2>5. CASE RunStarts
    BY <2>5 DEF RunStarts, EnterAutoLoop
  <2>6. ASSUME NEW h \in 1..MaxGeneration, RunEnds(h) PROVE FenceReleasedByOwner
    BY <2>6 DEF RunEnds, LeaveAutoLoop
  <2>7. ASSUME NEW newMode \in {"app", "spectate"}, PanelToggles(newMode)
        PROVE  FenceReleasedByOwner
    BY <2>7 DEF PanelToggles, SetMode
  <2> QED BY <2>1, <2>2, <2>3, <2>4, <2>5, <2>6, <2>7 DEF Next
<1> QED BY <1>1, Invariance, PTL DEF Spec, FenceFallsWithItsOwner

-----------------------------------------------------------------------------
(* Refinement *)

\* The lock implements the one-seat specification.
THEOREM Refinement == Spec => ImplementsSeat
<1>1. Init => Seat!Init
  BY DEF Init, LockInit, Seat!Init, seatHolder, seatWinding, Seat!Free
<1>2. IInv /\ [Next]_contractVars => [Seat!Next]_Seat!seatVars
  <2> SUFFICES ASSUME IInv, [Next]_contractVars PROVE [Seat!Next]_Seat!seatVars
    OBVIOUS
  <2> USE DEF IInv, TypeOK, LockTypeOK, Modes, EveryRunAccounted, HoldingGeneration,
              SeatExclusive, DispatchFence, TokensMinted, seatHolder, seatWinding,
              Seat!Free, Seat!Human, Seat!Dispatch, Seat!Run
  <2>1. ASSUME HumanAttaches PROVE Seat!HumanTakes
    BY <2>1 DEF HumanAttaches, TakeHuman, Seat!HumanTakes
  <2>2. ASSUME HumanDetaches PROVE Seat!HumanLeaves
    BY <2>2 DEF HumanDetaches, ReleaseHuman, Seat!HumanLeaves
  <2>3. ASSUME DispatchStarts PROVE Seat!DispatchStarts
    BY <2>3 DEF DispatchStarts, AcquireDriver, AcquireRefusal, Seat!DispatchStarts
  <2>4. ASSUME DispatchEnds PROVE Seat!Ends(Seat!Dispatch)
    BY <2>4 DEF DispatchEnds, ReleaseDriver, Seat!Ends
  <2>5. ASSUME RunStarts PROVE Seat!RunStarts
    BY <2>5 DEF RunStarts, EnterAutoLoop, EnterRefusal, Seat!RunStarts
  <2>6. ASSUME NEW g \in 1..MaxGeneration, RunEnds(g) PROVE Seat!Ends(Seat!Run(g))
    BY <2>6 DEF RunEnds, LeaveAutoLoop, Seat!Ends
  <2>7. ASSUME NEW newMode \in {"app", "spectate"}, PanelToggles(newMode)
        PROVE  UNCHANGED Seat!seatVars
    BY <2>7 DEF PanelToggles, SetMode, Seat!seatVars
  <2>8. CASE UNCHANGED contractVars
    BY <2>8 DEF contractVars, Seat!seatVars
  <2> QED
    BY <2>1, <2>2, <2>3, <2>4, <2>5, <2>6, <2>7, <2>8
       DEF Next, Seat!Next, Seat!Activities
<1> QED BY <1>1, <1>2, Invariance, PTL DEF Spec, Seat!Spec, ImplementsSeat

\* The books of the lock are complete, nobody shares the seat, and a human is
\* told of everybody who still drives, for any number of runs.
THEOREM SeatSafety == Spec => []SeatSafe
<1>1. EveryRunAccounted /\ SeatExclusive /\ HumanSeesEveryDriver => SeatSafe
  BY DEF SeatSafe
<1> QED BY <1>1, RunsAccounted, Exclusive, HumanSees, PTL

\* No step takes a hold or a fence from its owner but a human's attach.
THEOREM OwnersOnly == Spec => HoldsAndFencesKept
<1>1. [HoldLostToAttachOnly]_contractVars /\ [FenceReleasedByOwner]_contractVars
        => [HoldLostToAttachOnly /\ FenceReleasedByOwner]_contractVars
  OBVIOUS
<1> QED BY <1>1, RevokedByAttachOnly, FenceOwned, PTL
        DEF HoldsAndFencesKept, OnlyAttachRevokesHold, FenceFallsWithItsOwner

-----------------------------------------------------------------------------
(* The keys of an operator *)

\* What a request may hold: a key that has a form of 8 bits, or the whole script.
WholeScript == [i \in DOMAIN keyed.keys |-> i]
Sendable ==
  IF keyed.how = "script"
  THEN {r \in {WholeScript} : keyed.keys # <<>> /\ \A i \in DOMAIN keyed.keys : Encoded(keyed.keys[i])}
  ELSE {<<i>> : i \in {k \in DOMAIN keyed.keys : Encoded(keyed.keys[k])}}

ClientPlaces == {"off", "asking", "reading", "waiting", "closed"}
\* Where a thread is that has the seat; where it has read a request; where it
\* has yet to send it; where it has sent it.
Unsent == {"fence", "unblock", "sending"}
Sent == {"sent", "answering"}
SeatPlaces == {"reading", "leaving"} \cup Unsent \cup Sent
Lines == [is : {"row", "torn", "garbled"}, text : Seq(Nat)]

AttachTypes ==
  /\ keyed \in [keys : Pressings, next : Nat, how : {"tty", "strict tty", "script"}] /\ keyed.next \in 1..(Len(keyed.keys) + 1)
  /\ client \in [Attempts -> ClientPlaces] /\ handler \in [Attempts -> {"none", "asked", "gone"} \cup SeatPlaces]
  /\ ack \in [Attempts -> {"none", "ok", "refused"}] /\ frame \in [Attempts -> Sendable \cup {Nothing}]
  /\ hosted \in [up : BOOLEAN, seat : Attempts \cup {0}, run : {"none", "running", "fenced"}, online : BOOLEAN,
                 last : Seq(Nat), kills : Nat, replays : Nat]
  /\ wire \in Seq(Sendable)
  /\ ledger \in [lines : Seq(Lines), unwritten : Nat]
  /\ said \in [unsent : SUBSET Nat, timedOut : SUBSET Attempts, failed : SUBSET Attempts]

\* The seat is the one whose thread is between the request and the release, and
\* a daemon that is down has no thread.
SeatInv ==
  /\ \A a \in Attempts : handler[a] \in SeatPlaces <=> hosted.seat = a
  /\ ~hosted.up => \A a \in Attempts : handler[a] \in {"none", "gone"}

\* Where a client is, where its thread, what is between them.
Together(c, h, k, f) ==
  \/ c = "off" /\ h = "none" /\ k = "none" /\ f = Nothing
  \/ c = "asking" /\ f = Nothing /\ (h = "asked" => k = "none") /\ (h = "reading" => k = "ok") /\ h \in {"asked", "reading", "gone"}
  \/ c = "reading" /\ h \in {"reading", "gone"} /\ k = "none" /\ f = Nothing
  \/ c = "waiting" /\ k = "none" /\ f # Nothing /\ h \in SeatPlaces \cup {"gone"}
  \/ c = "waiting" /\ k = "ok" /\ f = Nothing /\ h \in {"reading", "gone"}
  \/ c = "closed" /\ k = "none" /\ h \in SeatPlaces \cup {"gone"} /\ (h = "reading" => f = Nothing) /\ (h \in Unsent \cup Sent => f # Nothing)
PairsInv == \A a \in Attempts : Together(client[a], handler[a], ack[a], frame[a])

\* One client after the other; a script has one.
ClientsInv ==
  \A a \in Attempts : client[a] # "off" => GoneEarlier(a) /\ (keyed.how = "script" => a = 1)

\* What a waiting client waits for is the next key, and a script is read as a
\* whole.
WaitingInv ==
  /\ keyed.how = "script" => keyed.next \in {1, Len(keyed.keys) + 1}
  /\ \A a \in Attempts : client[a] = "waiting" =>
       /\ ~AllPressed /\ (keyed.how # "script" => Key # "detach")
       /\ frame[a] # Nothing => Head(frame[a]) = keyed.next

\* What is still to be sent comes after what was sent; a script is sent once.
PendingInv ==
  /\ KeysInOrder
  /\ keyed.how # "script" => /\ \A i \in DOMAIN wire : Last(wire[i]) <= keyed.next
                             /\ \A a \in Attempts : frame[a] # Nothing => Head(frame[a]) <= keyed.next
  /\ \A a \in Attempts : handler[a] \in Unsent \cup {"reading"} /\ frame[a] # Nothing =>
       /\ \A i \in DOMAIN wire : Last(wire[i]) <= Head(frame[a])
       /\ keyed.how = "script" => wire = <<>>
  /\ keyed.how = "script" /\ wire # <<>> => AllPressed \/ \E a \in Attempts : client[a] \in {"waiting", "closed"}

\* A key that was sent and is not answered yet.
StillUnheard(a) == client[a] = "waiting" /\ (handler[a] \in Sent \/ ack[a] = "ok")
Faultless == said.timedOut = {} /\ hosted.kills = 0
HeardInv ==
  /\ \A i \in said.unsent : i \in DOMAIN keyed.keys /\ ~Encoded(keyed.keys[i])
  /\ \A i \in 1..(keyed.next - 1) : i \in OnWire \/ i \in said.unsent
  /\ \A a \in Attempts : ack[a] = "ok" /\ client[a] = "waiting" =>
       \E i \in DOMAIN wire : Head(wire[i]) = keyed.next
  /\ \A a \in Attempts : handler[a] \in Sent => \E i \in DOMAIN wire : wire[i] = frame[a]

\* A client that has gone left a key behind only if it gave up on it, and ended
\* well only at the end of what there was to read.
EndedInv ==
  /\ \A a \in Attempts : handler[a] \in Unsent \cup Sent /\ client[a] = "closed" => a \in said.timedOut
  /\ \A a \in Attempts : client[a] = "closed" /\ a \notin said.failed =>
       Key = "detach" /\ (keyed.how = "script" => AllPressed)

\* While nobody was told wrongly, what was sent lies behind the next key, and no
\* key was sent twice.
FaultlessInv == Faultless =>
  /\ (\A a \in Attempts : ~StillUnheard(a)) => \A i \in OnWire : i < keyed.next
  /\ \A i, j \in DOMAIN wire : i < j => Last(wire[i]) < Head(wire[j])
AccountsInv == HeardInv /\ EndedInv /\ FaultlessInv

\* The books of the ledger: a kill may lose the row of a key that was sent, and
\* spoil the line after the one it tore.
RowNrs == {i \in DOMAIN ledger.lines : ledger.lines[i].is = "row"}
AppRowNrs == {i \in RowNrs : ledger.lines[i].text = AppText}
InSent == {a \in Attempts : handler[a] = "sent"}
Spoiled == IF ledger.lines # <<>> /\ Last(ledger.lines) = TornLine THEN 1 ELSE 0
Mistaken == IF InSent # {} /\ hosted.last = AppText THEN 1 ELSE 0
Due == Len(wire) - ledger.unwritten - Cardinality(InSent)
LedgerInv ==
  /\ Cardinality(RowNrs) <= Due /\ Due + Spoiled <= Cardinality(RowNrs) + 2 * hosted.kills
  /\ \A i \in RowNrs : ledger.lines[i].text \in ToSet(wire) \cup {AppText}
  /\ InSent # {} => hosted.last \in ToSet(wire) \cup {AppText}
  /\ Cardinality(AppRowNrs) + Mistaken <= hosted.replays

AttachInv ==
  AttachTypes /\ SeatInv /\ PairsInv /\ ClientsInv /\ WaitingInv /\ PendingInv /\ AccountsInv /\ LedgerInv

\* The keys of a script and their number.
LEMMA KeysTyped ==
  ASSUME AttachTypes
  PROVE  /\ keyed.keys \in Seq({"plain", "eight", "wide", "detach"}) /\ Len(keyed.keys) \in Nat
         /\ DOMAIN keyed.keys = 1..Len(keyed.keys)
BY AttachAssumption, LenProperties DEF AttachTypes

\* The contents of a request: keys by their places, one unless it is a script.
LEMMA SendableIs ==
  ASSUME AttachTypes, NEW r \in Sendable
  PROVE  /\ r \in Seq(Nat) /\ Len(r) \in Nat /\ Len(r) > 0 /\ DOMAIN r = 1..Len(r)
         /\ Head(r) = r[1] /\ Last(r) = r[Len(r)] /\ Head(r) \in Nat /\ Last(r) \in Nat
         /\ \A i \in DOMAIN r : r[i] \in DOMAIN keyed.keys /\ Encoded(keyed.keys[r[i]]) /\ Head(r) <= r[i] /\ r[i] <= Last(r)
         /\ keyed.how # "script" => Head(r) = Last(r) /\ r = <<Head(r)>>
         /\ keyed.how = "script" => r = WholeScript /\ Head(r) = 1 /\ Last(r) = Len(keyed.keys)
         /\ r # Nothing /\ r # AppText
<1>0. Len(keyed.keys) \in Nat /\ DOMAIN keyed.keys = 1..Len(keyed.keys) /\ (keyed.keys # <<>> => Len(keyed.keys) > 0)
  BY KeysTyped, EmptySeq
<1>1. CASE keyed.how # "script"
  <2>1. PICK i \in DOMAIN keyed.keys : r = <<i>> /\ Encoded(keyed.keys[i])
    BY <1>1 DEF Sendable
  <2>2. Len(r) = 1 /\ r[1] = i /\ DOMAIN r = 1..1 /\ Head(r) = i /\ Last(r) = i /\ i \in Nat /\ i # 0 /\ r \in Seq(Nat)
    BY <1>0, <2>1 DEF Last
  <2> QED BY <1>1, <2>1, <2>2 DEF Nothing, AppText
<1>2. CASE keyed.how = "script"
  <2>1. r = [i \in 1..Len(keyed.keys) |-> i] /\ keyed.keys # <<>> /\ \A i \in DOMAIN keyed.keys : Encoded(keyed.keys[i])
    BY <1>0, <1>2 DEF Sendable, WholeScript
  <2>2. r \in Seq(Nat) /\ Len(r) = Len(keyed.keys)
    BY <1>0, <2>1
  <2>3. Head(r) = 1 /\ r[1] = 1 /\ Last(r) = Len(r) /\ r[Len(r)] = Len(r)
    BY <1>0, <2>1, <2>2 DEF Last
  <2>4. r # Nothing /\ r # AppText
    BY <1>0, <2>1, <2>2, <2>3 DEF Nothing, AppText
  <2> QED BY <1>0, <1>2, <2>1, <2>2, <2>3, <2>4, SMTT(30) DEF WholeScript
<1> QED BY <1>1, <1>2

\* While a key is to come there are keys, and a script of them is a request.
LEMMA KeysLeft ==
  ASSUME AttachTypes, ~AllPressed
  PROVE  keyed.keys # <<>> /\ Len(keyed.keys) > 0 /\ keyed.next \in 1..Len(keyed.keys) /\ WholeScript # Nothing
<1>1. Len(keyed.keys) \in Nat /\ DOMAIN keyed.keys = 1..Len(keyed.keys) /\ keyed.next \in 1..(Len(keyed.keys) + 1)
  BY KeysTyped DEF AttachTypes
<1>2. Len(keyed.keys) > 0 /\ keyed.next \in 1..Len(keyed.keys)
  BY <1>1 DEF AllPressed
<1>3. 1 \in DOMAIN WholeScript /\ 1 \notin DOMAIN Nothing
  BY <1>1, <1>2 DEF WholeScript, Nothing
<1>4. keyed.keys # <<>>
  BY <1>1, <1>2
<1> QED BY <1>2, <1>3, <1>4

\* No step changes what the keys are or how they come in.
LEMMA KeysStay ==
  ASSUME AttachTypes, AttachNext
  PROVE  /\ keyed'.keys = keyed.keys /\ keyed'.how = keyed.how /\ Sendable' = Sendable
         /\ Len(keyed.keys)' = Len(keyed.keys) /\ (DOMAIN keyed.keys)' = DOMAIN keyed.keys
         /\ \A i : Encoded(keyed.keys[i])' <=> Encoded(keyed.keys[i])
<1>1. keyed'.keys = keyed.keys /\ keyed'.how = keyed.how
  <2>1. ASSUME NEW a \in Attempts, HandlerStep(a) PROVE keyed' = keyed
    BY <2>1 DEF HandlerStep, TakesSeat, ReadsRequest, FenceDown, WaitsTooLong, PutsOnWire, KeySendRaises,
                RecordsKey, AnswersKey, HearsEnd, Released
  <2>2. ASSUME NEW a \in Attempts, ClientStep(a)
        PROVE keyed' = keyed \/ \E n : keyed' = [keyed EXCEPT !.next = n]
    BY <2>2 DEF ClientStep, AsksToAttach, HearsIfAttached, SendsKey, RefusesKey, Detached, LosesInput,
                SendsScript, HearsOfKey, GivesUpOnKey
  <2>3. RunBegins \/ RunUnwinds \/ ConnectionLost \/ Replayed \/ DaemonKilled \/ DaemonRestarted => keyed' = keyed
    BY DEF RunBegins, RunUnwinds, ConnectionLost, Replayed, DaemonKilled, DaemonRestarted
  <2> QED BY <2>1, <2>2, <2>3 DEF AttachNext, AttachTypes
<1> QED BY <1>1 DEF Sendable, WholeScript, Encoded

\* Appended to a ledger is one line more, or a line in the place of the torn one.
LEMMA AppendedIs ==
  ASSUME AttachTypes, NEW line \in Lines
  PROVE  LET lines == ledger.lines
         IN /\ lines \in Seq(Lines) /\ Len(lines) \in Nat /\ DOMAIN lines = 1..Len(lines)
            /\ Appended(line) \in Seq(Lines) /\ Appended(line) # <<>> /\ Last(Appended(line)) \in Lines
            /\ Spoiled = 0 => Appended(line) = Append(lines, line) /\ Last(Appended(line)) = line
            /\ Spoiled = 1 => /\ Len(lines) > 0 /\ lines[Len(lines)] = TornLine /\ Len(Appended(line)) = Len(lines)
                              /\ \A i \in 1..(Len(lines) - 1) : Appended(line)[i] = lines[i]
                              /\ Last(Appended(line)) = (IF line = TornLine THEN TornLine ELSE Garbled)
                              /\ Appended(line)[Len(lines)] = Last(Appended(line))
<1> DEFINE lines == ledger.lines
           spoilt == IF line = TornLine THEN TornLine ELSE Garbled
<1>1. lines \in Seq(Lines) /\ Len(lines) \in Nat /\ DOMAIN lines = 1..Len(lines) /\ (lines # <<>> => Len(lines) > 0)
  <2>1. lines \in Seq(Lines)
    BY DEF AttachTypes
  <2> HIDE DEF lines
  <2> QED BY <2>1, LenProperties, EmptySeq
<1>2. spoilt \in Lines
  BY DEF Lines, TornLine, Garbled, Nothing
<1> HIDE DEF lines, spoilt
<1>3. CASE lines # <<>> /\ Last(lines) = TornLine
  <2>1. Len(lines) > 0 /\ lines[Len(lines)] = TornLine
    BY <1>1, <1>3 DEF Last
  <2>2. Front(lines) \in Seq(Lines) /\ Len(Front(lines)) = Len(lines) - 1 /\ \A i \in 1..(Len(lines) - 1) : Front(lines)[i] = lines[i]
    BY <1>1, <2>1 DEF Front
  <2>3. Appended(line) = Append(Front(lines), spoilt)
    BY <1>3 DEF Appended, lines, spoilt
  <2>4. Append(Front(lines), spoilt) \in Seq(Lines) /\ Len(Append(Front(lines), spoilt)) = Len(lines)
        /\ \A i \in 1..(Len(lines) - 1) : Append(Front(lines), spoilt)[i] = lines[i]
        /\ Append(Front(lines), spoilt)[Len(lines)] = spoilt
    <3> HIDE DEF spoilt
    <3>1. Append(Front(lines), spoilt) \in Seq(Lines) /\ Len(Append(Front(lines), spoilt)) = Len(Front(lines)) + 1
      BY <1>2, <2>2, AppendProperties
    <3>2. Len(Front(lines)) + 1 = Len(lines)
      BY <1>1, <2>1, <2>2
    <3>3. Append(Front(lines), spoilt)[Len(Front(lines)) + 1] = spoilt
      BY <1>2, <2>2, AppendProperties
    <3>4. \A i \in 1..Len(Front(lines)) : Append(Front(lines), spoilt)[i] = Front(lines)[i]
      BY <1>2, <2>2, AppendProperties
    <3> QED BY <1>1, <2>1, <2>2, <3>1, <3>2, <3>3, <3>4
  <2>5. Spoiled = 1
    BY <1>3 DEF Spoiled, lines
  <2> QED BY <1>1, <1>2, <2>1, <2>3, <2>4, <2>5 DEF Last, lines, spoilt
<1>4. CASE ~(lines # <<>> /\ Last(lines) = TornLine)
  <2>1. Appended(line) = Append(lines, line) /\ Spoiled = 0
    BY <1>4 DEF Appended, Spoiled, lines
  <2>2. Append(lines, line) \in Seq(Lines) /\ Len(Append(lines, line)) = Len(lines) + 1 /\ Append(lines, line)[Len(lines) + 1] = line
        /\ Append(lines, line) # <<>>
    BY <1>1, AppendProperties
  <2> QED BY <1>1, <2>1, <2>2 DEF Last, lines
<1> QED BY <1>3, <1>4

\* A thread that sends has a request, and a client that waits a key to wait for.
LEMMA SendingFrame ==
  ASSUME AttachTypes, PairsInv, NEW a \in Attempts, handler[a] \in Unsent \cup Sent
  PROVE  frame[a] \in Sendable
<1>1. handler[a] \notin {"none", "asked", "gone", "reading"}
  BY DEF Unsent, Sent
<1> QED BY <1>1 DEF AttachTypes, PairsInv, Together

\* A client that waits has a key left to wait for.
LEMMA WaitingKey ==
  ASSUME AttachTypes, WaitingInv, NEW a \in Attempts, client[a] = "waiting"
  PROVE  keyed.next <= Len(keyed.keys)
<1>1. Len(keyed.keys) \in Nat /\ keyed.next \in Nat
  BY KeysTyped DEF AttachTypes
<1>2. ~AllPressed
  BY DEF WaitingInv
<1> QED BY <1>1, <1>2 DEF AllPressed

\* Every step keeps the types.
LEMMA AttachTypesKept == ASSUME AttachTypes, PairsInv, WaitingInv, AttachNext PROVE AttachTypes'
<1> DEFINE Hosts == [up : BOOLEAN, seat : Attempts \cup {0}, run : {"none", "running", "fenced"}, online : BOOLEAN,
                     last : Seq(Nat), kills : Nat, replays : Nat]
           Books == [lines : Seq(Lines), unwritten : Nat]
           Sayings == [unsent : SUBSET Nat, timedOut : SUBSET Attempts, failed : SUBSET Attempts]
           Keyings == [keys : Pressings, next : Nat, how : {"tty", "strict tty", "script"}]
           Threads == {"none", "asked", "gone"} \cup SeatPlaces
           Acks == {"none", "ok", "refused"}
           Frames == Sendable \cup {Nothing}
<1>1. /\ keyed \in Keyings /\ keyed.next \in 1..(Len(keyed.keys) + 1)
      /\ client \in [Attempts -> ClientPlaces] /\ handler \in [Attempts -> Threads] /\ ack \in [Attempts -> Acks]
      /\ frame \in [Attempts -> Frames] /\ hosted \in Hosts /\ wire \in Seq(Sendable) /\ ledger \in Books /\ said \in Sayings
  BY DEF AttachTypes
<1>2. Sendable' = Sendable /\ Len(keyed.keys)' = Len(keyed.keys)
  BY KeysStay
<1> DEFINE Goal ==
               /\ keyed' \in Keyings /\ keyed'.next \in 1..(Len(keyed.keys) + 1)
               /\ client' \in [Attempts -> ClientPlaces] /\ handler' \in [Attempts -> Threads] /\ ack' \in [Attempts -> Acks]
               /\ frame' \in [Attempts -> Frames] /\ hosted' \in Hosts /\ wire' \in Seq(Sendable)
               /\ ledger' \in Books /\ said' \in Sayings
<1>3. SUFFICES Goal
  BY <1>2 DEF AttachTypes
<1>4. SeatPlaces = {"reading", "leaving", "fence", "unblock", "sending", "sent", "answering"}
  BY DEF SeatPlaces, Unsent, Sent
<1>5. Len(keyed.keys) \in Nat /\ DOMAIN keyed.keys = 1..Len(keyed.keys)
  BY KeysTyped
<1>6. Nothing \in Seq(Nat) /\ AppText \in Seq(Nat) /\ Sendable \subseteq Seq(Nat)
  BY SendableIs DEF Nothing, AppText
<1> HIDE DEF Goal, Hosts, Books, Sayings, Keyings, Threads, Acks, Frames
<1>6a. keyed \in Keyings /\ keyed.next \in Nat /\ hosted \in Hosts /\ keyed.next + 1 \in Nat /\ Len(keyed.keys) + 1 \in Nat
  BY <1>1, <1>5
<1>7. Nothing \in Frames /\ Sendable \subseteq Frames /\ {"none", "ok", "refused"} \subseteq Acks
      /\ {"none", "asked", "gone"} \subseteq Threads /\ SeatPlaces \subseteq Threads
  BY DEF Frames, Acks, Threads
<1>8. ASSUME NEW a \in Attempts, AsksToAttach(a) PROVE Goal
  BY <1>1, <1>4, <1>5, <1>7, <1>8 DEF Goal, AsksToAttach, ClientPlaces
<1>9. ASSUME NEW a \in Attempts, HearsIfAttached(a) PROVE Goal
  BY <1>1, <1>4, <1>5, <1>7, <1>9 DEF Goal, HearsIfAttached, EndsFailed, ClientPlaces, Sayings
<1>10. ASSUME NEW a \in Attempts, SendsKey(a) PROVE Goal
  BY <1>1, <1>4, <1>5, <1>7, <1>10 DEF Goal, SendsKey, ClientPlaces, Key, AllPressed, Sendable, Frames
<1>11. ASSUME NEW a \in Attempts, RefusesKey(a) PROVE Goal
  <2>1. keyed' \in Keyings /\ keyed'.next = keyed.next + 1
    <3>1. keyed' = [keyed EXCEPT !.next = keyed.next + 1]
      BY <1>11 DEF RefusesKey
    <3> QED BY <1>6a, <3>1 DEF Keyings
  <2>2. said' \in Sayings
    BY <1>1, <1>5, <1>11 DEF RefusesKey, Sayings
  <2>3. keyed.next <= Len(keyed.keys)
    BY <1>1, <1>5, <1>11 DEF RefusesKey, Key, AllPressed
  <2> QED BY <1>1, <1>5, <2>1, <2>2, <2>3, <1>11 DEF Goal, RefusesKey
<1>12. ASSUME NEW a \in Attempts, Detached(a) PROVE Goal
  BY <1>1, <1>4, <1>5, <1>7, <1>12 DEF Goal, Detached, ClientPlaces
<1>13. ASSUME NEW a \in Attempts, LosesInput(a) PROVE Goal
  BY <1>1, <1>4, <1>5, <1>7, <1>13 DEF Goal, LosesInput, EndsFailed, ClientPlaces, Sayings
<1>14. ASSUME NEW a \in Attempts, SendsScript(a) PROVE Goal
  <2>1. said' \in Sayings
    BY <1>1, <1>14 DEF SendsScript, EndsFailed, Sayings
  <2>2. client' \in [Attempts -> ClientPlaces]
    BY <1>1, <1>14 DEF SendsScript, EndsFailed, ClientPlaces
  <2>3. frame' \in [Attempts -> Frames]
    <3>1. CASE \A i \in DOMAIN keyed.keys : Encoded(keyed.keys[i])
      <4>1. keyed.keys # <<>>
        BY <1>1, <1>5, <1>14, EmptySeq DEF SendsScript, AllPressed
      <4>2. WholeScript \in Sendable
        BY <3>1, <4>1, <1>14 DEF SendsScript, Sendable
      <4>3. frame' = [frame EXCEPT ![a] = WholeScript]
        BY <3>1, <1>14 DEF SendsScript, WholeScript
      <4> QED BY <1>1, <1>7, <4>2, <4>3
    <3>2. CASE ~\A i \in DOMAIN keyed.keys : Encoded(keyed.keys[i])
      BY <1>1, <3>2, <1>14 DEF SendsScript
    <3> QED BY <3>1, <3>2
  <2> QED BY <1>1, <2>1, <2>2, <2>3, <1>14 DEF Goal, SendsScript
<1>15. ASSUME NEW a \in Attempts, HearsOfKey(a) PROVE Goal
  <2>1. said' \in Sayings
    BY <1>1, <1>15 DEF HearsOfKey, EndsFailed, Sayings
  <2>2. client' \in [Attempts -> ClientPlaces]
    BY <1>1, <1>15 DEF HearsOfKey, EndsFailed, ClientPlaces
  <2>3. ack' \in [Attempts -> Acks]
    BY <1>1, <1>7, <1>15 DEF HearsOfKey
  <2>4. keyed' \in Keyings /\ keyed'.next \in 1..(Len(keyed.keys) + 1)
    <3>1. CASE keyed' = keyed
      BY <1>1, <3>1
    <3>2. CASE keyed' # keyed
      <4>1. keyed.next <= Len(keyed.keys)
        BY <3>2, WaitingKey, <1>15 DEF HearsOfKey
      <4>2. keyed' = [keyed EXCEPT !.next = IF @ = 1 /\ keyed.how = "script" THEN Len(keyed.keys) + 1 ELSE @ + 1]
        BY <3>2, <1>15 DEF HearsOfKey
      <4>3. keyed.next \in 1..Len(keyed.keys)
        BY <1>1, <1>5, <4>1
      <4>4. keyed' \in Keyings /\ keyed'.next = IF keyed.next = 1 /\ keyed.how = "script" THEN Len(keyed.keys) + 1 ELSE keyed.next + 1
        BY <1>6a, <4>2 DEF Keyings
      <4> QED BY <1>5, <4>3, <4>4
    <3> QED BY <3>1, <3>2
  <2> QED BY <1>1, <2>1, <2>2, <2>3, <2>4, <1>15 DEF Goal, HearsOfKey
<1>16. ASSUME NEW a \in Attempts, GivesUpOnKey(a) PROVE Goal
  BY <1>1, <1>4, <1>5, <1>7, <1>16 DEF Goal, GivesUpOnKey, ClientPlaces, Sayings
<1>17. ASSUME NEW a \in Attempts, TakesSeat(a) PROVE Goal
  BY <1>1, <1>4, <1>5, <1>7, <1>17 DEF Goal, TakesSeat, Hosts, MayTake
<1>18. ASSUME NEW a \in Attempts, ReadsRequest(a) PROVE Goal
  BY <1>1, <1>4, <1>5, <1>7, <1>18 DEF Goal, ReadsRequest
<1>19. ASSUME NEW a \in Attempts, FenceDown(a) PROVE Goal
  BY <1>1, <1>4, <1>5, <1>7, <1>19 DEF Goal, FenceDown
<1>20. ASSUME NEW a \in Attempts, WaitsTooLong(a) PROVE Goal
  BY <1>1, <1>4, <1>5, <1>7, <1>20 DEF Goal, WaitsTooLong, Hosts
<1>21. ASSUME NEW a \in Attempts, PutsOnWire(a) PROVE Goal
  <2>1. frame[a] \in Sendable
    BY <1>21, SendingFrame DEF PutsOnWire, Unsent
  <2>2. wire' \in Seq(Sendable)
    BY <1>1, <2>1, <1>21, AppendProperties DEF PutsOnWire
  <2>3. hosted' \in Hosts
    BY <1>1, <1>6, <2>1, <1>21 DEF PutsOnWire, Hosts
  <2>4. handler' \in [Attempts -> Threads]
    BY <1>1, <1>4, <1>7, <1>21 DEF PutsOnWire
  <2> QED BY <1>1, <2>2, <2>3, <2>4, <1>21 DEF Goal, PutsOnWire
<1>22. ASSUME NEW a \in Attempts, KeySendRaises(a) PROVE Goal
  BY <1>1, <1>4, <1>5, <1>7, <1>22 DEF Goal, KeySendRaises, FailedSendNext
<1>23. ASSUME NEW a \in Attempts, RecordsKey(a) PROVE Goal
  <2>1. hosted.last \in Seq(Nat)
    BY <1>1 DEF Hosts
  <2>2. RowOf(hosted.last) \in Lines
    BY <2>1 DEF RowOf, Lines
  <2>3. Appended(RowOf(hosted.last)) \in Seq(Lines)
    BY <2>2, AppendedIs
  <2>4. ledger' \in Books
    BY <1>1, <2>3, <1>23 DEF RecordsKey, Books
  <2>5. handler' \in [Attempts -> Threads]
    BY <1>1, <1>4, <1>7, <1>23 DEF RecordsKey
  <2> QED BY <1>1, <2>4, <2>5, <1>23 DEF Goal, RecordsKey
<1>24. ASSUME NEW a \in Attempts, AnswersKey(a) PROVE Goal
  BY <1>1, <1>4, <1>5, <1>7, <1>24 DEF Goal, AnswersKey
<1>25. ASSUME NEW a \in Attempts, HearsEnd(a) PROVE Goal
  BY <1>1, <1>4, <1>5, <1>7, <1>25 DEF Goal, HearsEnd
<1>26. ASSUME NEW a \in Attempts, Released(a) PROVE Goal
  BY <1>1, <1>4, <1>5, <1>7, <1>26 DEF Goal, Released, Hosts, SeatAfter
<1>27. ASSUME RunBegins PROVE Goal
  BY <1>1, <1>4, <1>5, <1>7, <1>27 DEF Goal, RunBegins, Hosts
<1>28. ASSUME RunUnwinds PROVE Goal
  BY <1>1, <1>4, <1>5, <1>7, <1>28 DEF Goal, RunUnwinds, Hosts
<1>29. ASSUME ConnectionLost PROVE Goal
  BY <1>1, <1>4, <1>5, <1>7, <1>29 DEF Goal, ConnectionLost, Hosts
<1>30. ASSUME Replayed PROVE Goal
  <2>1. hosted \in Hosts /\ AppText \in Seq(Nat)
    BY <1>1, <1>6
  <2>2. hosted' = [hosted EXCEPT !.online = TRUE, !.last = AppText, !.replays = hosted.replays + 1]
    BY <1>30 DEF Replayed
  <2>3. hosted.replays + 1 \in Nat
    BY <2>1 DEF Hosts
  <2>4. hosted' \in Hosts
    BY <2>1, <2>2, <2>3 DEF Hosts
  <2> QED BY <1>1, <2>4, <1>30 DEF Goal, Replayed
<1>31. ASSUME DaemonKilled PROVE Goal
  <2>1. hosted' \in Hosts
    <3>1. hosted' = [hosted EXCEPT !.up = FALSE, !.seat = 0, !.run = "none", !.online = FALSE, !.kills = hosted.kills + 1]
      BY <1>31 DEF DaemonKilled
    <3>2. hosted.kills + 1 \in Nat
      BY <1>6a DEF Hosts
    <3> QED BY <1>6a, <3>1, <3>2 DEF Hosts
  <2>2. TornLine \in Lines
    BY DEF TornLine, Lines, Nothing
  <2>3. Appended(TornLine) \in Seq(Lines)
    BY <2>2, AppendedIs
  <2>4. ledger' \in Books
    BY <1>1, <2>3, <1>31 DEF DaemonKilled, Books
  <2>5. handler' \in [Attempts -> Threads]
    BY <1>1, <1>7, <1>31 DEF DaemonKilled
  <2> QED BY <1>1, <2>1, <2>4, <2>5, <1>31 DEF Goal, DaemonKilled
<1>32. ASSUME DaemonRestarted PROVE Goal
  <2>1. hosted \in Hosts /\ AppText \in Seq(Nat)
    BY <1>1, <1>6
  <2>2. hosted' \in Hosts
    BY <2>1, <1>32 DEF DaemonRestarted, Hosts
  <2> QED BY <1>1, <2>2, <1>32 DEF Goal, DaemonRestarted
<1> QED BY <1>3, <1>8, <1>9, <1>10, <1>11, <1>12, <1>13, <1>14, <1>15, <1>16, <1>17, <1>18, <1>19, <1>20, <1>21, <1>22, <1>23, <1>24, <1>25, <1>26, <1>27, <1>28, <1>29, <1>30, <1>31, <1>32 DEF AttachNext, HandlerStep, ClientStep

\* The seat goes to the thread that asks for it first and back when it leaves.
LEMMA AttachSeat ==
  ASSUME AttachTypes, SeatInv, PairsInv, AttachNext
  PROVE  SeatInv'
<1>1. /\ client \in [Attempts -> ClientPlaces] /\ handler \in [Attempts -> {"none", "asked", "gone"} \cup SeatPlaces]
      /\ ack \in [Attempts -> {"none", "ok", "refused"}] /\ frame \in [Attempts -> Sendable \cup {Nothing}]
      /\ hosted \in [up : BOOLEAN, seat : Attempts \cup {0}, run : {"none", "running", "fenced"}, online : BOOLEAN,
                     last : Seq(Nat), kills : Nat, replays : Nat]
      /\ 0 \notin Attempts
  BY AttachAssumption DEF AttachTypes
<1>2. SeatPlaces = {"reading", "leaving", "fence", "unblock", "sending", "sent", "answering"}
  BY DEF SeatPlaces, Unsent, Sent
<1>3. Unsent = {"fence", "unblock", "sending"} /\ Sent = {"sent", "answering"}
  BY DEF Unsent, Sent
<1>4. Nothing \notin Sendable
  BY SendableIs
<1>5. ASSUME NEW a \in Attempts, AsksToAttach(a) PROVE SeatInv'
  <2>1. handler[a] = "none"
    BY <1>5 DEF AsksToAttach, PairsInv, Together
  <2> QED BY <1>1, <1>2, <2>1, <1>5 DEF AsksToAttach, SeatInv
<1>6. ASSUME NEW a \in Attempts, HearsIfAttached(a) PROVE SeatInv'
  BY <1>1, <1>2, <1>6 DEF HearsIfAttached, EndsFailed, SeatInv
<1>7. ASSUME NEW a \in Attempts, SendsKey(a) PROVE SeatInv'
  BY <1>1, <1>2, <1>7 DEF SendsKey, SeatInv
<1>8. ASSUME NEW a \in Attempts, RefusesKey(a) PROVE SeatInv'
  BY <1>1, <1>2, <1>8 DEF RefusesKey, SeatInv
<1>9. ASSUME NEW a \in Attempts, Detached(a) PROVE SeatInv'
  BY <1>1, <1>2, <1>9 DEF Detached, SeatInv
<1>10. ASSUME NEW a \in Attempts, LosesInput(a) PROVE SeatInv'
  BY <1>1, <1>2, <1>10 DEF LosesInput, EndsFailed, SeatInv
<1>11. ASSUME NEW a \in Attempts, SendsScript(a) PROVE SeatInv'
  BY <1>1, <1>2, <1>11 DEF SendsScript, EndsFailed, SeatInv
<1>12. ASSUME NEW a \in Attempts, HearsOfKey(a) PROVE SeatInv'
  BY <1>1, <1>2, <1>12 DEF HearsOfKey, EndsFailed, Delivered, SeatInv
<1>13. ASSUME NEW a \in Attempts, GivesUpOnKey(a) PROVE SeatInv'
  BY <1>1, <1>2, <1>13 DEF GivesUpOnKey, SeatInv
<1>14. ASSUME NEW a \in Attempts, TakesSeat(a) PROVE SeatInv'
  BY <1>1, <1>2, <1>14 DEF TakesSeat, MayTake, SeatInv
<1>15. ASSUME NEW a \in Attempts, ReadsRequest(a) PROVE SeatInv'
  BY <1>1, <1>2, <1>15 DEF ReadsRequest, SeatInv
<1>16. ASSUME NEW a \in Attempts, FenceDown(a) PROVE SeatInv'
  BY <1>1, <1>2, <1>16 DEF FenceDown, SeatInv
<1>17. ASSUME NEW a \in Attempts, WaitsTooLong(a) PROVE SeatInv'
  BY <1>1, <1>2, <1>17 DEF WaitsTooLong, SeatInv
<1>18. ASSUME NEW a \in Attempts, PutsOnWire(a) PROVE SeatInv'
  BY <1>1, <1>2, <1>18 DEF PutsOnWire, SeatInv
<1>19. ASSUME NEW a \in Attempts, KeySendRaises(a) PROVE SeatInv'
  BY <1>1, <1>2, <1>19 DEF KeySendRaises, FailedSendNext, SeatInv
<1>20. ASSUME NEW a \in Attempts, RecordsKey(a) PROVE SeatInv'
  BY <1>1, <1>2, <1>20 DEF RecordsKey, SeatInv
<1>21. ASSUME NEW a \in Attempts, AnswersKey(a) PROVE SeatInv'
  BY <1>1, <1>2, <1>21 DEF AnswersKey, SeatInv
<1>22. ASSUME NEW a \in Attempts, HearsEnd(a) PROVE SeatInv'
  BY <1>1, <1>2, <1>22 DEF HearsEnd, SeatInv
<1>23. ASSUME NEW a \in Attempts, Released(a) PROVE SeatInv'
  BY <1>1, <1>2, <1>23 DEF Released, SeatAfter, SeatInv
<1>24. ASSUME RunBegins PROVE SeatInv'
  BY <1>1, <1>2, <1>24 DEF RunBegins, SeatInv
<1>25. ASSUME RunUnwinds PROVE SeatInv'
  BY <1>1, <1>2, <1>25 DEF RunUnwinds, SeatInv
<1>26. ASSUME ConnectionLost PROVE SeatInv'
  BY <1>1, <1>2, <1>26 DEF ConnectionLost, SeatInv
<1>27. ASSUME Replayed PROVE SeatInv'
  BY <1>1, <1>2, <1>27 DEF Replayed, SeatInv
<1>28. ASSUME DaemonKilled PROVE SeatInv'
  BY <1>1, <1>2, <1>28 DEF DaemonKilled, SeatInv
<1>29. ASSUME DaemonRestarted PROVE SeatInv'
  BY <1>1, <1>2, <1>29 DEF DaemonRestarted, SeatInv
<1> QED BY <1>5, <1>6, <1>7, <1>8, <1>9, <1>10, <1>11, <1>12, <1>13, <1>14, <1>15, <1>16, <1>17, <1>18, <1>19, <1>20, <1>21, <1>22, <1>23, <1>24, <1>25, <1>26, <1>27, <1>28, <1>29 DEF AttachNext, HandlerStep, ClientStep

\* Client, thread, answer and request move together.
LEMMA AttachPairs ==
  ASSUME AttachTypes, SeatInv, PairsInv, AttachNext
  PROVE  PairsInv'
<1>1. /\ client \in [Attempts -> ClientPlaces] /\ handler \in [Attempts -> {"none", "asked", "gone"} \cup SeatPlaces]
      /\ ack \in [Attempts -> {"none", "ok", "refused"}] /\ frame \in [Attempts -> Sendable \cup {Nothing}]
      /\ hosted \in [up : BOOLEAN, seat : Attempts \cup {0}, run : {"none", "running", "fenced"}, online : BOOLEAN,
                     last : Seq(Nat), kills : Nat, replays : Nat]
      /\ 0 \notin Attempts
  BY AttachAssumption DEF AttachTypes
<1>2. SeatPlaces = {"reading", "leaving", "fence", "unblock", "sending", "sent", "answering"}
  BY DEF SeatPlaces, Unsent, Sent
<1>3. Unsent = {"fence", "unblock", "sending"} /\ Sent = {"sent", "answering"}
  BY DEF Unsent, Sent
<1>4. Nothing \notin Sendable
  BY SendableIs
<1>5. ASSUME NEW a \in Attempts, AsksToAttach(a) PROVE PairsInv'
  BY <1>1, <1>2, <1>3, <1>4, <1>5 DEF AsksToAttach, PairsInv, Together
<1>6. ASSUME NEW a \in Attempts, HearsIfAttached(a) PROVE PairsInv'
  BY <1>1, <1>2, <1>3, <1>4, <1>6 DEF HearsIfAttached, EndsFailed, PairsInv, Together
<1>7. ASSUME NEW a \in Attempts, SendsKey(a) PROVE PairsInv'
  <2>1. <<keyed.next>> # Nothing
    BY DEF Nothing
  <2> QED BY <1>1, <1>2, <1>3, <2>1, <1>7 DEF SendsKey, PairsInv, Together
<1>8. ASSUME NEW a \in Attempts, RefusesKey(a) PROVE PairsInv'
  BY <1>1, <1>2, <1>3, <1>4, <1>8 DEF RefusesKey, PairsInv, Together
<1>9. ASSUME NEW a \in Attempts, Detached(a) PROVE PairsInv'
  BY <1>1, <1>2, <1>3, <1>4, <1>9 DEF Detached, PairsInv, Together
<1>10. ASSUME NEW a \in Attempts, LosesInput(a) PROVE PairsInv'
  BY <1>1, <1>2, <1>3, <1>4, <1>10 DEF LosesInput, EndsFailed, PairsInv, Together
<1>11. ASSUME NEW a \in Attempts, SendsScript(a) PROVE PairsInv'
  <2>1. CASE \A i \in DOMAIN keyed.keys : Encoded(keyed.keys[i])
    <3>2. WholeScript # Nothing
      BY KeysLeft, <1>11 DEF SendsScript
    <3>3. frame' = [frame EXCEPT ![a] = WholeScript] /\ client[a] = "reading" /\ client' = [client EXCEPT ![a] = "waiting"]
          /\ UNCHANGED <<ack, handler>>
      BY <2>1, <1>11 DEF SendsScript, WholeScript
    <3> QED BY <1>1, <1>2, <1>3, <3>2, <3>3 DEF PairsInv, Together
  <2>2. CASE ~\A i \in DOMAIN keyed.keys : Encoded(keyed.keys[i])
    BY <1>1, <1>2, <1>3, <2>2, <1>11 DEF SendsScript, EndsFailed, PairsInv, Together
  <2> QED BY <2>1, <2>2
<1>12. ASSUME NEW a \in Attempts, HearsOfKey(a) PROVE PairsInv'
  BY <1>1, <1>2, <1>3, <1>4, <1>12 DEF HearsOfKey, EndsFailed, Delivered, PairsInv, Together
<1>13. ASSUME NEW a \in Attempts, GivesUpOnKey(a) PROVE PairsInv'
  BY <1>1, <1>2, <1>3, <1>4, <1>13 DEF GivesUpOnKey, PairsInv, Together
<1>14. ASSUME NEW a \in Attempts, TakesSeat(a) PROVE PairsInv'
  BY <1>1, <1>2, <1>3, <1>4, <1>14 DEF TakesSeat, MayTake, PairsInv, Together
<1>15. ASSUME NEW a \in Attempts, ReadsRequest(a) PROVE PairsInv'
  BY <1>1, <1>2, <1>3, <1>4, <1>15 DEF ReadsRequest, PairsInv, Together
<1>16. ASSUME NEW a \in Attempts, FenceDown(a) PROVE PairsInv'
  BY <1>1, <1>2, <1>3, <1>4, <1>16 DEF FenceDown, PairsInv, Together
<1>17. ASSUME NEW a \in Attempts, WaitsTooLong(a) PROVE PairsInv'
  BY <1>1, <1>2, <1>3, <1>4, <1>17 DEF WaitsTooLong, PairsInv, Together
<1>18. ASSUME NEW a \in Attempts, PutsOnWire(a) PROVE PairsInv'
  BY <1>1, <1>2, <1>3, <1>4, <1>18 DEF PutsOnWire, PairsInv, Together
<1>19. ASSUME NEW a \in Attempts, KeySendRaises(a) PROVE PairsInv'
  BY <1>1, <1>2, <1>3, <1>4, <1>19 DEF KeySendRaises, FailedSendNext, PairsInv, Together
<1>20. ASSUME NEW a \in Attempts, RecordsKey(a) PROVE PairsInv'
  BY <1>1, <1>2, <1>3, <1>4, <1>20 DEF RecordsKey, PairsInv, Together
<1>21. ASSUME NEW a \in Attempts, AnswersKey(a) PROVE PairsInv'
  BY <1>1, <1>2, <1>3, <1>4, <1>21 DEF AnswersKey, PairsInv, Together
<1>22. ASSUME NEW a \in Attempts, HearsEnd(a) PROVE PairsInv'
  BY <1>1, <1>2, <1>3, <1>4, <1>22 DEF HearsEnd, PairsInv, Together
<1>23. ASSUME NEW a \in Attempts, Released(a) PROVE PairsInv'
  BY <1>1, <1>2, <1>3, <1>4, <1>23 DEF Released, SeatAfter, PairsInv, Together
<1>24. ASSUME RunBegins PROVE PairsInv'
  BY <1>1, <1>2, <1>3, <1>4, <1>24 DEF RunBegins, PairsInv, Together
<1>25. ASSUME RunUnwinds PROVE PairsInv'
  BY <1>1, <1>2, <1>3, <1>4, <1>25 DEF RunUnwinds, PairsInv, Together
<1>26. ASSUME ConnectionLost PROVE PairsInv'
  BY <1>1, <1>2, <1>3, <1>4, <1>26 DEF ConnectionLost, PairsInv, Together
<1>27. ASSUME Replayed PROVE PairsInv'
  BY <1>1, <1>2, <1>3, <1>4, <1>27 DEF Replayed, PairsInv, Together
<1>28. ASSUME DaemonKilled PROVE PairsInv'
  BY <1>1, <1>2, <1>3, <1>4, <1>28 DEF DaemonKilled, PairsInv, Together
<1>29. ASSUME DaemonRestarted PROVE PairsInv'
  BY <1>1, <1>2, <1>3, <1>4, <1>29 DEF DaemonRestarted, PairsInv, Together
<1> QED BY <1>5, <1>6, <1>7, <1>8, <1>9, <1>10, <1>11, <1>12, <1>13, <1>14, <1>15, <1>16, <1>17, <1>18, <1>19, <1>20, <1>21, <1>22, <1>23, <1>24, <1>25, <1>26, <1>27, <1>28, <1>29 DEF AttachNext, HandlerStep, ClientStep

\* Clients come in turn.
LEMMA AttachClients ==
  ASSUME AttachTypes, PairsInv, ClientsInv, AttachNext
  PROVE  ClientsInv'
<1>1. client \in [Attempts -> ClientPlaces] /\ Attempts \subseteq Nat
  BY AttachAssumption DEF AttachTypes
<1>2. keyed'.how = keyed.how
  BY KeysStay
<1>3. ASSUME NEW a \in Attempts, AsksToAttach(a) PROVE ClientsInv'
  BY <1>1, <1>2, <1>3 DEF AsksToAttach, ClientsInv, GoneEarlier
<1>4. ASSUME NEW a \in Attempts, HearsIfAttached(a) PROVE ClientsInv'
  BY <1>1, <1>2, <1>4 DEF HearsIfAttached, EndsFailed, ClientsInv, GoneEarlier
<1>5. ASSUME NEW a \in Attempts, SendsKey(a) PROVE ClientsInv'
  BY <1>1, <1>2, <1>5 DEF SendsKey, ClientsInv, GoneEarlier
<1>6. ASSUME NEW a \in Attempts, RefusesKey(a) PROVE ClientsInv'
  BY <1>1, <1>2, <1>6 DEF RefusesKey, ClientsInv, GoneEarlier
<1>7. ASSUME NEW a \in Attempts, Detached(a) PROVE ClientsInv'
  BY <1>1, <1>2, <1>7 DEF Detached, ClientsInv, GoneEarlier
<1>8. ASSUME NEW a \in Attempts, LosesInput(a) PROVE ClientsInv'
  BY <1>1, <1>2, <1>8 DEF LosesInput, EndsFailed, ClientsInv, GoneEarlier
<1>9. ASSUME NEW a \in Attempts, SendsScript(a) PROVE ClientsInv'
  BY <1>1, <1>2, <1>9 DEF SendsScript, EndsFailed, ClientsInv, GoneEarlier
<1>10. ASSUME NEW a \in Attempts, HearsOfKey(a) PROVE ClientsInv'
  BY <1>1, <1>2, <1>10 DEF HearsOfKey, EndsFailed, Delivered, ClientsInv, GoneEarlier
<1>11. ASSUME NEW a \in Attempts, GivesUpOnKey(a) PROVE ClientsInv'
  BY <1>1, <1>2, <1>11 DEF GivesUpOnKey, ClientsInv, GoneEarlier
<1>12. ASSUME NEW a \in Attempts, TakesSeat(a) PROVE ClientsInv'
  BY <1>1, <1>2, <1>12 DEF TakesSeat, MayTake, ClientsInv, GoneEarlier
<1>13. ASSUME NEW a \in Attempts, ReadsRequest(a) PROVE ClientsInv'
  BY <1>1, <1>2, <1>13 DEF ReadsRequest, ClientsInv, GoneEarlier
<1>14. ASSUME NEW a \in Attempts, FenceDown(a) PROVE ClientsInv'
  BY <1>1, <1>2, <1>14 DEF FenceDown, ClientsInv, GoneEarlier
<1>15. ASSUME NEW a \in Attempts, WaitsTooLong(a) PROVE ClientsInv'
  BY <1>1, <1>2, <1>15 DEF WaitsTooLong, ClientsInv, GoneEarlier
<1>16. ASSUME NEW a \in Attempts, PutsOnWire(a) PROVE ClientsInv'
  BY <1>1, <1>2, <1>16 DEF PutsOnWire, ClientsInv, GoneEarlier
<1>17. ASSUME NEW a \in Attempts, KeySendRaises(a) PROVE ClientsInv'
  BY <1>1, <1>2, <1>17 DEF KeySendRaises, FailedSendNext, ClientsInv, GoneEarlier
<1>18. ASSUME NEW a \in Attempts, RecordsKey(a) PROVE ClientsInv'
  BY <1>1, <1>2, <1>18 DEF RecordsKey, ClientsInv, GoneEarlier
<1>19. ASSUME NEW a \in Attempts, AnswersKey(a) PROVE ClientsInv'
  BY <1>1, <1>2, <1>19 DEF AnswersKey, ClientsInv, GoneEarlier
<1>20. ASSUME NEW a \in Attempts, HearsEnd(a) PROVE ClientsInv'
  BY <1>1, <1>2, <1>20 DEF HearsEnd, ClientsInv, GoneEarlier
<1>21. ASSUME NEW a \in Attempts, Released(a) PROVE ClientsInv'
  BY <1>1, <1>2, <1>21 DEF Released, SeatAfter, ClientsInv, GoneEarlier
<1>22. ASSUME RunBegins PROVE ClientsInv'
  BY <1>1, <1>2, <1>22 DEF RunBegins, ClientsInv, GoneEarlier
<1>23. ASSUME RunUnwinds PROVE ClientsInv'
  BY <1>1, <1>2, <1>23 DEF RunUnwinds, ClientsInv, GoneEarlier
<1>24. ASSUME ConnectionLost PROVE ClientsInv'
  BY <1>1, <1>2, <1>24 DEF ConnectionLost, ClientsInv, GoneEarlier
<1>25. ASSUME Replayed PROVE ClientsInv'
  BY <1>1, <1>2, <1>25 DEF Replayed, ClientsInv, GoneEarlier
<1>26. ASSUME DaemonKilled PROVE ClientsInv'
  BY <1>1, <1>2, <1>26 DEF DaemonKilled, ClientsInv, GoneEarlier
<1>27. ASSUME DaemonRestarted PROVE ClientsInv'
  BY <1>1, <1>2, <1>27 DEF DaemonRestarted, ClientsInv, GoneEarlier
<1> QED BY <1>3, <1>4, <1>5, <1>6, <1>7, <1>8, <1>9, <1>10, <1>11, <1>12, <1>13, <1>14, <1>15, <1>16, <1>17, <1>18, <1>19, <1>20, <1>21, <1>22, <1>23, <1>24, <1>25, <1>26, <1>27 DEF AttachNext, HandlerStep, ClientStep

\* Of two attempts at most one has a client that is neither gone nor still to come.
LEMMA OneLive ==
  ASSUME AttachTypes, ClientsInv, NEW a \in Attempts, NEW b \in Attempts,
         client[a] \notin {"off", "closed"}, client[b] \notin {"off", "closed"}
  PROVE  a = b
<1>1. Attempts \subseteq Nat
  BY AttachAssumption
<1> QED BY <1>1 DEF ClientsInv, GoneEarlier

\* What is waited for is the next key.
LEMMA AttachWaits ==
  ASSUME AttachTypes, PairsInv, ClientsInv, WaitingInv, AttachNext
  PROVE  WaitingInv'
<1>1. /\ client \in [Attempts -> ClientPlaces] /\ frame \in [Attempts -> Sendable \cup {Nothing}]
      /\ keyed.next \in 1..(Len(keyed.keys) + 1) /\ Len(keyed.keys) \in Nat
  BY KeysTyped DEF AttachTypes
<1>2. keyed'.how = keyed.how /\ keyed'.keys = keyed.keys /\ Len(keyed.keys)' = Len(keyed.keys)
  BY KeysStay
<1>3. \A a, b \in Attempts : client[a] \notin {"off", "closed"} /\ client[b] \notin {"off", "closed"} => a = b
  BY OneLive
<1>4. ASSUME NEW a \in Attempts, AsksToAttach(a) PROVE WaitingInv'
  BY <1>1, <1>2, <1>4 DEF AsksToAttach, WaitingInv, AllPressed, Key
<1>5. ASSUME NEW a \in Attempts, HearsIfAttached(a) PROVE WaitingInv'
  BY <1>1, <1>2, <1>5 DEF HearsIfAttached, EndsFailed, WaitingInv, AllPressed, Key
<1>6. ASSUME NEW a \in Attempts, SendsKey(a) PROVE WaitingInv'
  <2>1. ~AllPressed /\ Key # "detach" /\ keyed.how # "script" /\ keyed' = keyed /\ client' = [client EXCEPT ![a] = "waiting"]
        /\ frame' = [frame EXCEPT ![a] = <<keyed.next>>]
    BY <1>6 DEF SendsKey, Key
  <2>2. ~AllPressed' /\ Key' = Key
    BY <2>1 DEF AllPressed, Key
  <2>3. Head(<<keyed.next>>) = keyed.next
    OBVIOUS
  <2> QED BY <1>1, <2>1, <2>2, <2>3 DEF WaitingInv
<1>7. ASSUME NEW a \in Attempts, RefusesKey(a) PROVE WaitingInv'
  <2>1. \A b \in Attempts : client[b] # "waiting" /\ client'[b] # "waiting"
    BY <1>3, <1>7 DEF RefusesKey
  <2>2. keyed.how # "script"
    BY <1>7 DEF RefusesKey
  <2> QED BY <1>2, <2>1, <2>2 DEF WaitingInv
<1>8. ASSUME NEW a \in Attempts, Detached(a) PROVE WaitingInv'
  BY <1>1, <1>2, <1>8 DEF Detached, WaitingInv, AllPressed, Key
<1>9. ASSUME NEW a \in Attempts, LosesInput(a) PROVE WaitingInv'
  BY <1>1, <1>2, <1>9 DEF LosesInput, EndsFailed, WaitingInv, AllPressed, Key
<1>10. ASSUME NEW a \in Attempts, SendsScript(a) PROVE WaitingInv'
  <2>1. ~AllPressed /\ client[a] = "reading" /\ keyed.how = "script" /\ keyed' = keyed /\ ~AllPressed' /\ Key' = Key
    BY <1>10 DEF SendsScript, AllPressed, Key
  <2>2. keyed.next = 1
    BY <1>1, <2>1 DEF WaitingInv, AllPressed
  <2>3. CASE \A i \in DOMAIN keyed.keys : Encoded(keyed.keys[i])
    <3>1. WholeScript \in Sendable
      BY <2>1, <2>3, KeysLeft DEF Sendable
    <3>2. Head(WholeScript) = 1
      BY <2>1, <3>1, SendableIs
    <3>3. frame' = [frame EXCEPT ![a] = WholeScript] /\ client' = [client EXCEPT ![a] = "waiting"]
      BY <2>3, <1>10 DEF SendsScript, WholeScript
    <3> QED BY <1>1, <2>1, <2>2, <3>2, <3>3 DEF WaitingInv
  <2>4. CASE ~\A i \in DOMAIN keyed.keys : Encoded(keyed.keys[i])
    BY <1>1, <2>1, <2>4, <1>10 DEF SendsScript, EndsFailed, WaitingInv
  <2> QED BY <2>3, <2>4
<1>11. ASSUME NEW a \in Attempts, HearsOfKey(a) PROVE WaitingInv'
  <2>1. client[a] = "waiting" /\ ~AllPressed /\ (keyed.how = "script" => keyed.next = 1)
    BY <1>1, <1>11 DEF HearsOfKey, WaitingInv, AllPressed
  <2>2. \A b \in Attempts : client'[b] # "waiting"
    BY <1>1, <1>3, <2>1, <1>11 DEF HearsOfKey, EndsFailed
  <2>3. CASE Delivered(a)
    <3>1. keyed' = [keyed EXCEPT !.next = IF @ = 1 /\ keyed.how = "script" THEN Len(keyed.keys) + 1 ELSE @ + 1]
      BY <2>3, <1>11 DEF HearsOfKey
    <3>2. keyed.how = "script" => keyed'.next = Len(keyed.keys) + 1
      BY <2>1, <3>1 DEF AttachTypes
    <3> QED BY <1>2, <2>2, <3>2 DEF WaitingInv
  <2>4. CASE ~Delivered(a)
    <3>1. keyed' = keyed
      BY <2>4, <1>11 DEF HearsOfKey
    <3> QED BY <2>2, <3>1 DEF WaitingInv
  <2> QED BY <2>3, <2>4
<1>12. ASSUME NEW a \in Attempts, GivesUpOnKey(a) PROVE WaitingInv'
  BY <1>1, <1>2, <1>12 DEF GivesUpOnKey, WaitingInv, AllPressed, Key
<1>13. ASSUME NEW a \in Attempts, TakesSeat(a) PROVE WaitingInv'
  BY <1>1, <1>2, <1>13 DEF TakesSeat, MayTake, WaitingInv, AllPressed, Key
<1>14. ASSUME NEW a \in Attempts, ReadsRequest(a) PROVE WaitingInv'
  BY <1>1, <1>2, <1>14 DEF ReadsRequest, WaitingInv, AllPressed, Key
<1>15. ASSUME NEW a \in Attempts, FenceDown(a) PROVE WaitingInv'
  BY <1>1, <1>2, <1>15 DEF FenceDown, WaitingInv, AllPressed, Key
<1>16. ASSUME NEW a \in Attempts, WaitsTooLong(a) PROVE WaitingInv'
  BY <1>1, <1>2, <1>16 DEF WaitsTooLong, WaitingInv, AllPressed, Key
<1>17. ASSUME NEW a \in Attempts, PutsOnWire(a) PROVE WaitingInv'
  BY <1>1, <1>2, <1>17 DEF PutsOnWire, WaitingInv, AllPressed, Key
<1>18. ASSUME NEW a \in Attempts, KeySendRaises(a) PROVE WaitingInv'
  BY <1>1, <1>2, <1>18 DEF KeySendRaises, FailedSendNext, WaitingInv, AllPressed, Key
<1>19. ASSUME NEW a \in Attempts, RecordsKey(a) PROVE WaitingInv'
  BY <1>1, <1>2, <1>19 DEF RecordsKey, WaitingInv, AllPressed, Key
<1>20. ASSUME NEW a \in Attempts, AnswersKey(a) PROVE WaitingInv'
  BY <1>1, <1>2, <1>20 DEF AnswersKey, WaitingInv, AllPressed, Key
<1>21. ASSUME NEW a \in Attempts, HearsEnd(a) PROVE WaitingInv'
  BY <1>1, <1>2, <1>21 DEF HearsEnd, WaitingInv, AllPressed, Key
<1>22. ASSUME NEW a \in Attempts, Released(a) PROVE WaitingInv'
  BY <1>1, <1>2, <1>22 DEF Released, SeatAfter, WaitingInv, AllPressed, Key
<1>23. ASSUME RunBegins PROVE WaitingInv'
  BY <1>1, <1>2, <1>23 DEF RunBegins, WaitingInv, AllPressed, Key
<1>24. ASSUME RunUnwinds PROVE WaitingInv'
  BY <1>1, <1>2, <1>24 DEF RunUnwinds, WaitingInv, AllPressed, Key
<1>25. ASSUME ConnectionLost PROVE WaitingInv'
  BY <1>1, <1>2, <1>25 DEF ConnectionLost, WaitingInv, AllPressed, Key
<1>26. ASSUME Replayed PROVE WaitingInv'
  BY <1>1, <1>2, <1>26 DEF Replayed, WaitingInv, AllPressed, Key
<1>27. ASSUME DaemonKilled PROVE WaitingInv'
  BY <1>1, <1>2, <1>27 DEF DaemonKilled, WaitingInv, AllPressed, Key
<1>28. ASSUME DaemonRestarted PROVE WaitingInv'
  BY <1>1, <1>2, <1>28 DEF DaemonRestarted, WaitingInv, AllPressed, Key
<1> QED BY <1>4, <1>5, <1>6, <1>7, <1>8, <1>9, <1>10, <1>11, <1>12, <1>13, <1>14, <1>15, <1>16, <1>17, <1>18, <1>19, <1>20, <1>21, <1>22, <1>23, <1>24, <1>25, <1>26, <1>27, <1>28 DEF AttachNext, HandlerStep, ClientStep

\* The place of the next key never falls.
LEMMA NextGrows ==
  ASSUME AttachTypes, WaitingInv, AttachNext
  PROVE  keyed'.next >= keyed.next
<1>0. keyed.next \in Nat /\ Len(keyed.keys) \in Nat /\ keyed.next <= Len(keyed.keys) + 1
  <2>1. Len(keyed.keys) \in Nat
    BY KeysTyped
  <2>2. keyed.next \in 1..(Len(keyed.keys) + 1)
    BY DEF AttachTypes
  <2> QED BY <2>1, <2>2
<1>1. keyed.next \in Nat /\ Len(keyed.keys) \in Nat
      /\ keyed \in [keys : Pressings, next : Nat, how : {"tty", "strict tty", "script"}]
  BY KeysTyped DEF AttachTypes
<1>2. ASSUME NEW a \in Attempts, HandlerStep(a) PROVE keyed' = keyed
  BY <1>2 DEF HandlerStep, TakesSeat, ReadsRequest, FenceDown, WaitsTooLong, PutsOnWire, KeySendRaises,
              RecordsKey, AnswersKey, HearsEnd, Released
<1>3. ASSUME NEW a \in Attempts, RefusesKey(a) PROVE keyed'.next = keyed.next + 1
  BY <1>1, <1>3 DEF RefusesKey
<1>4. ASSUME NEW a \in Attempts, HearsOfKey(a) PROVE keyed'.next >= keyed.next
  <2>1. keyed' # keyed => keyed'.next = IF keyed.next = 1 /\ keyed.how = "script" THEN Len(keyed.keys) + 1 ELSE keyed.next + 1
    BY <1>1, <1>4 DEF HearsOfKey
  <2>2. keyed'.next = keyed.next \/ keyed'.next = Len(keyed.keys) + 1 \/ keyed'.next = keyed.next + 1
    BY <2>1
  <2> HIDE <2>1
  <2> QED BY <1>0, <2>2
<1>5. ASSUME NEW a \in Attempts, ClientStep(a), ~RefusesKey(a), ~HearsOfKey(a) PROVE keyed' = keyed
  BY <1>5 DEF ClientStep, AsksToAttach, HearsIfAttached, SendsKey, Detached, LosesInput, SendsScript, GivesUpOnKey
<1>6. RunBegins \/ RunUnwinds \/ ConnectionLost \/ Replayed \/ DaemonKilled \/ DaemonRestarted => keyed' = keyed
  BY DEF RunBegins, RunUnwinds, ConnectionLost, Replayed, DaemonKilled, DaemonRestarted
<1>7. keyed' = keyed \/ keyed'.next = keyed.next + 1 \/ keyed'.next >= keyed.next
  BY <1>2, <1>3, <1>4, <1>5, <1>6 DEF AttachNext
<1>8. keyed' = keyed => keyed'.next = keyed.next
  OBVIOUS
<1> QED BY <1>0, <1>7, <1>8

\* The wire is one request longer when one is sent, and as it was otherwise.
LEMMA WireGrows ==
  ASSUME AttachTypes, PairsInv, NEW a \in Attempts, PutsOnWire(a)
  PROVE  /\ frame[a] \in Sendable /\ Len(wire) \in Nat /\ DOMAIN wire = 1..Len(wire) /\ DOMAIN wire' = 1..(Len(wire) + 1)
         /\ \A i \in DOMAIN wire : wire'[i] = wire[i]
         /\ wire'[Len(wire) + 1] = frame[a] /\ Len(wire') = Len(wire) + 1 /\ wire' # <<>>
<1>1. frame[a] \in Sendable /\ wire \in Seq(Sendable) /\ wire' = Append(wire, frame[a])
  BY SendingFrame DEF PutsOnWire, Unsent, AttachTypes
<1> QED BY <1>1, AppendProperties, LenProperties

\* What is still to be sent comes after what was sent.
LEMMA AttachPending ==
  ASSUME AttachTypes, SeatInv, PairsInv, ClientsInv, WaitingInv, PendingInv, AttachNext
  PROVE  PendingInv'
<1>1. /\ client \in [Attempts -> ClientPlaces] /\ frame \in [Attempts -> Sendable \cup {Nothing}]
      /\ handler \in [Attempts -> {"none", "asked", "gone"} \cup SeatPlaces]
      /\ keyed.next \in Nat /\ keyed'.next \in Nat /\ Len(keyed.keys) \in Nat /\ keyed'.next >= keyed.next
  BY NextGrows, AttachTypesKept, KeysTyped DEF AttachTypes
<1>2. keyed'.how = keyed.how /\ keyed'.keys = keyed.keys /\ Len(keyed.keys)' = Len(keyed.keys)
  BY KeysStay
<1>3. Unsent = {"fence", "unblock", "sending"} /\ Sent = {"sent", "answering"}
  BY DEF Unsent, Sent
<1>4. \A i \in DOMAIN wire : Last(wire[i]) \in Nat /\ Head(wire[i]) \in Nat
  <2>1. wire \in Seq(Sendable)
    BY DEF AttachTypes
  <2>2. \A i \in DOMAIN wire : wire[i] \in Sendable
    BY <2>1, LenProperties, ElementOfSeq
  <2> QED BY <2>2, SendableIs
<1>5. \A a \in Attempts : frame[a] # Nothing => Head(frame[a]) \in Nat /\ Last(frame[a]) \in Nat
  BY <1>1, SendableIs
<1>6. ASSUME NEW a \in Attempts, AsksToAttach(a) PROVE PendingInv'
  BY <1>1, <1>2, <1>3, <1>6 DEF AsksToAttach, PendingInv, KeysInOrder, AllPressed
<1>7. ASSUME NEW a \in Attempts, HearsIfAttached(a) PROVE PendingInv'
  BY <1>1, <1>2, <1>3, <1>7 DEF HearsIfAttached, EndsFailed, PendingInv, KeysInOrder, AllPressed
<1>8. ASSUME NEW a \in Attempts, SendsKey(a) PROVE PendingInv'
  <2>1. /\ keyed.how # "script" /\ keyed' = keyed /\ wire' = wire /\ handler' = handler /\ client[a] = "reading"
        /\ client' = [client EXCEPT ![a] = "waiting"] /\ frame' = [frame EXCEPT ![a] = <<keyed.next>>]
    BY <1>8 DEF SendsKey
  <2>2. Head(<<keyed.next>>) = keyed.next
    OBVIOUS
  <2> QED BY <1>1, <2>1, <2>2 DEF PendingInv, KeysInOrder
<1>9. ASSUME NEW a \in Attempts, RefusesKey(a) PROVE PendingInv'
  <2>1. keyed.how # "script" /\ wire' = wire /\ handler' = handler /\ frame' = frame
    BY <1>9 DEF RefusesKey
  <2> QED BY <1>1, <1>2, <1>4, <1>5, <2>1 DEF PendingInv, KeysInOrder
<1>10. ASSUME NEW a \in Attempts, Detached(a) PROVE PendingInv'
  BY <1>1, <1>2, <1>3, <1>10 DEF Detached, PendingInv, KeysInOrder, AllPressed
<1>11. ASSUME NEW a \in Attempts, LosesInput(a) PROVE PendingInv'
  BY <1>1, <1>2, <1>3, <1>11 DEF LosesInput, EndsFailed, PendingInv, KeysInOrder, AllPressed
<1>12. ASSUME NEW a \in Attempts, SendsScript(a) PROVE PendingInv'
  <2>1. keyed.how = "script" /\ client[a] = "reading" /\ keyed' = keyed /\ wire' = wire /\ handler' = handler /\ ~AllPressed
    BY <1>12 DEF SendsScript
  <2>2. wire = <<>>
    <3>1. \A b \in Attempts : client[b] # "off" => b = 1
      BY <2>1 DEF ClientsInv
    <3> QED BY <2>1, <3>1 DEF PendingInv
  <2>3. DOMAIN wire = {}
    BY <2>2
  <2> QED BY <1>2, <2>1, <2>2, <2>3 DEF PendingInv, KeysInOrder
<1>13. ASSUME NEW a \in Attempts, HearsOfKey(a) PROVE PendingInv'
  <2>1. client[a] = "waiting" /\ wire' = wire /\ handler' = handler /\ frame' = frame
    BY <1>13 DEF HearsOfKey
  <2>2. CASE Delivered(a)
    <3>1. keyed' = [keyed EXCEPT !.next = IF @ = 1 /\ keyed.how = "script" THEN Len(keyed.keys) + 1 ELSE @ + 1]
      BY <2>2, <1>13 DEF HearsOfKey
    <3>2. keyed.how = "script" => AllPressed'
      <4>1. keyed.how = "script" => keyed.next = 1
        BY <1>1, <2>1 DEF WaitingInv, AllPressed
      <4>2. keyed.how = "script" => keyed'.next = Len(keyed.keys) + 1
        BY <3>1, <4>1 DEF AttachTypes
      <4> QED BY <1>1, <1>2, <4>2 DEF AllPressed
    <3> QED BY <1>1, <1>2, <1>4, <1>5, <2>1, <3>2 DEF PendingInv, KeysInOrder
  <2>3. CASE ~Delivered(a)
    <3>1. keyed' = keyed /\ client' = [client EXCEPT ![a] = "closed"]
      BY <2>3, <1>13 DEF HearsOfKey, EndsFailed
    <3> QED BY <1>1, <2>1, <3>1 DEF PendingInv, KeysInOrder, AllPressed
  <2> QED BY <2>2, <2>3
<1>14. ASSUME NEW a \in Attempts, GivesUpOnKey(a) PROVE PendingInv'
  BY <1>1, <1>2, <1>3, <1>14 DEF GivesUpOnKey, PendingInv, KeysInOrder, AllPressed
<1>15. ASSUME NEW a \in Attempts, TakesSeat(a) PROVE PendingInv'
  <2>1. frame[a] = Nothing /\ keyed' = keyed /\ wire' = wire /\ frame' = frame /\ client' = client
    BY <1>15 DEF TakesSeat, PairsInv, Together, SeatPlaces, Unsent, Sent
  <2>2. \A b \in Attempts \ {a} : handler'[b] = handler[b]
    BY <1>1, <1>15 DEF TakesSeat
  <2> QED BY <2>1, <2>2 DEF PendingInv, KeysInOrder, AllPressed
<1>16. ASSUME NEW a \in Attempts, ReadsRequest(a) PROVE PendingInv'
  BY <1>1, <1>2, <1>3, <1>16 DEF ReadsRequest, PendingInv, KeysInOrder, AllPressed
<1>17. ASSUME NEW a \in Attempts, FenceDown(a) PROVE PendingInv'
  BY <1>1, <1>2, <1>3, <1>17 DEF FenceDown, PendingInv, KeysInOrder, AllPressed
<1>18. ASSUME NEW a \in Attempts, WaitsTooLong(a) PROVE PendingInv'
  BY <1>1, <1>2, <1>3, <1>18 DEF WaitsTooLong, PendingInv, KeysInOrder, AllPressed
<1>19. ASSUME NEW a \in Attempts, PutsOnWire(a) PROVE PendingInv'
  <2> DEFINE n == Len(wire)
  <2>1. /\ frame[a] \in Sendable /\ n \in Nat /\ DOMAIN wire = 1..n /\ DOMAIN wire' = 1..(n + 1)
        /\ \A i \in DOMAIN wire : wire'[i] = wire[i]
        /\ wire'[n + 1] = frame[a]
    BY WireGrows, <1>19
  <2>2. handler[a] = "sending" /\ keyed' = keyed /\ frame' = frame /\ client' = client /\ handler' = [handler EXCEPT ![a] = "sent"]
    BY <1>19 DEF PutsOnWire
  <2>3. frame[a] # Nothing /\ (\A i \in DOMAIN wire : Last(wire[i]) <= Head(frame[a])) /\ (keyed.how # "script" => Head(frame[a]) <= keyed.next)
    BY <1>3, <2>1, <2>2, SendableIs DEF PendingInv
  <2>4. KeysInOrder'
    <3> SUFFICES ASSUME NEW i \in 1..(n + 1), NEW j \in 1..(n + 1), i < j PROVE Last(wire'[i]) <= Head(wire'[j])
      BY <2>1 DEF KeysInOrder
    <3>1. i \in 1..n /\ wire'[i] = wire[i]
      BY <2>1
    <3>2. CASE j = n + 1
      BY <2>1, <2>3, <3>1, <3>2
    <3>3. CASE j # n + 1
      <4>1. j \in 1..n /\ wire'[j] = wire[j]
        BY <2>1, <3>3
      <4> QED BY <2>1, <3>1, <4>1 DEF PendingInv, KeysInOrder
    <3> QED BY <3>2, <3>3
  <2>5. ASSUME keyed.how # "script", NEW i \in 1..(n + 1) PROVE Last(wire'[i]) <= keyed.next
    <3>1. CASE i = n + 1
      BY <2>1, <2>3, <2>5, <3>1, SendableIs
    <3>2. CASE i # n + 1
      <4>1. i \in 1..n /\ wire'[i] = wire[i]
        BY <2>1, <3>2
      <4> QED BY <2>1, <2>5, <4>1 DEF PendingInv
    <3> QED BY <3>1, <3>2
  <2>6. ASSUME NEW b \in Attempts PROVE handler'[b] \notin Unsent \cup {"reading"}
    <3>1. hosted.seat = a /\ (b # a => handler[b] \notin SeatPlaces)
      BY <1>3, <2>2 DEF SeatInv, SeatPlaces
    <3>2. b # a => handler'[b] = handler[b]
      BY <1>1, <2>2
    <3>3. handler'[a] = "sent"
      BY <1>1, <2>2
    <3> QED BY <1>3, <3>1, <3>2, <3>3 DEF SeatPlaces
  <2>7. client[a] \in {"waiting", "closed"}
    BY <2>2 DEF PairsInv, Together
  <2> HIDE DEF n
  <2> QED BY <2>1, <2>2, <2>4, <2>5, <2>6, <2>7 DEF PendingInv
<1>20. ASSUME NEW a \in Attempts, KeySendRaises(a) PROVE PendingInv'
  BY <1>1, <1>2, <1>3, <1>20 DEF KeySendRaises, FailedSendNext, PendingInv, KeysInOrder, AllPressed
<1>21. ASSUME NEW a \in Attempts, RecordsKey(a) PROVE PendingInv'
  BY <1>1, <1>2, <1>3, <1>21 DEF RecordsKey, PendingInv, KeysInOrder, AllPressed
<1>22. ASSUME NEW a \in Attempts, AnswersKey(a) PROVE PendingInv'
  <2>1. keyed' = keyed /\ wire' = wire /\ frame' = [frame EXCEPT ![a] = Nothing] /\ client' = client
        /\ \A b \in Attempts \ {a} : handler'[b] = handler[b]
    BY <1>1, <1>22 DEF AnswersKey
  <2>2. frame'[a] = Nothing /\ \A b \in Attempts \ {a} : frame'[b] = frame[b]
    BY <1>1, <2>1
  <2> QED BY <2>1, <2>2 DEF PendingInv, KeysInOrder, AllPressed
<1>23. ASSUME NEW a \in Attempts, HearsEnd(a) PROVE PendingInv'
  BY <1>1, <1>2, <1>3, <1>23 DEF HearsEnd, PendingInv, KeysInOrder, AllPressed
<1>24. ASSUME NEW a \in Attempts, Released(a) PROVE PendingInv'
  BY <1>1, <1>2, <1>3, <1>24 DEF Released, SeatAfter, PendingInv, KeysInOrder, AllPressed
<1>25. ASSUME RunBegins PROVE PendingInv'
  BY <1>1, <1>2, <1>3, <1>25 DEF RunBegins, PendingInv, KeysInOrder, AllPressed
<1>26. ASSUME RunUnwinds PROVE PendingInv'
  BY <1>1, <1>2, <1>3, <1>26 DEF RunUnwinds, PendingInv, KeysInOrder, AllPressed
<1>27. ASSUME ConnectionLost PROVE PendingInv'
  BY <1>1, <1>2, <1>3, <1>27 DEF ConnectionLost, PendingInv, KeysInOrder, AllPressed
<1>28. ASSUME Replayed PROVE PendingInv'
  BY <1>1, <1>2, <1>3, <1>28 DEF Replayed, PendingInv, KeysInOrder, AllPressed
<1>29. ASSUME DaemonKilled PROVE PendingInv'
  BY <1>1, <1>2, <1>3, <1>29 DEF DaemonKilled, PendingInv, KeysInOrder, AllPressed
<1>30. ASSUME DaemonRestarted PROVE PendingInv'
  BY <1>1, <1>2, <1>3, <1>30 DEF DaemonRestarted, PendingInv, KeysInOrder, AllPressed
<1> QED BY <1>6, <1>7, <1>8, <1>9, <1>10, <1>11, <1>12, <1>13, <1>14, <1>15, <1>16, <1>17, <1>18, <1>19, <1>20, <1>21, <1>22, <1>23, <1>24, <1>25, <1>26, <1>27, <1>28, <1>29, <1>30 DEF AttachNext, HandlerStep, ClientStep

\* What is on the wire are keys that have a form of 8 bits, each in its request.
LEMMA OnWireIs ==
  ASSUME AttachTypes
  PROVE  /\ wire \in Seq(Sendable) /\ Len(wire) \in Nat /\ DOMAIN wire = 1..Len(wire)
         /\ \A i \in DOMAIN wire : wire[i] \in Sendable
         /\ \A i \in DOMAIN wire : \A k \in ToSet(wire[i]) : k \in OnWire
         /\ \A k \in OnWire : /\ k \in DOMAIN keyed.keys /\ Encoded(keyed.keys[k])
                              /\ \E i \in DOMAIN wire : k <= Last(wire[i])
         /\ \A i \in DOMAIN wire : Head(wire[i]) \in ToSet(wire[i]) /\ Last(wire[i]) \in ToSet(wire[i])
<1>1. wire \in Seq(Sendable)
  BY DEF AttachTypes
<1>2. Len(wire) \in Nat /\ DOMAIN wire = 1..Len(wire) /\ \A i \in DOMAIN wire : wire[i] \in Sendable
  BY <1>1, LenProperties, ElementOfSeq
<1>3. \A i \in DOMAIN wire : \A k \in ToSet(wire[i]) : k \in OnWire
  BY DEF OnWire
<1>4. ASSUME NEW k \in OnWire
      PROVE  k \in DOMAIN keyed.keys /\ Encoded(keyed.keys[k]) /\ \E i \in DOMAIN wire : k <= Last(wire[i])
  <2>1. PICK i \in DOMAIN wire : k \in ToSet(wire[i])
    BY DEF OnWire
  <2>2. PICK j \in DOMAIN wire[i] : k = wire[i][j]
    BY <2>1 DEF ToSet
  <2> QED BY <1>2, <2>2, SendableIs
<1>5. ASSUME NEW i \in DOMAIN wire PROVE Head(wire[i]) \in ToSet(wire[i]) /\ Last(wire[i]) \in ToSet(wire[i])
  <2> DEFINE r == wire[i]
  <2>1. Head(r) = r[1] /\ Last(r) = r[Len(r)] /\ DOMAIN r = 1..Len(r) /\ Len(r) \in Nat /\ Len(r) > 0
    BY <1>2, SendableIs
  <2> HIDE DEF r
  <2>2. Head(r) \in ToSet(r) /\ Last(r) \in ToSet(r)
    BY <2>1 DEF ToSet
  <2> QED BY <2>2 DEF r
<1> QED BY <1>1, <1>2, <1>3, <1>4, <1>5

\* Each key that was answered was sent, each that was passed over is named.
LEMMA AttachHeard ==
  ASSUME AttachTypes, SeatInv, PairsInv, ClientsInv, WaitingInv, HeardInv, AttachNext
  PROVE  HeardInv'
<1>1. /\ client \in [Attempts -> ClientPlaces] /\ frame \in [Attempts -> Sendable \cup {Nothing}]
      /\ handler \in [Attempts -> {"none", "asked", "gone"} \cup SeatPlaces] /\ ack \in [Attempts -> {"none", "ok", "refused"}]
      /\ keyed.next \in Nat /\ Len(keyed.keys) \in Nat
  BY KeysTyped DEF AttachTypes
<1>2. keyed'.how = keyed.how /\ keyed'.keys = keyed.keys /\ (DOMAIN keyed.keys)' = DOMAIN keyed.keys
      /\ \A i : Encoded(keyed.keys[i])' <=> Encoded(keyed.keys[i])
  BY KeysStay
<1>3. Unsent = {"fence", "unblock", "sending"} /\ Sent = {"sent", "answering"}
      /\ SeatPlaces = {"reading", "leaving", "fence", "unblock", "sending", "sent", "answering"}
  BY DEF Unsent, Sent, SeatPlaces
<1>4. wire' = wire => OnWire' = OnWire
  BY DEF OnWire
<1>5. \A a, b \in Attempts : client[a] \notin {"off", "closed"} /\ client[b] \notin {"off", "closed"} => a = b
  BY OneLive
<1>6. said \in [unsent : SUBSET Nat, timedOut : SUBSET Attempts, failed : SUBSET Attempts]
  BY DEF AttachTypes
<1>7. ASSUME NEW a \in Attempts, AsksToAttach(a) PROVE HeardInv'
  BY <1>1, <1>2, <1>3, <1>4, <1>7 DEF AsksToAttach, HeardInv
<1>8. ASSUME NEW a \in Attempts, HearsIfAttached(a) PROVE HeardInv'
  BY <1>1, <1>2, <1>3, <1>4, <1>6, <1>8 DEF HearsIfAttached, EndsFailed, HeardInv
<1>9. ASSUME NEW a \in Attempts, SendsKey(a) PROVE HeardInv'
  <2>1. keyed' = keyed /\ wire' = wire /\ handler' = handler /\ said' = said /\ ack' = ack /\ client' = [client EXCEPT ![a] = "waiting"]
        /\ \A b \in Attempts \ {a} : frame'[b] = frame[b]
    BY <1>1, <1>9 DEF SendsKey
  <2>2. ack[a] # "ok" /\ handler[a] \notin Sent
    BY <1>3, <1>9 DEF SendsKey, PairsInv, Together
  <2> QED BY <1>1, <1>4, <2>1, <2>2 DEF HeardInv
<1>10. ASSUME NEW a \in Attempts, RefusesKey(a) PROVE HeardInv'
  <2>1. keyed' = [keyed EXCEPT !.next = keyed.next + 1] /\ said' = [said EXCEPT !.unsent = said.unsent \cup {keyed.next}]
        /\ wire' = wire /\ client' = client /\ handler' = handler /\ ack' = ack /\ frame' = frame /\ ~Encoded(Key) /\ Key # "detach"
    BY <1>10 DEF RefusesKey
  <2>2. keyed'.next = keyed.next + 1 /\ said'.unsent = said.unsent \cup {keyed.next}
    BY <1>1, <1>6, <2>1 DEF AttachTypes
  <2>3. keyed.next \in DOMAIN keyed.keys /\ ~Encoded(keyed.keys[keyed.next])
    <3>1. ~AllPressed /\ Key = keyed.keys[keyed.next]
      BY <2>1 DEF Key
    <3> QED BY <2>1, <3>1, KeysLeft, KeysTyped
  <2>4. \A b \in Attempts : client'[b] # "waiting"
    BY <1>5, <2>1, <1>10 DEF RefusesKey
  <2> QED BY <1>1, <1>2, <1>4, <2>1, <2>2, <2>3, <2>4 DEF HeardInv
<1>11. ASSUME NEW a \in Attempts, Detached(a) PROVE HeardInv'
  BY <1>1, <1>2, <1>3, <1>4, <1>11 DEF Detached, HeardInv
<1>12. ASSUME NEW a \in Attempts, LosesInput(a) PROVE HeardInv'
  BY <1>1, <1>2, <1>3, <1>4, <1>6, <1>12 DEF LosesInput, EndsFailed, HeardInv
<1>13. ASSUME NEW a \in Attempts, SendsScript(a) PROVE HeardInv'
  <2>1. keyed' = keyed /\ wire' = wire /\ handler' = handler /\ said'.unsent = said.unsent /\ ack' = ack
        /\ \A b \in Attempts \ {a} : frame'[b] = frame[b] /\ client'[b] = client[b]
    BY <1>1, <1>6, <1>13 DEF SendsScript, EndsFailed
  <2>2. ack[a] # "ok" /\ handler[a] \notin Sent
    BY <1>3, <1>13 DEF SendsScript, PairsInv, Together
  <2> QED BY <1>1, <1>4, <2>1, <2>2 DEF HeardInv
<1>14. ASSUME NEW a \in Attempts, HearsOfKey(a) PROVE HeardInv'
  <2>1. client[a] = "waiting" /\ wire' = wire /\ handler' = handler /\ frame' = frame /\ said'.unsent = said.unsent
        /\ ack' = [ack EXCEPT ![a] = "none"]
    BY <1>6, <1>14 DEF HearsOfKey, EndsFailed
  <2>2. \A b \in Attempts : client'[b] # "waiting"
    BY <1>1, <1>5, <2>1, <1>14 DEF HearsOfKey, EndsFailed
  <2>3. ASSUME NEW i \in 1..(keyed'.next - 1) PROVE i \in OnWire \/ i \in said.unsent
    <3>1. CASE Delivered(a)
      <4>1. PICK n \in DOMAIN wire : Head(wire[n]) = keyed.next
        BY <2>1, <3>1 DEF Delivered, HeardInv
      <4>2. keyed' = [keyed EXCEPT !.next = IF keyed.next = 1 /\ keyed.how = "script" THEN Len(keyed.keys) + 1 ELSE keyed.next + 1]
        BY <3>1, <1>14 DEF HearsOfKey
      <4>3. keyed'.next = IF keyed.next = 1 /\ keyed.how = "script" THEN Len(keyed.keys) + 1 ELSE keyed.next + 1
        BY <4>2 DEF AttachTypes
      <4>4. wire[n] \in Sendable /\ Head(wire[n]) \in ToSet(wire[n])
        BY OnWireIs
      <4>5. CASE keyed.how = "script"
        <5>1. keyed.next = 1
          BY <4>4, <4>1, <4>5, SendableIs
        <5>2. i \in 1..Len(keyed.keys)
          BY <1>1, <4>3, <4>5, <5>1
        <5>3. wire[n] = WholeScript /\ DOMAIN keyed.keys = 1..Len(keyed.keys)
          BY <4>4, <4>5, SendableIs, KeysTyped
        <5>4. i \in ToSet(WholeScript)
          BY <5>2, <5>3 DEF ToSet, WholeScript
        <5> QED BY <5>3, <5>4, OnWireIs
      <4>6. CASE keyed.how # "script"
        <5>1. keyed'.next = keyed.next + 1
          BY <4>3, <4>6
        <5>2. i \in 1..(keyed.next - 1) \/ i = keyed.next
          BY <1>1, <5>1
        <5> QED BY <4>1, <4>4, <5>2, OnWireIs DEF HeardInv
      <4> QED BY <4>5, <4>6
    <3>2. CASE ~Delivered(a)
      BY <3>2, <1>14 DEF HearsOfKey, HeardInv
    <3> QED BY <3>1, <3>2
  <2> QED BY <1>2, <1>4, <2>1, <2>2, <2>3 DEF HeardInv
<1>15. ASSUME NEW a \in Attempts, GivesUpOnKey(a) PROVE HeardInv'
  BY <1>1, <1>2, <1>3, <1>4, <1>6, <1>15 DEF GivesUpOnKey, HeardInv
<1>16. ASSUME NEW a \in Attempts, TakesSeat(a) PROVE HeardInv'
  <2>1. client[a] = "asking"
    BY <1>16 DEF TakesSeat, PairsInv, Together, SeatPlaces, Unsent, Sent
  <2> QED BY <1>1, <1>3, <1>4, <2>1, <1>16 DEF TakesSeat, HeardInv
<1>17. ASSUME NEW a \in Attempts, ReadsRequest(a) PROVE HeardInv'
  BY <1>1, <1>2, <1>3, <1>4, <1>17 DEF ReadsRequest, HeardInv
<1>18. ASSUME NEW a \in Attempts, FenceDown(a) PROVE HeardInv'
  BY <1>1, <1>2, <1>3, <1>4, <1>18 DEF FenceDown, HeardInv
<1>19. ASSUME NEW a \in Attempts, WaitsTooLong(a) PROVE HeardInv'
  BY <1>1, <1>2, <1>3, <1>4, <1>19 DEF WaitsTooLong, HeardInv
<1>20. ASSUME NEW a \in Attempts, PutsOnWire(a) PROVE HeardInv'
  <2>1. /\ Len(wire) \in Nat /\ DOMAIN wire = 1..Len(wire) /\ DOMAIN wire' = 1..(Len(wire) + 1)
        /\ \A i \in DOMAIN wire : wire'[i] = wire[i]
        /\ wire'[Len(wire) + 1] = frame[a]
    BY WireGrows, <1>20
  <2>2. /\ keyed' = keyed /\ frame' = frame /\ client' = client /\ said' = said /\ ack' = ack
        /\ handler' = [handler EXCEPT ![a] = "sent"]
    BY <1>20 DEF PutsOnWire
  <2>3. \A i \in DOMAIN wire : i \in DOMAIN wire' /\ wire'[i] = wire[i]
    BY <2>1
  <2>4. Len(wire) + 1 \in DOMAIN wire'
    BY <2>1
  <2>5. OnWire \subseteq OnWire'
    BY <2>3 DEF OnWire
  <2>6. \A b \in Attempts \ {a} : handler'[b] = handler[b]
    BY <1>1, <2>2
  <2> QED BY <2>1, <2>2, <2>3, <2>4, <2>5, <2>6 DEF HeardInv
<1>21. ASSUME NEW a \in Attempts, KeySendRaises(a) PROVE HeardInv'
  BY <1>1, <1>2, <1>3, <1>4, <1>21 DEF KeySendRaises, FailedSendNext, HeardInv
<1>22. ASSUME NEW a \in Attempts, RecordsKey(a) PROVE HeardInv'
  BY <1>1, <1>2, <1>3, <1>4, <1>22 DEF RecordsKey, HeardInv
<1>23. ASSUME NEW a \in Attempts, AnswersKey(a) PROVE HeardInv'
  <2>1. keyed' = keyed /\ wire' = wire /\ client' = client /\ said' = said
        /\ \A b \in Attempts \ {a} : handler'[b] = handler[b] /\ frame'[b] = frame[b] /\ ack'[b] = ack[b]
    BY <1>1, <1>23 DEF AnswersKey
  <2>2. handler'[a] \notin Sent /\ handler[a] \in Sent
    BY <1>1, <1>3, <1>23 DEF AnswersKey
  <2>3. PICK i \in DOMAIN wire : wire[i] = frame[a]
    BY <2>2 DEF HeardInv
  <2>4. client[a] = "waiting" => Head(frame[a]) = keyed.next
    BY <2>2, SendingFrame, SendableIs DEF WaitingInv
  <2> QED BY <1>4, <2>1, <2>2, <2>3, <2>4 DEF HeardInv
<1>24. ASSUME NEW a \in Attempts, HearsEnd(a) PROVE HeardInv'
  BY <1>1, <1>2, <1>3, <1>4, <1>24 DEF HearsEnd, HeardInv
<1>25. ASSUME NEW a \in Attempts, Released(a) PROVE HeardInv'
  BY <1>1, <1>2, <1>3, <1>4, <1>25 DEF Released, SeatAfter, HeardInv
<1>26. ASSUME RunBegins PROVE HeardInv'
  BY <1>1, <1>2, <1>3, <1>4, <1>26 DEF RunBegins, HeardInv
<1>27. ASSUME RunUnwinds PROVE HeardInv'
  BY <1>1, <1>2, <1>3, <1>4, <1>27 DEF RunUnwinds, HeardInv
<1>28. ASSUME ConnectionLost PROVE HeardInv'
  BY <1>1, <1>2, <1>3, <1>4, <1>28 DEF ConnectionLost, HeardInv
<1>29. ASSUME Replayed PROVE HeardInv'
  BY <1>1, <1>2, <1>3, <1>4, <1>29 DEF Replayed, HeardInv
<1>30. ASSUME DaemonKilled PROVE HeardInv'
  BY <1>1, <1>2, <1>3, <1>4, <1>30 DEF DaemonKilled, HeardInv
<1>31. ASSUME DaemonRestarted PROVE HeardInv'
  BY <1>1, <1>2, <1>3, <1>4, <1>31 DEF DaemonRestarted, HeardInv
<1> QED BY <1>7, <1>8, <1>9, <1>10, <1>11, <1>12, <1>13, <1>14, <1>15, <1>16, <1>17, <1>18, <1>19, <1>20, <1>21, <1>22, <1>23, <1>24, <1>25, <1>26, <1>27, <1>28, <1>29, <1>30, <1>31 DEF AttachNext, HandlerStep, ClientStep

\* Who has gone and left a key behind gave up on it.
LEMMA AttachEnded ==
  ASSUME AttachTypes, SeatInv, PairsInv, ClientsInv, WaitingInv, EndedInv, AttachNext
  PROVE  EndedInv'
<1>1. /\ client \in [Attempts -> ClientPlaces] /\ frame \in [Attempts -> Sendable \cup {Nothing}]
      /\ handler \in [Attempts -> {"none", "asked", "gone"} \cup SeatPlaces] /\ ack \in [Attempts -> {"none", "ok", "refused"}]
      /\ keyed.next \in Nat /\ Len(keyed.keys) \in Nat
  BY KeysTyped DEF AttachTypes
<1>2. keyed'.how = keyed.how /\ keyed'.keys = keyed.keys /\ (DOMAIN keyed.keys)' = DOMAIN keyed.keys
      /\ \A i : Encoded(keyed.keys[i])' <=> Encoded(keyed.keys[i])
  BY KeysStay
<1>3. Unsent = {"fence", "unblock", "sending"} /\ Sent = {"sent", "answering"}
      /\ SeatPlaces = {"reading", "leaving", "fence", "unblock", "sending", "sent", "answering"}
  BY DEF Unsent, Sent, SeatPlaces
<1>4. wire' = wire => OnWire' = OnWire
  BY DEF OnWire
<1>5. \A a, b \in Attempts : client[a] \notin {"off", "closed"} /\ client[b] \notin {"off", "closed"} => a = b
  BY OneLive
<1>6. said \in [unsent : SUBSET Nat, timedOut : SUBSET Attempts, failed : SUBSET Attempts]
  BY DEF AttachTypes
<1>7. ASSUME NEW a \in Attempts, AsksToAttach(a) PROVE EndedInv'
  BY <1>1, <1>3, <1>6, <1>7 DEF AsksToAttach, EndedInv, Key, AllPressed
<1>8. ASSUME NEW a \in Attempts, HearsIfAttached(a) PROVE EndedInv'
  <2>1. handler[a] \notin Unsent \cup Sent
    BY <1>3, <1>8 DEF HearsIfAttached, PairsInv, Together
  <2> QED BY <1>1, <1>6, <2>1, <1>8 DEF HearsIfAttached, EndsFailed, EndedInv, Key, AllPressed
<1>9. ASSUME NEW a \in Attempts, SendsKey(a) PROVE EndedInv'
  BY <1>1, <1>3, <1>6, <1>9 DEF SendsKey, EndedInv, Key, AllPressed
<1>10. ASSUME NEW a \in Attempts, RefusesKey(a) PROVE EndedInv'
  <2>1. client' = client /\ handler' = handler /\ said'.timedOut = said.timedOut /\ said'.failed = said.failed /\ Key # "detach"
    BY <1>6, <1>10 DEF RefusesKey
  <2> QED BY <2>1 DEF EndedInv
<1>11. ASSUME NEW a \in Attempts, Detached(a) PROVE EndedInv'
  <2>1. handler[a] \notin Unsent \cup Sent
    BY <1>3, <1>11 DEF Detached, PairsInv, Together
  <2> QED BY <1>1, <2>1, <1>11 DEF Detached, EndedInv, Key, AllPressed
<1>12. ASSUME NEW a \in Attempts, LosesInput(a) PROVE EndedInv'
  <2>1. handler[a] \notin Unsent \cup Sent
    BY <1>3, <1>12 DEF LosesInput, PairsInv, Together
  <2> QED BY <1>1, <1>6, <2>1, <1>12 DEF LosesInput, EndsFailed, EndedInv, Key, AllPressed
<1>13. ASSUME NEW a \in Attempts, SendsScript(a) PROVE EndedInv'
  <2>1. handler[a] \notin Unsent \cup Sent /\ keyed' = keyed /\ handler' = handler
    BY <1>3, <1>13 DEF SendsScript, PairsInv, Together
  <2>2. Key' = Key /\ AllPressed' = AllPressed
    BY <2>1 DEF Key, AllPressed
  <2>3. \/ client' = [client EXCEPT ![a] = "waiting"] /\ said' = said
        \/ client' = [client EXCEPT ![a] = "closed"] /\ said' = [said EXCEPT !.failed = said.failed \cup {a}]
    BY <1>13 DEF SendsScript, EndsFailed
  <2> QED BY <1>1, <1>6, <2>1, <2>2, <2>3 DEF EndedInv
<1>14. ASSUME NEW a \in Attempts, HearsOfKey(a) PROVE EndedInv'
  <2>1. client[a] = "waiting" /\ handler' = handler /\ ~AllPressed /\ (keyed.how # "script" => Key # "detach")
    BY <1>14 DEF HearsOfKey, WaitingInv
  <2>2. ASSUME NEW b \in Attempts, client[b] = "closed" PROVE b \in said.failed
    BY <2>1, <2>2 DEF EndedInv
  <2>3. CASE Delivered(a)
    <3>1. client' = [client EXCEPT ![a] = "reading"] /\ said' = said
      BY <2>3, <1>14 DEF HearsOfKey
    <3> QED BY <1>1, <2>1, <2>2, <3>1 DEF EndedInv
  <2>4. CASE ~Delivered(a)
    <3>1. client' = [client EXCEPT ![a] = "closed"] /\ said' = [said EXCEPT !.failed = @ \cup {a}]
      BY <2>4, <1>14 DEF HearsOfKey, EndsFailed
    <3>2. handler[a] = "gone"
      BY <1>3, <2>4, <1>14 DEF HearsOfKey, Delivered, PairsInv, Together
    <3> QED BY <1>1, <1>3, <1>6, <2>1, <2>2, <3>1, <3>2 DEF EndedInv
  <2> QED BY <2>3, <2>4
<1>15. ASSUME NEW a \in Attempts, GivesUpOnKey(a) PROVE EndedInv'
  BY <1>1, <1>3, <1>6, <1>15 DEF GivesUpOnKey, EndedInv, Key, AllPressed
<1>16. ASSUME NEW a \in Attempts, TakesSeat(a) PROVE EndedInv'
  BY <1>1, <1>3, <1>6, <1>16 DEF TakesSeat, MayTake, EndedInv, Key, AllPressed
<1>17. ASSUME NEW a \in Attempts, ReadsRequest(a) PROVE EndedInv'
  <2>1. client[a] # "closed"
    BY <1>17 DEF ReadsRequest, PairsInv, Together
  <2> QED BY <1>1, <2>1, <1>17 DEF ReadsRequest, EndedInv, Key, AllPressed
<1>18. ASSUME NEW a \in Attempts, FenceDown(a) PROVE EndedInv'
  BY <1>1, <1>3, <1>6, <1>18 DEF FenceDown, EndedInv, Key, AllPressed
<1>19. ASSUME NEW a \in Attempts, WaitsTooLong(a) PROVE EndedInv'
  BY <1>1, <1>3, <1>6, <1>19 DEF WaitsTooLong, EndedInv, Key, AllPressed
<1>20. ASSUME NEW a \in Attempts, PutsOnWire(a) PROVE EndedInv'
  BY <1>1, <1>3, <1>6, <1>20 DEF PutsOnWire, EndedInv, Key, AllPressed
<1>21. ASSUME NEW a \in Attempts, KeySendRaises(a) PROVE EndedInv'
  BY <1>1, <1>3, <1>6, <1>21 DEF KeySendRaises, FailedSendNext, EndedInv, Key, AllPressed
<1>22. ASSUME NEW a \in Attempts, RecordsKey(a) PROVE EndedInv'
  BY <1>1, <1>3, <1>6, <1>22 DEF RecordsKey, EndedInv, Key, AllPressed
<1>23. ASSUME NEW a \in Attempts, AnswersKey(a) PROVE EndedInv'
  BY <1>1, <1>3, <1>6, <1>23 DEF AnswersKey, EndedInv, Key, AllPressed
<1>24. ASSUME NEW a \in Attempts, HearsEnd(a) PROVE EndedInv'
  BY <1>1, <1>3, <1>6, <1>24 DEF HearsEnd, EndedInv, Key, AllPressed
<1>25. ASSUME NEW a \in Attempts, Released(a) PROVE EndedInv'
  BY <1>1, <1>3, <1>6, <1>25 DEF Released, SeatAfter, EndedInv, Key, AllPressed
<1>26. ASSUME RunBegins PROVE EndedInv'
  BY <1>1, <1>3, <1>6, <1>26 DEF RunBegins, EndedInv, Key, AllPressed
<1>27. ASSUME RunUnwinds PROVE EndedInv'
  BY <1>1, <1>3, <1>6, <1>27 DEF RunUnwinds, EndedInv, Key, AllPressed
<1>28. ASSUME ConnectionLost PROVE EndedInv'
  BY <1>1, <1>3, <1>6, <1>28 DEF ConnectionLost, EndedInv, Key, AllPressed
<1>29. ASSUME Replayed PROVE EndedInv'
  BY <1>1, <1>3, <1>6, <1>29 DEF Replayed, EndedInv, Key, AllPressed
<1>30. ASSUME DaemonKilled PROVE EndedInv'
  BY <1>1, <1>3, <1>6, <1>30 DEF DaemonKilled, EndedInv, Key, AllPressed
<1>31. ASSUME DaemonRestarted PROVE EndedInv'
  BY <1>1, <1>3, <1>6, <1>31 DEF DaemonRestarted, EndedInv, Key, AllPressed
<1> QED BY <1>7, <1>8, <1>9, <1>10, <1>11, <1>12, <1>13, <1>14, <1>15, <1>16, <1>17, <1>18, <1>19, <1>20, <1>21, <1>22, <1>23, <1>24, <1>25, <1>26, <1>27, <1>28, <1>29, <1>30, <1>31 DEF AttachNext, HandlerStep, ClientStep

\* Nothing is sent twice, nothing is ahead of what was answered, while nobody was told wrongly.
LEMMA AttachFaultless ==
  ASSUME AttachTypes, SeatInv, PairsInv, ClientsInv, WaitingInv, PendingInv, EndedInv, FaultlessInv, AttachNext
  PROVE  FaultlessInv'
<1>1. /\ client \in [Attempts -> ClientPlaces] /\ frame \in [Attempts -> Sendable \cup {Nothing}]
      /\ handler \in [Attempts -> {"none", "asked", "gone"} \cup SeatPlaces] /\ ack \in [Attempts -> {"none", "ok", "refused"}]
      /\ keyed.next \in Nat /\ Len(keyed.keys) \in Nat
  BY KeysTyped DEF AttachTypes
<1>2. keyed'.how = keyed.how /\ keyed'.keys = keyed.keys /\ (DOMAIN keyed.keys)' = DOMAIN keyed.keys
      /\ \A i : Encoded(keyed.keys[i])' <=> Encoded(keyed.keys[i])
  BY KeysStay
<1>3. Unsent = {"fence", "unblock", "sending"} /\ Sent = {"sent", "answering"}
      /\ SeatPlaces = {"reading", "leaving", "fence", "unblock", "sending", "sent", "answering"}
  BY DEF Unsent, Sent, SeatPlaces
<1>4. wire' = wire => OnWire' = OnWire
  BY DEF OnWire
<1>5. \A a, b \in Attempts : client[a] \notin {"off", "closed"} /\ client[b] \notin {"off", "closed"} => a = b
  BY OneLive
<1>6. said \in [unsent : SUBSET Nat, timedOut : SUBSET Attempts, failed : SUBSET Attempts]
  BY DEF AttachTypes
<1>7. hosted \in [up : BOOLEAN, seat : Attempts \cup {0}, run : {"none", "running", "fenced"}, online : BOOLEAN,
                  last : Seq(Nat), kills : Nat, replays : Nat]
  BY DEF AttachTypes
<1>8. \A i \in OnWire : i \in Nat /\ i <= Len(keyed.keys)
  BY OnWireIs, KeysTyped
<1>9. ASSUME NEW a \in Attempts, AsksToAttach(a) PROVE FaultlessInv'
  BY <1>1, <1>3, <1>4, <1>6, <1>7, <1>9 DEF AsksToAttach, FaultlessInv, Faultless, StillUnheard
<1>10. ASSUME NEW a \in Attempts, HearsIfAttached(a) PROVE FaultlessInv'
  <2>1. client[a] = "asking" /\ keyed' = keyed /\ wire' = wire /\ handler' = handler /\ hosted' = hosted
        /\ said'.timedOut = said.timedOut
    BY <1>6, <1>10 DEF HearsIfAttached, EndsFailed
  <2>2. \A b \in Attempts \ {a} : client'[b] = client[b] /\ ack'[b] = ack[b]
    BY <1>1, <1>10 DEF HearsIfAttached, EndsFailed
  <2>3. client'[a] # "waiting"
    BY <1>1, <1>10 DEF HearsIfAttached, EndsFailed
  <2> QED BY <1>4, <2>1, <2>2, <2>3 DEF FaultlessInv, Faultless, StillUnheard
<1>11. ASSUME NEW a \in Attempts, SendsKey(a) PROVE FaultlessInv'
  <2>1. client[a] = "reading" /\ keyed' = keyed /\ wire' = wire /\ handler' = handler /\ hosted' = hosted
        /\ said' = said /\ ack' = ack /\ \A b \in Attempts \ {a} : client'[b] = client[b]
    BY <1>1, <1>11 DEF SendsKey
  <2>2. ack[a] # "ok" /\ handler[a] \notin Sent
    BY <1>3, <1>11 DEF SendsKey, PairsInv, Together
  <2> QED BY <1>4, <2>1, <2>2 DEF FaultlessInv, Faultless, StillUnheard
<1>12. ASSUME NEW a \in Attempts, RefusesKey(a) PROVE FaultlessInv'
  <2>1. keyed' = [keyed EXCEPT !.next = keyed.next + 1] /\ said'.timedOut = said.timedOut
        /\ wire' = wire /\ client' = client /\ handler' = handler /\ ack' = ack /\ hosted' = hosted
    BY <1>6, <1>12 DEF RefusesKey
  <2>2. keyed'.next = keyed.next + 1
    BY <2>1 DEF AttachTypes
  <2> QED BY <1>1, <1>4, <1>8, <2>1, <2>2 DEF FaultlessInv, Faultless, StillUnheard
<1>13. ASSUME NEW a \in Attempts, Detached(a) PROVE FaultlessInv'
  BY <1>1, <1>3, <1>4, <1>6, <1>7, <1>13 DEF Detached, FaultlessInv, Faultless, StillUnheard
<1>14. ASSUME NEW a \in Attempts, LosesInput(a) PROVE FaultlessInv'
  BY <1>1, <1>3, <1>4, <1>6, <1>7, <1>14 DEF LosesInput, EndsFailed, FaultlessInv, Faultless, StillUnheard
<1>15. ASSUME NEW a \in Attempts, SendsScript(a) PROVE FaultlessInv'
  <2>1. client[a] = "reading" /\ keyed' = keyed /\ wire' = wire /\ handler' = handler /\ hosted' = hosted
        /\ said'.timedOut = said.timedOut /\ ack' = ack /\ \A b \in Attempts \ {a} : client'[b] = client[b]
    BY <1>1, <1>6, <1>15 DEF SendsScript, EndsFailed
  <2>2. ack[a] # "ok" /\ handler[a] \notin Sent
    BY <1>3, <1>15 DEF SendsScript, PairsInv, Together
  <2> QED BY <1>4, <2>1, <2>2 DEF FaultlessInv, Faultless, StillUnheard
<1>16. ASSUME NEW a \in Attempts, HearsOfKey(a) PROVE FaultlessInv'
  <2>1. client[a] = "waiting" /\ wire' = wire /\ handler' = handler /\ hosted' = hosted /\ said'.timedOut = said.timedOut
    BY <1>6, <1>16 DEF HearsOfKey, EndsFailed
  <2>2. CASE Delivered(a)
    <3>1. keyed' = [keyed EXCEPT !.next = IF keyed.next = 1 /\ keyed.how = "script" THEN Len(keyed.keys) + 1 ELSE keyed.next + 1]
      BY <2>2, <1>16 DEF HearsOfKey
    <3>2. keyed'.next = IF keyed.next = 1 /\ keyed.how = "script" THEN Len(keyed.keys) + 1 ELSE keyed.next + 1
      BY <3>1 DEF AttachTypes
    <3>3. keyed.how = "script" => keyed.next = 1
      <4>1. ~AllPressed
        BY <2>1 DEF WaitingInv
      <4> QED BY <1>1, <4>1 DEF WaitingInv, AllPressed
    <3>4. \A i \in OnWire : i < keyed'.next
      <4>1. CASE keyed.how = "script"
        BY <1>1, <1>8, <3>2, <3>3, <4>1
      <4>2. CASE keyed.how # "script"
        <5>1. \A i \in DOMAIN wire : Last(wire[i]) <= keyed.next /\ Last(wire[i]) \in Nat
          BY <4>2, OnWireIs, SendableIs DEF PendingInv
        <5>2. \A i \in OnWire : \E n \in DOMAIN wire : i <= Last(wire[n])
          BY OnWireIs
        <5>3. \A i \in OnWire : i <= keyed.next
          BY <1>1, <1>8, <5>1, <5>2
        <5> QED BY <1>1, <1>8, <3>2, <4>2, <5>3
      <4> QED BY <4>1, <4>2
    <3> QED BY <1>4, <2>1, <3>4 DEF FaultlessInv, Faultless
  <2>3. CASE ~Delivered(a)
    <3>1. keyed' = keyed /\ client' = [client EXCEPT ![a] = "closed"] /\ ack' = [ack EXCEPT ![a] = "none"]
      BY <2>3, <1>16 DEF HearsOfKey, EndsFailed
    <3>2. handler[a] = "gone" /\ ack[a] # "ok"
      BY <1>3, <2>3, <1>16 DEF HearsOfKey, Delivered, PairsInv, Together
    <3> QED BY <1>1, <1>3, <1>4, <2>1, <3>1, <3>2 DEF FaultlessInv, Faultless, StillUnheard
  <2> QED BY <2>2, <2>3
<1>17. ASSUME NEW a \in Attempts, GivesUpOnKey(a) PROVE FaultlessInv'
  <2>1. a \in said'.timedOut
    BY <1>6, <1>17 DEF GivesUpOnKey
  <2> QED BY <2>1 DEF FaultlessInv, Faultless
<1>18. ASSUME NEW a \in Attempts, TakesSeat(a) PROVE FaultlessInv'
  <2>1. client[a] = "asking"
    BY <1>18 DEF TakesSeat, PairsInv, Together, SeatPlaces, Unsent, Sent
  <2>2. keyed' = keyed /\ wire' = wire /\ client' = client /\ said' = said /\ hosted'.kills = hosted.kills
        /\ \A b \in Attempts \ {a} : ack'[b] = ack[b] /\ handler'[b] = handler[b]
    BY <1>1, <1>7, <1>18 DEF TakesSeat
  <2> QED BY <1>4, <2>1, <2>2 DEF FaultlessInv, Faultless, StillUnheard
<1>19. ASSUME NEW a \in Attempts, ReadsRequest(a) PROVE FaultlessInv'
  BY <1>1, <1>3, <1>4, <1>6, <1>7, <1>19 DEF ReadsRequest, FaultlessInv, Faultless, StillUnheard
<1>20. ASSUME NEW a \in Attempts, FenceDown(a) PROVE FaultlessInv'
  BY <1>1, <1>3, <1>4, <1>6, <1>7, <1>20 DEF FenceDown, FaultlessInv, Faultless, StillUnheard
<1>21. ASSUME NEW a \in Attempts, WaitsTooLong(a) PROVE FaultlessInv'
  BY <1>1, <1>3, <1>4, <1>6, <1>7, <1>21 DEF WaitsTooLong, FaultlessInv, Faultless, StillUnheard
<1>22. ASSUME NEW a \in Attempts, PutsOnWire(a) PROVE FaultlessInv'
  <2> SUFFICES ASSUME Faultless'
               PROVE  /\ (\A b \in Attempts : ~StillUnheard(b)') => \A i \in OnWire' : i < keyed'.next
                      /\ \A i, j \in DOMAIN wire' : i < j => Last(wire'[i]) < Head(wire'[j])
    BY DEF FaultlessInv
  <2> DEFINE n == Len(wire)
  <2>1. /\ frame[a] \in Sendable /\ n \in Nat /\ DOMAIN wire = 1..n /\ DOMAIN wire' = 1..(n + 1)
        /\ \A i \in DOMAIN wire : wire'[i] = wire[i]
        /\ wire'[n + 1] = frame[a]
    BY WireGrows, <1>22
  <2>2. /\ handler[a] = "sending" /\ keyed' = keyed /\ frame' = frame /\ client' = client /\ ack' = ack /\ said' = said
        /\ hosted'.kills = hosted.kills /\ handler' = [handler EXCEPT ![a] = "sent"]
    BY <1>7, <1>22 DEF PutsOnWire
  <2>3. Faultless
    BY <2>2 DEF Faultless
  <2>4. client[a] # "closed"
    BY <1>3, <2>2, <2>3 DEF EndedInv, Faultless
  <2>5. client[a] = "waiting" /\ ack[a] # "ok"
    BY <2>2, <2>4 DEF PairsInv, Together
  <2>6. StillUnheard(a)'
    BY <1>1, <1>3, <2>2, <2>5 DEF StillUnheard
  <2>7. \A b \in Attempts : ~StillUnheard(b)
    BY <1>3, <1>5, <2>2, <2>5 DEF StillUnheard
  <2>8. \A i \in OnWire : i < keyed.next
    BY <2>3, <2>7 DEF FaultlessInv
  <2>9. Head(frame[a]) = keyed.next
    BY <2>1, <2>5, SendableIs DEF WaitingInv
  <2>10. \A i \in DOMAIN wire : Last(wire[i]) < Head(frame[a])
    BY <2>8, <2>9, OnWireIs
  <2> HIDE DEF n
  <2>11. ASSUME NEW i \in 1..(n + 1), NEW j \in 1..(n + 1), i < j PROVE Last(wire'[i]) < Head(wire'[j])
    <3>1. i \in 1..n /\ wire'[i] = wire[i]
      BY <2>1, <2>11
    <3>2. CASE j = n + 1
      BY <2>1, <2>10, <3>1, <3>2
    <3>3. CASE j # n + 1
      <4>1. j \in 1..n /\ wire'[j] = wire[j]
        BY <2>1, <3>3
      <4> QED BY <2>1, <2>3, <2>11, <3>1, <4>1 DEF FaultlessInv
    <3> QED BY <3>2, <3>3
  <2> QED BY <2>1, <2>6, <2>11
<1>23. ASSUME NEW a \in Attempts, KeySendRaises(a) PROVE FaultlessInv'
  BY <1>1, <1>3, <1>4, <1>6, <1>7, <1>23 DEF KeySendRaises, FailedSendNext, FaultlessInv, Faultless, StillUnheard
<1>24. ASSUME NEW a \in Attempts, RecordsKey(a) PROVE FaultlessInv'
  BY <1>1, <1>3, <1>4, <1>6, <1>7, <1>24 DEF RecordsKey, FaultlessInv, Faultless, StillUnheard
<1>25. ASSUME NEW a \in Attempts, AnswersKey(a) PROVE FaultlessInv'
  <2>1. keyed' = keyed /\ wire' = wire /\ client' = client /\ said' = said /\ hosted' = hosted /\ handler[a] = "answering"
        /\ \A b \in Attempts \ {a} : handler'[b] = handler[b] /\ ack'[b] = ack[b]
    BY <1>1, <1>25 DEF AnswersKey
  <2>2. client[a] = "closed" => a \in said.timedOut
    BY <1>3, <2>1 DEF EndedInv
  <2>3. client[a] # "closed" => ack'[a] = "ok"
    BY <1>1, <1>25 DEF AnswersKey
  <2> QED BY <1>3, <1>4, <2>1, <2>2, <2>3 DEF FaultlessInv, Faultless, StillUnheard
<1>26. ASSUME NEW a \in Attempts, HearsEnd(a) PROVE FaultlessInv'
  BY <1>1, <1>3, <1>4, <1>6, <1>7, <1>26 DEF HearsEnd, FaultlessInv, Faultless, StillUnheard
<1>27. ASSUME NEW a \in Attempts, Released(a) PROVE FaultlessInv'
  BY <1>1, <1>3, <1>4, <1>6, <1>7, <1>27 DEF Released, SeatAfter, FaultlessInv, Faultless, StillUnheard
<1>28. ASSUME RunBegins PROVE FaultlessInv'
  BY <1>1, <1>3, <1>4, <1>6, <1>7, <1>28 DEF RunBegins, FaultlessInv, Faultless, StillUnheard
<1>29. ASSUME RunUnwinds PROVE FaultlessInv'
  BY <1>1, <1>3, <1>4, <1>6, <1>7, <1>29 DEF RunUnwinds, FaultlessInv, Faultless, StillUnheard
<1>30. ASSUME ConnectionLost PROVE FaultlessInv'
  BY <1>1, <1>3, <1>4, <1>6, <1>7, <1>30 DEF ConnectionLost, FaultlessInv, Faultless, StillUnheard
<1>31. ASSUME Replayed PROVE FaultlessInv'
  BY <1>1, <1>3, <1>4, <1>6, <1>7, <1>31 DEF Replayed, FaultlessInv, Faultless, StillUnheard
<1>32. ASSUME DaemonKilled PROVE FaultlessInv'
  <2>1. hosted'.kills = hosted.kills + 1 /\ hosted.kills \in Nat
    BY <1>7, <1>32 DEF DaemonKilled
  <2> QED BY <2>1 DEF FaultlessInv, Faultless
<1>33. ASSUME DaemonRestarted PROVE FaultlessInv'
  BY <1>1, <1>3, <1>4, <1>6, <1>7, <1>33 DEF DaemonRestarted, FaultlessInv, Faultless, StillUnheard
<1> QED BY <1>9, <1>10, <1>11, <1>12, <1>13, <1>14, <1>15, <1>16, <1>17, <1>18, <1>19, <1>20, <1>21, <1>22, <1>23, <1>24, <1>25, <1>26, <1>27, <1>28, <1>29, <1>30, <1>31, <1>32, <1>33 DEF AttachNext, HandlerStep, ClientStep


\* A wire on which each request comes after the one before holds none twice.
LEMMA NoneTwice ==
  ASSUME AttachTypes, \A i, j \in DOMAIN wire : i < j => Last(wire[i]) < Head(wire[j])
  PROVE  Cardinality({wire[i] : i \in DOMAIN wire}) = Len(wire)
<1> DEFINE n == Len(wire)
           W == {wire[i] : i \in DOMAIN wire}
           f == [i \in 1..n |-> wire[i]]
<1>1. n \in Nat /\ DOMAIN wire = 1..n /\ \A i \in 1..n : wire[i] \in Sendable
  BY OnWireIs
<1>2. \A i \in 1..n : Head(wire[i]) \in Nat /\ Last(wire[i]) \in Nat /\ Head(wire[i]) <= Last(wire[i])
  <2>1. ASSUME NEW i \in 1..n PROVE Head(wire[i]) \in Nat /\ Last(wire[i]) \in Nat /\ Head(wire[i]) <= Last(wire[i])
    <3>1. wire[i] \in Sendable
      BY <1>1
    <3> DEFINE r == wire[i]
    <3>2. Len(r) > 0 /\ Len(r) \in Nat /\ DOMAIN r = 1..Len(r) /\ Head(r) \in Nat /\ Last(r) \in Nat /\ Last(r) = r[Len(r)]
          /\ \A k \in DOMAIN r : Head(r) <= r[k]
      BY <3>1, SendableIs
    <3> HIDE DEF r
    <3>3. Head(r) <= Last(r)
      BY <3>2
    <3> QED BY <3>2, <3>3 DEF r
  <2> QED BY <2>1
<1> HIDE DEF n
<1>3. \A i, j \in 1..n : wire[i] = wire[j] => i = j
  <2> SUFFICES ASSUME NEW i \in 1..n, NEW j \in 1..n, wire[i] = wire[j], i < j PROVE FALSE
    BY <1>1
  <2> QED BY <1>1, <1>2
<1>4. f \in Bijection(1..n, W)
  BY <1>1, <1>3 DEF Bijection, Injection, Surjection, IsInjective
<1> HIDE DEF W, f
<1>5. Cardinality(1..n) = n /\ IsFiniteSet(1..n)
  BY <1>1, FS_Interval
<1>6. Cardinality(W) = n
  BY <1>4, <1>5, FS_Bijection DEF ExistsBijection
<1> QED BY <1>6 DEF n, W

\* What the books count.
LEMMA BooksCount ==
  ASSUME AttachTypes, SeatInv
  PROVE  /\ ledger.lines \in Seq(Lines) /\ Len(ledger.lines) \in Nat /\ DOMAIN ledger.lines = 1..Len(ledger.lines)
         /\ ledger \in [lines : Seq(Lines), unwritten : Nat] /\ ledger.unwritten \in Nat /\ Len(wire) \in Nat
         /\ IsFiniteSet(RowNrs) /\ Cardinality(RowNrs) \in Nat /\ IsFiniteSet(AppRowNrs) /\ Cardinality(AppRowNrs) \in Nat
         /\ Cardinality(InSent) = (IF InSent = {} THEN 0 ELSE 1) /\ \A a \in InSent : InSent = {a} /\ hosted.seat = a
         /\ Spoiled \in {0, 1} /\ Mistaken \in {0, 1}
<1>1. ledger \in [lines : Seq(Lines), unwritten : Nat]
  BY DEF AttachTypes
<1>2. ledger.lines \in Seq(Lines) /\ ledger.unwritten \in Nat
  BY <1>1
<1>3. Len(ledger.lines) \in Nat /\ DOMAIN ledger.lines = 1..Len(ledger.lines)
  BY <1>2, LenProperties
<1>4. Len(wire) \in Nat
  BY OnWireIs
<1>5. IsFiniteSet(RowNrs) /\ Cardinality(RowNrs) \in Nat
  <2>1. IsFiniteSet(1..Len(ledger.lines))
    BY <1>3, FS_Interval
  <2>2. RowNrs \subseteq 1..Len(ledger.lines)
    BY <1>3 DEF RowNrs
  <2> QED BY <2>1, <2>2, FS_Subset, FS_CardinalityType
<1>6. IsFiniteSet(AppRowNrs) /\ Cardinality(AppRowNrs) \in Nat
  <2>1. AppRowNrs \subseteq RowNrs
    BY DEF AppRowNrs
  <2> QED BY <1>5, <2>1, FS_Subset, FS_CardinalityType
<1>7. \A a \in InSent : InSent = {a} /\ hosted.seat = a
  BY DEF InSent, SeatInv, SeatPlaces, Sent
<1>8. Cardinality(InSent) = (IF InSent = {} THEN 0 ELSE 1)
  <2>1. CASE InSent = {}
    BY <2>1, FS_EmptySet
  <2>2. CASE InSent # {}
    <3>1. PICK a \in InSent : InSent = {a}
      BY <1>7, <2>2
    <3>2. Cardinality({a}) = 1
      BY FS_Singleton
    <3> QED BY <2>2, <3>1, <3>2
  <2> QED BY <2>1, <2>2
<1> QED BY <1>1, <1>2, <1>3, <1>4, <1>5, <1>6, <1>7, <1>8 DEF Spoiled, Mistaken

\* A step that leaves the wire, the file and who is to write into it alone.
LEMMA BooksStand ==
  ASSUME LedgerInv, ledger' = ledger, wire' = wire, InSent' = InSent,
         hosted'.last = hosted.last, hosted'.kills = hosted.kills, hosted'.replays = hosted.replays
  PROVE  LedgerInv'
BY DEF LedgerInv, RowNrs, AppRowNrs, Spoiled, Mistaken, Due

\* What a line appended does to the rows: a row more, unless the file ends torn.
LEMMA RowsAppended ==
  ASSUME AttachTypes, SeatInv, NEW line \in Lines, ledger'.lines = Appended(line)
  PROVE  /\ RowNrs \subseteq RowNrs' /\ \A i \in RowNrs : ledger'.lines[i] = ledger.lines[i]
         /\ Spoiled = 0 /\ line.is = "row" => /\ Cardinality(RowNrs)' = Cardinality(RowNrs) + 1 /\ Spoiled' = 0
                                              /\ \A i \in RowNrs' : i \notin RowNrs => ledger'.lines[i] = line
                                              /\ line.text = AppText => Cardinality(AppRowNrs)' = Cardinality(AppRowNrs) + 1
                                              /\ line.text # AppText => Cardinality(AppRowNrs)' = Cardinality(AppRowNrs)
         /\ Spoiled = 1 \/ line.is # "row" => RowNrs' = RowNrs /\ AppRowNrs' = AppRowNrs
         /\ line.is # "torn" => Spoiled' = 0
<1> DEFINE lines == ledger.lines
           n == Len(lines)
           new == Appended(line)
<1>1. /\ lines \in Seq(Lines) /\ n \in Nat /\ DOMAIN lines = 1..n /\ new \in Seq(Lines) /\ new # <<>>
      /\ Spoiled = 0 => new = Append(lines, line) /\ Last(new) = line
      /\ Spoiled = 1 => /\ n > 0 /\ lines[n] = TornLine /\ Len(new) = n
                        /\ \A i \in 1..(n - 1) : new[i] = lines[i]
                        /\ Last(new) = (IF line = TornLine THEN TornLine ELSE Garbled) /\ new[n] = Last(new)
  BY AppendedIs
<1>2. IsFiniteSet(RowNrs) /\ Cardinality(RowNrs) \in Nat /\ IsFiniteSet(AppRowNrs) /\ Cardinality(AppRowNrs) \in Nat
      /\ Spoiled \in {0, 1}
  BY BooksCount
<1>3. /\ RowNrs = {i \in DOMAIN lines : lines[i].is = "row"} /\ AppRowNrs = {i \in RowNrs : lines[i].text = AppText}
      /\ RowNrs' = {i \in DOMAIN new : new[i].is = "row"} /\ AppRowNrs' = {i \in RowNrs' : new[i].text = AppText}
      /\ ledger'.lines = new
      /\ Spoiled' = IF new # <<>> /\ Last(new) = TornLine THEN 1 ELSE 0
  BY DEF RowNrs, AppRowNrs, Spoiled
<1>4. TornLine.is = "torn" /\ Garbled.is = "garbled"
  BY DEF TornLine, Garbled
<1> HIDE DEF lines, n, new
<1>5. CASE Spoiled = 0
  <2>1. DOMAIN new = 1..(n + 1) /\ new[n + 1] = line /\ (\A i \in 1..n : new[i] = lines[i]) /\ Last(new) = line
    <3>1. Len(new) = n + 1 /\ new[n + 1] = line /\ \A i \in 1..n : new[i] = lines[i]
      BY <1>1, <1>5, AppendProperties DEF n
    <3>2. DOMAIN new = 1..Len(new)
      BY <1>1, LenProperties
    <3> QED BY <1>1, <1>5, <3>1, <3>2
  <2>2. CASE line.is = "row"
    <3>1. RowNrs' = RowNrs \cup {n + 1} /\ n + 1 \notin RowNrs
      BY <1>1, <1>3, <2>1, <2>2
    <3>2. Cardinality(RowNrs)' = Cardinality(RowNrs) + 1
      BY <1>2, <3>1, FS_AddElement
    <3>3. line.text = AppText => AppRowNrs' = AppRowNrs \cup {n + 1} /\ n + 1 \notin AppRowNrs
      BY <1>1, <1>3, <2>1, <3>1
    <3>4. line.text = AppText => Cardinality(AppRowNrs)' = Cardinality(AppRowNrs) + 1
      BY <1>2, <3>3, FS_AddElement
    <3>5. line.text # AppText => AppRowNrs' = AppRowNrs
      BY <1>1, <1>3, <2>1, <3>1
    <3>6. Spoiled' = 0
      BY <1>3, <1>4, <2>1, <2>2
    <3>7. \A i \in RowNrs : ledger'.lines[i] = ledger.lines[i]
      BY <1>1, <1>3, <2>1 DEF lines
    <3>8. \A i \in RowNrs' : i \notin RowNrs => ledger'.lines[i] = line
      BY <1>3, <2>1, <3>1
    <3>9. line.text # AppText => Cardinality(AppRowNrs)' = Cardinality(AppRowNrs)
      BY <3>5
    <3> QED BY <1>5, <2>2, <3>1, <3>2, <3>4, <3>6, <3>7, <3>8, <3>9
  <2>3. CASE line.is # "row"
    <3>1. RowNrs' = RowNrs
      BY <1>1, <1>3, <2>1, <2>3
    <3>2. AppRowNrs' = AppRowNrs
      BY <1>1, <1>3, <2>1, <3>1
    <3>3. \A i \in RowNrs : ledger'.lines[i] = ledger.lines[i]
      BY <1>1, <1>3, <2>1 DEF lines
    <3>4. line.is # "torn" => Spoiled' = 0
      BY <1>3, <1>4, <2>1
    <3> QED BY <1>5, <2>3, <3>1, <3>2, <3>3, <3>4
  <2> QED BY <2>2, <2>3
<1>6. CASE Spoiled = 1
  <2>1. DOMAIN new = 1..n /\ n \in 1..n /\ lines[n].is # "row" /\ new[n].is # "row" /\ \A i \in 1..(n - 1) : new[i] = lines[i]
    <3>1. DOMAIN new = 1..Len(new)
      BY <1>1, LenProperties
    <3> QED BY <1>1, <1>4, <1>6, <3>1
  <2>2. RowNrs' = RowNrs /\ \A i \in RowNrs : i \in 1..(n - 1)
    BY <1>1, <1>3, <2>1
  <2>3. AppRowNrs' = AppRowNrs
    BY <1>3, <2>1, <2>2
  <2>4. \A i \in RowNrs : ledger'.lines[i] = ledger.lines[i]
    BY <1>3, <2>1, <2>2 DEF lines
  <2>5. line.is # "torn" => Spoiled' = 0
    <3>1. line.is # "torn" => line # TornLine
      BY <1>4
    <3>2. line # TornLine => Last(new) = Garbled
      BY <1>1, <1>6
    <3>3. Garbled # TornLine
      BY <1>4
    <3> QED BY <1>3, <3>1, <3>2, <3>3
  <2> QED BY <1>6, <2>2, <2>3, <2>4, <2>5
<1> QED BY <1>2, <1>5, <1>6

\* The books of the ledger hold, whatever fails.
LEMMA AttachLedger ==
  ASSUME AttachTypes, SeatInv, PairsInv, LedgerInv, AttachNext
  PROVE  LedgerInv'
<1>1. /\ handler \in [Attempts -> {"none", "asked", "gone"} \cup SeatPlaces]
      /\ hosted \in [up : BOOLEAN, seat : Attempts \cup {0}, run : {"none", "running", "fenced"}, online : BOOLEAN,
                     last : Seq(Nat), kills : Nat, replays : Nat]
  BY DEF AttachTypes
<1>2. /\ ledger \in [lines : Seq(Lines), unwritten : Nat] /\ ledger.unwritten \in Nat /\ Len(wire) \in Nat
      /\ Cardinality(RowNrs) \in Nat /\ Cardinality(AppRowNrs) \in Nat
      /\ Cardinality(InSent) = (IF InSent = {} THEN 0 ELSE 1) /\ \A a \in InSent : InSent = {a} /\ hosted.seat = a
      /\ Spoiled \in {0, 1} /\ Mistaken \in {0, 1} /\ hosted.kills \in Nat /\ hosted.replays \in Nat
  BY <1>1, BooksCount
<1>3. /\ Cardinality(RowNrs) <= Due /\ Due + Spoiled <= Cardinality(RowNrs) + 2 * hosted.kills
      /\ \A i \in RowNrs : ledger.lines[i].text \in ToSet(wire) \cup {AppText}
      /\ InSent # {} => hosted.last \in ToSet(wire) \cup {AppText}
      /\ Cardinality(AppRowNrs) + Mistaken <= hosted.replays
      /\ Due = Len(wire) - ledger.unwritten - Cardinality(InSent)
  BY DEF LedgerInv, Due
<1>0. Due \in Int /\ 2 * hosted.kills \in Nat /\ Cardinality(InSent) \in {0, 1}
  <2>1. Cardinality(InSent) = 0 \/ Cardinality(InSent) = 1
    BY <1>2
  <2>2. hosted.kills \in Nat /\ Len(wire) \in Nat /\ ledger.unwritten \in Nat /\ Due = Len(wire) - ledger.unwritten - Cardinality(InSent)
    BY <1>2, <1>3
  <2>3. Due \in Int
    BY <2>1, <2>2
  <2>4. 2 * hosted.kills \in Nat
    BY <2>2
  <2> QED BY <2>1, <2>3, <2>4
<1> DEFINE Stands == /\ ledger' = ledger /\ wire' = wire /\ InSent' = InSent
                     /\ hosted'.last = hosted.last /\ hosted'.kills = hosted.kills /\ hosted'.replays = hosted.replays
<1>4. ASSUME NEW a \in Attempts, ClientStep(a) PROVE Stands
  <2>1. ledger' = ledger /\ wire' = wire /\ hosted' = hosted /\ (AsksToAttach(a) \/ handler' = handler)
    BY <1>4 DEF ClientStep, HearsIfAttached, SendsKey, RefusesKey, Detached, LosesInput, SendsScript, HearsOfKey,
                GivesUpOnKey, AsksToAttach
  <2>2. AsksToAttach(a) => handler[a] # "sent" /\ handler' = [handler EXCEPT ![a] = "asked"]
    BY DEF AsksToAttach, PairsInv, Together
  <2> QED BY <1>1, <2>1, <2>2 DEF InSent
<1>5. ASSUME NEW a \in Attempts, HandlerStep(a), ~PutsOnWire(a), ~RecordsKey(a) PROVE Stands
  <2>1. ledger' = ledger /\ wire' = wire
    BY <1>5 DEF HandlerStep, TakesSeat, ReadsRequest, FenceDown, WaitsTooLong, KeySendRaises, AnswersKey, HearsEnd, Released
  <2>2. hosted'.last = hosted.last /\ hosted'.kills = hosted.kills /\ hosted'.replays = hosted.replays
    BY <1>1, <1>5 DEF HandlerStep, TakesSeat, ReadsRequest, FenceDown, WaitsTooLong, KeySendRaises, AnswersKey, HearsEnd, Released
  <2>3. handler[a] # "sent" /\ \E h \in {"reading", "gone", "fence", "sending", "unblock", "leaving"} : handler' = [handler EXCEPT ![a] = h]
    BY <1>1, <1>5 DEF HandlerStep, TakesSeat, ReadsRequest, FenceDown, WaitsTooLong, KeySendRaises, FailedSendNext, AnswersKey, HearsEnd, Released
  <2>4. InSent' = InSent
    BY <1>1, <2>3 DEF InSent
  <2> QED BY <2>1, <2>2, <2>4
<1>6. ASSUME RunBegins \/ RunUnwinds \/ ConnectionLost PROVE Stands
  BY <1>1, <1>6 DEF RunBegins, RunUnwinds, ConnectionLost, InSent
<1>7. Stands => LedgerInv'
  BY BooksStand
<1>8. ASSUME NEW a \in Attempts, PutsOnWire(a) PROVE LedgerInv'
  <2>1. /\ Len(wire') = Len(wire) + 1 /\ frame[a] \in Sendable /\ DOMAIN wire = 1..Len(wire) /\ DOMAIN wire' = 1..(Len(wire) + 1)
        /\ wire'[Len(wire) + 1] = frame[a] /\ \A i \in DOMAIN wire : wire'[i] = wire[i]
    BY WireGrows, <1>8
  <2>2. ToSet(wire) \subseteq ToSet(wire') /\ frame[a] \in ToSet(wire')
    BY <1>2, <2>1 DEF ToSet
  <2>3. /\ handler[a] = "sending" /\ ledger' = ledger /\ handler' = [handler EXCEPT ![a] = "sent"]
        /\ hosted'.last = frame[a] /\ hosted'.kills = hosted.kills /\ hosted'.replays = hosted.replays
    BY <1>1, <1>8 DEF PutsOnWire
  <2>4. InSent = {} /\ InSent' = {a}
    BY <1>1, <2>3 DEF InSent, SeatInv, SeatPlaces, Unsent, Sent
  <2>5. RowNrs' = RowNrs /\ AppRowNrs' = AppRowNrs /\ Spoiled' = Spoiled
    BY <2>3 DEF RowNrs, AppRowNrs, Spoiled
  <2>6. Mistaken' = 0
    BY <2>1, <2>3, SendableIs DEF Mistaken
  <2>7. Cardinality(InSent') = 1 /\ Cardinality(InSent) = 0
    BY <1>2, <2>4, FS_Singleton
  <2>8. Due' = Due
    BY <1>2, <1>3, <2>1, <2>3, <2>7 DEF Due
  <2>9. Cardinality(RowNrs)' = Cardinality(RowNrs) /\ Cardinality(AppRowNrs)' = Cardinality(AppRowNrs)
    BY <2>5
  <2> HIDE DEF Stands
  <2>10. Cardinality(RowNrs') <= Due' /\ Due' + Spoiled' <= Cardinality(RowNrs') + 2 * hosted'.kills
    BY <1>3, <2>3, <2>5, <2>8
  <2>11. \A i \in RowNrs' : ledger'.lines[i].text \in ToSet(wire') \cup {AppText}
    BY <1>3, <2>2, <2>3, <2>5
  <2>12. hosted'.last \in ToSet(wire') \cup {AppText}
    BY <2>2, <2>3
  <2>13. Cardinality(AppRowNrs') + Mistaken' <= hosted'.replays
    BY <1>2, <1>3, <2>3, <2>5, <2>6, SMTT(30)
  <2> QED BY <2>10, <2>11, <2>12, <2>13 DEF LedgerInv
<1>9. ASSUME NEW a \in Attempts, RecordsKey(a) PROVE LedgerInv'
  <2>1. handler[a] = "sent" /\ handler' = [handler EXCEPT ![a] = "answering"] /\ wire' = wire /\ hosted' = hosted
    BY <1>9 DEF RecordsKey
  <2>2. InSent = {a} /\ InSent' = {}
    <3>1. InSent = {a}
      BY <1>2, <2>1 DEF InSent
    <3> QED BY <1>1, <2>1, <3>1 DEF InSent
  <2>3. Cardinality(InSent) = 1 /\ Cardinality(InSent') = 0 /\ Mistaken' = 0
    BY <1>2, <2>2, FS_EmptySet DEF Mistaken
  <2>4. CASE ledger' = [ledger EXCEPT !.unwritten = @ + 1]
    <3>1. ledger'.lines = ledger.lines /\ ledger'.unwritten = ledger.unwritten + 1
      BY <1>2, <2>4
    <3>2. RowNrs' = RowNrs /\ AppRowNrs' = AppRowNrs /\ Spoiled' = Spoiled
      BY <3>1 DEF RowNrs, AppRowNrs, Spoiled
    <3>3. Due' = Due
      BY <1>2, <1>3, <2>1, <2>3, <3>1, SMTT(30) DEF Due
    <3>4. hosted' = hosted /\ ~(InSent' # {}) /\ Cardinality(RowNrs)' = Cardinality(RowNrs) /\ Cardinality(AppRowNrs)' = Cardinality(AppRowNrs)
      BY <2>1, <2>2, <3>2
    <3>5. Cardinality(AppRowNrs)' + Mistaken' <= hosted'.replays
      <4>1. Cardinality(AppRowNrs) + Mistaken <= hosted.replays /\ Cardinality(AppRowNrs) \in Nat /\ Mistaken \in Nat /\ hosted.replays \in Nat
        BY <1>2, <1>3
      <4> HIDE DEF Mistaken
      <4>2. Cardinality(AppRowNrs)' = Cardinality(AppRowNrs) /\ Mistaken' = 0 /\ hosted'.replays = hosted.replays
        BY <2>3, <3>4
      <4> QED
        BY <4>1, <4>2
    <3>6. \A i \in RowNrs' : ledger'.lines[i].text \in ToSet(wire') \cup {AppText}
      BY <1>3, <2>1, <3>1, <3>2
    <3> HIDE DEF Stands
    <3> QED BY <1>3, <3>2, <3>3, <3>4, <3>5, <3>6 DEF LedgerInv
  <2>5. CASE ledger' = [ledger EXCEPT !.lines = Appended(RowOf(hosted.last))]
    <3> DEFINE line == RowOf(hosted.last)
    <3>1. line \in Lines /\ line.is = "row" /\ line.text = hosted.last
      BY <1>1 DEF Lines, RowOf
    <3>2. ledger'.lines = Appended(line) /\ ledger'.unwritten = ledger.unwritten
      BY <1>2, <2>5
    <3>3. Due' = Due + 1
      BY <1>2, <1>3, <2>1, <2>3, <3>2 DEF Due
    <3>4. hosted.last \in ToSet(wire) \cup {AppText}
      BY <1>3, <2>2
    <3> HIDE DEF line
    <3>5. /\ RowNrs \subseteq RowNrs' /\ \A i \in RowNrs : ledger'.lines[i] = ledger.lines[i]
          /\ Spoiled = 0 => /\ Cardinality(RowNrs)' = Cardinality(RowNrs) + 1 /\ Spoiled' = 0
                            /\ \A i \in RowNrs' : i \notin RowNrs => ledger'.lines[i] = line
                            /\ line.text = AppText => Cardinality(AppRowNrs)' = Cardinality(AppRowNrs) + 1
                            /\ line.text # AppText => Cardinality(AppRowNrs)' = Cardinality(AppRowNrs)
          /\ Spoiled = 1 => RowNrs' = RowNrs /\ AppRowNrs' = AppRowNrs
          /\ Spoiled' = 0
      BY <3>1, <3>2, RowsAppended
    <3>6. \A i \in RowNrs' : ledger'.lines[i].text \in ToSet(wire') \cup {AppText}
      BY <1>2, <1>3, <2>1, <3>1, <3>4, <3>5
    <3>7. hosted.last = AppText => Mistaken = 1
      BY <2>2 DEF Mistaken
    <3>8. Cardinality(RowNrs)' <= Due' /\ Due' + Spoiled' <= Cardinality(RowNrs)' + 2 * hosted.kills
      <4>1. CASE Spoiled = 0
        <5>1. Cardinality(RowNrs)' = Cardinality(RowNrs) + 1 /\ Spoiled' = 0
          BY <3>5, <4>1
        <5> HIDE DEF Stands
        <5>2. Cardinality(RowNrs) \in Nat /\ Cardinality(RowNrs) <= Due /\ Due + Spoiled <= Cardinality(RowNrs) + 2 * hosted.kills
          BY <1>2, <1>3
        <5> QED BY <1>0, <3>3, <4>1, <5>1, <5>2
      <4>2. CASE Spoiled = 1
        <5>1. Cardinality(RowNrs)' = Cardinality(RowNrs) /\ Spoiled' = 0
          BY <3>5, <4>2
        <5>2. Cardinality(RowNrs) \in Nat /\ Cardinality(RowNrs) <= Due /\ Due + Spoiled <= Cardinality(RowNrs) + 2 * hosted.kills
          BY <1>2, <1>3
        <5> QED BY <1>0, <3>3, <4>2, <5>1, <5>2
      <4> QED BY <1>2, <4>1, <4>2
    <3>9. Cardinality(AppRowNrs)' <= hosted.replays
      <4>1. CASE Spoiled = 0 /\ hosted.last = AppText
        <5>1. Cardinality(AppRowNrs)' = Cardinality(AppRowNrs) + 1
          BY <3>1, <3>5, <4>1
        <5> QED BY <1>2, <1>3, <3>7, <4>1, <5>1
      <4>2. CASE Spoiled = 1 \/ hosted.last # AppText
        <5>1. Cardinality(AppRowNrs)' = Cardinality(AppRowNrs)
          BY <1>2, <3>1, <3>5, <4>2
        <5> QED BY <1>2, <1>3, <5>1, SMTT(30)
      <4> QED BY <1>2, <4>1, <4>2
    <3>10. Cardinality(AppRowNrs)' + Mistaken' <= hosted'.replays
      <4>1. Cardinality(AppRowNrs)' \in Nat
        BY <1>2, <3>1, <3>5
      <4> QED BY <2>1, <2>3, <3>9, <4>1
    <3>11. hosted'.kills = hosted.kills /\ ~(InSent' # {})
      BY <2>1, <2>2
    <3> HIDE DEF Stands
    <3> QED BY <3>6, <3>8, <3>10, <3>11 DEF LedgerInv
  <2> QED BY <2>4, <2>5, <1>9 DEF RecordsKey
<1>10. ASSUME DaemonKilled PROVE LedgerInv'
  <2>1. /\ hosted'.kills = hosted.kills + 1 /\ hosted'.replays = hosted.replays /\ wire' = wire
        /\ \A a \in Attempts : handler'[a] # "sent"
    BY <1>1, <1>10 DEF DaemonKilled
  <2>2. InSent' = {} /\ Cardinality(InSent') = 0 /\ Mistaken' = 0
    BY <2>1, FS_EmptySet DEF InSent, Mistaken
  <2>3. ledger'.unwritten = ledger.unwritten /\ RowNrs' = RowNrs /\ AppRowNrs' = AppRowNrs
        /\ \A i \in RowNrs : ledger'.lines[i] = ledger.lines[i]
    <3>1. CASE ledger' = ledger
      BY <3>1 DEF RowNrs, AppRowNrs
    <3>2. CASE ledger' = [ledger EXCEPT !.lines = Appended(TornLine)]
      <4>1. ledger'.lines = Appended(TornLine) /\ ledger'.unwritten = ledger.unwritten
        BY <1>2, <3>2
      <4>2. TornLine \in Lines /\ TornLine.is # "row"
        BY DEF TornLine, Lines, Nothing
      <4> QED BY <4>1, <4>2, RowsAppended
    <3> QED BY <3>1, <3>2, <1>10 DEF DaemonKilled
  <2>4. Due' = Due + Cardinality(InSent) /\ Cardinality(InSent) \in {0, 1} /\ Spoiled' \in {0, 1}
    BY <1>2, <1>3, <2>1, <2>2, <2>3 DEF Due, Spoiled
  <2>5. Cardinality(RowNrs)' = Cardinality(RowNrs) /\ Cardinality(AppRowNrs)' = Cardinality(AppRowNrs)
    BY <2>3
  <2>6. Cardinality(RowNrs)' <= Due' /\ Due' + Spoiled' <= Cardinality(RowNrs)' + 2 * hosted'.kills
        /\ Cardinality(AppRowNrs)' + Mistaken' <= hosted'.replays
    <3>0. Cardinality(RowNrs) \in Nat /\ Spoiled \in {0, 1} /\ Cardinality(RowNrs) <= Due /\ Due + Spoiled <= Cardinality(RowNrs) + 2 * hosted.kills
      BY <1>2, <1>3
    <3>1. Cardinality(RowNrs) <= Due + Cardinality(InSent)
      BY <1>0, <3>0
    <3>2. 2 * (hosted.kills + 1) = 2 * hosted.kills + 2
      BY <1>2
    <3>3. Due + Cardinality(InSent) + Spoiled' <= Cardinality(RowNrs) + (2 * hosted.kills + 2)
      BY <1>0, <2>4, <3>0
    <3>4. Cardinality(AppRowNrs) <= hosted.replays
      BY <1>2, <1>3, SMTT(30)
    <3> QED BY <1>2, <2>1, <2>2, <2>4, <2>5, <3>1, <3>2, <3>3, <3>4, SMTT(30)
  <2>7. \A i \in RowNrs' : ledger'.lines[i].text \in ToSet(wire') \cup {AppText}
    BY <1>3, <2>1, <2>3
  <2> QED BY <2>2, <2>6, <2>7 DEF LedgerInv
<1>11. ASSUME Replayed PROVE LedgerInv'
  <2>1. /\ hosted'.replays = hosted.replays + 1 /\ hosted'.kills = hosted.kills /\ hosted'.last = AppText
        /\ ledger' = ledger /\ wire' = wire /\ handler' = handler
    BY <1>1, <1>11 DEF Replayed
  <2>2. InSent' = InSent /\ RowNrs' = RowNrs /\ AppRowNrs' = AppRowNrs /\ Spoiled' = Spoiled /\ Due' = Due
        /\ Mistaken' \in {0, 1}
    BY <2>1 DEF InSent, RowNrs, AppRowNrs, Spoiled, Due, Mistaken
  <2>3. Cardinality(AppRowNrs)' + Mistaken' <= hosted'.replays
    BY <1>2, <1>3, <2>1, <2>2, SMTT(30)
  <2> QED BY <1>3, <2>1, <2>2, <2>3 DEF LedgerInv
<1>12. ASSUME DaemonRestarted PROVE LedgerInv'
  <2>1. /\ hosted'.replays = hosted.replays /\ hosted'.kills = hosted.kills /\ ~hosted.up
        /\ ledger' = ledger /\ wire' = wire /\ handler' = handler
    BY <1>1, <1>12 DEF DaemonRestarted
  <2>2. InSent = {} /\ InSent' = {}
    BY <2>1 DEF InSent, SeatInv
  <2>3. RowNrs' = RowNrs /\ AppRowNrs' = AppRowNrs /\ Spoiled' = Spoiled /\ Due' = Due /\ Mistaken' = 0
    BY <2>1, <2>2 DEF RowNrs, AppRowNrs, Spoiled, Due, Mistaken
  <2> QED BY <1>2, <1>3, <2>1, <2>2, <2>3 DEF LedgerInv
<1> QED BY <1>4, <1>5, <1>6, <1>7, <1>8, <1>9, <1>10, <1>11, <1>12 DEF AttachNext

\* All of it holds of an operator who has not begun.
LEMMA AttachBegins == AttachInit => AttachInv
<1> SUFFICES ASSUME AttachInit PROVE AttachInv
  OBVIOUS
<1>1. keyed \in [keys : Pressings, next : Nat, how : {"tty", "strict tty", "script"}] /\ keyed.next = 1
  <2>1. \E keys \in Pressings, how \in {"tty", "strict tty", "script"} : keyed = [keys |-> keys, next |-> 1, how |-> how]
    BY Zenon DEF AttachInit
  <2>2. PICK keys \in Pressings, how \in {"tty", "strict tty", "script"} : keyed = [keys |-> keys, next |-> 1, how |-> how]
    BY <2>1
  <2>3. keyed.keys = keys /\ keyed.next = 1 /\ keyed.how = how
    BY <2>2
  <2> QED BY <2>2, <2>3
<1>2. hosted \in [up : {TRUE}, seat : {0}, run : {"none", "running"}, online : {TRUE}, last : {Nothing}, kills : {0}, replays : {0}]
  <2>1. \E run \in {"none", "running"} :
          hosted = [up |-> TRUE, seat |-> 0, run |-> run, online |-> TRUE, last |-> Nothing, kills |-> 0, replays |-> 0]
    BY Zenon DEF AttachInit
  <2> QED BY <2>1
<1>3. /\ client = [a \in Attempts |-> "off"] /\ handler = [a \in Attempts |-> "none"]
      /\ frame = [a \in Attempts |-> Nothing] /\ ack = [a \in Attempts |-> "none"]
      /\ wire = <<>> /\ ledger = [lines |-> <<>>, unwritten |-> 0]
      /\ said = [unsent |-> {}, timedOut |-> {}, failed |-> {}]
  BY DEF AttachInit
<1>4. Len(keyed.keys) \in Nat /\ keyed.next = 1
  <2>1. keyed.keys \in Seq({"plain", "eight", "wide", "detach"})
    BY <1>1, AttachAssumption
  <2> QED BY <1>1, <2>1, LenProperties
<1>5. AttachTypes
  <2>1. keyed \in [keys : Pressings, next : Nat, how : {"tty", "strict tty", "script"}] /\ keyed.next \in 1..(Len(keyed.keys) + 1)
    <3>1. keyed.next \in 1..(Len(keyed.keys) + 1)
      BY <1>4
    <3>2. keyed \in [keys : Pressings, next : Nat, how : {"tty", "strict tty", "script"}]
      BY <1>1
    <3> QED BY <3>1, <3>2
  <2>2. /\ client \in [Attempts -> ClientPlaces] /\ handler \in [Attempts -> {"none", "asked", "gone"} \cup SeatPlaces]
        /\ ack \in [Attempts -> {"none", "ok", "refused"}] /\ frame \in [Attempts -> Sendable \cup {Nothing}]
    BY <1>3 DEF ClientPlaces
  <2>3. hosted \in [up : BOOLEAN, seat : Attempts \cup {0}, run : {"none", "running", "fenced"}, online : BOOLEAN,
                    last : Seq(Nat), kills : Nat, replays : Nat]
    <3>1. Nothing \in Seq(Nat)
      BY DEF Nothing
    <3>2. hosted = [up |-> hosted.up, seat |-> hosted.seat, run |-> hosted.run, online |-> hosted.online,
                    last |-> hosted.last, kills |-> hosted.kills, replays |-> hosted.replays]
      BY <1>2
    <3>3. hosted.up \in BOOLEAN /\ hosted.seat = 0 /\ hosted.run \in {"none", "running", "fenced"} /\ hosted.online \in BOOLEAN
          /\ hosted.last = Nothing /\ hosted.kills = 0 /\ hosted.replays = 0
      BY <1>2
    <3> QED BY <3>1, <3>2, <3>3
  <2>4. wire \in Seq(Sendable) /\ ledger \in [lines : Seq(Lines), unwritten : Nat]
        /\ said \in [unsent : SUBSET Nat, timedOut : SUBSET Attempts, failed : SUBSET Attempts]
    <3>1. wire \in Seq(Sendable) /\ <<>> \in Seq(Lines)
      BY <1>3
    <3> QED BY <1>3, <3>1
  <2> QED BY <2>1, <2>2, <2>3, <2>4 DEF AttachTypes
<1>6. DOMAIN wire = {} /\ DOMAIN ledger.lines = {} /\ Len(wire) = 0 /\ ledger.lines = <<>> /\ ledger.unwritten = 0
  <2>1. wire = <<>> /\ ledger.lines = <<>> /\ ledger.unwritten = 0
    BY <1>3
  <2>2. DOMAIN <<>> = {} /\ Len(<<>>) = 0
    OBVIOUS
  <2> QED BY <2>1, <2>2
<1>7. SeatInv
  BY <1>2, <1>3, AttachAssumption DEF SeatInv, SeatPlaces, Unsent, Sent
<1>8. PairsInv /\ ClientsInv
  BY <1>3 DEF PairsInv, Together, ClientsInv
<1>9. WaitingInv
  BY <1>3, <1>4 DEF WaitingInv
<1>10. PendingInv
  BY <1>3, <1>6 DEF PendingInv, KeysInOrder
<1>11. AccountsInv
  <2>1. OnWire = {}
    BY <1>6 DEF OnWire
  <2>2. 1..(keyed.next - 1) = {}
    BY <1>4
  <2>3. HeardInv
    BY <1>3, <2>2 DEF HeardInv, Sent
  <2>4. EndedInv /\ FaultlessInv
    BY <1>3, <1>6, <2>1 DEF EndedInv, FaultlessInv
  <2> QED BY <2>3, <2>4 DEF AccountsInv
<1>12. LedgerInv
  <2>1. RowNrs = {} /\ AppRowNrs = {} /\ InSent = {} /\ Spoiled = 0 /\ Mistaken = 0
    BY <1>3, <1>6 DEF RowNrs, AppRowNrs, InSent, Spoiled, Mistaken
  <2>2. Cardinality(RowNrs) = 0 /\ Cardinality(AppRowNrs) = 0 /\ Cardinality(InSent) = 0
    BY <2>1, FS_EmptySet
  <2>3. Due = 0
    BY <1>6, <2>2 DEF Due
  <2>4. hosted.kills = 0 /\ hosted.replays = 0
    BY <1>2
  <2>5. Cardinality(RowNrs) <= Due /\ Due + Spoiled <= Cardinality(RowNrs) + 2 * hosted.kills
        /\ Cardinality(AppRowNrs) + Mistaken <= hosted.replays
    BY <2>1, <2>2, <2>3, <2>4
  <2> QED BY <2>1, <2>5 DEF LedgerInv
<1> QED BY <1>5, <1>7, <1>8, <1>9, <1>10, <1>11, <1>12 DEF AttachInv

\* Every step keeps all of it.
LEMMA AttachKept == AttachInv /\ [AttachNext]_attachVars => AttachInv'
<1>1. ASSUME AttachInv, AttachNext PROVE AttachInv'
  <2>1. AttachTypes /\ SeatInv /\ PairsInv /\ ClientsInv /\ WaitingInv /\ PendingInv /\ HeardInv /\ EndedInv /\ FaultlessInv /\ LedgerInv
    BY <1>1 DEF AttachInv, AccountsInv
  <2>2. AttachTypes' /\ SeatInv' /\ PairsInv' /\ ClientsInv' /\ WaitingInv'
    BY <1>1, <2>1, AttachTypesKept, AttachSeat, AttachPairs, AttachClients, AttachWaits
  <2>3. PendingInv' /\ LedgerInv'
    BY <1>1, <2>1, AttachPending, AttachLedger
  <2>4. HeardInv' /\ EndedInv' /\ FaultlessInv'
    BY <1>1, <2>1, AttachHeard, AttachEnded, AttachFaultless
  <2> QED BY <2>2, <2>3, <2>4 DEF AttachInv, AccountsInv
<1>2. ASSUME AttachInv, UNCHANGED attachVars PROVE AttachInv'
  <2>1. /\ keyed' = keyed /\ client' = client /\ frame' = frame /\ ack' = ack /\ handler' = handler
        /\ hosted' = hosted /\ wire' = wire /\ ledger' = ledger /\ said' = said
    BY <1>2 DEF attachVars
  <2>2. AttachTypes' /\ SeatInv' /\ PairsInv' /\ ClientsInv'
    <3>1. Sendable' = Sendable
      BY <2>1 DEF Sendable, WholeScript, Encoded
    <3>2. AttachTypes'
      BY <1>2, <2>1, <3>1 DEF AttachInv, AttachTypes
    <3>3. SeatInv' /\ PairsInv'
      BY <1>2, <2>1 DEF AttachInv, SeatInv, PairsInv, Together
    <3>4. ClientsInv'
      BY <1>2, <2>1 DEF AttachInv, ClientsInv, GoneEarlier
    <3> QED BY <3>2, <3>3, <3>4
  <2>3. Key' = Key /\ (AllPressed' <=> AllPressed) /\ OnWire' = OnWire /\ \A a \in Attempts : StillUnheard(a)' <=> StillUnheard(a)
    BY <2>1 DEF Key, AllPressed, OnWire, StillUnheard
  <2>4. WaitingInv' /\ PendingInv'
    BY <1>2, <2>1, <2>3 DEF AttachInv, WaitingInv, PendingInv, KeysInOrder
  <2>5. HeardInv' /\ EndedInv' /\ FaultlessInv'
    BY <1>2, <2>1, <2>3 DEF AttachInv, AccountsInv, HeardInv, EndedInv, FaultlessInv, Faultless
  <2>6. LedgerInv'
    <3>1. InSent' = InSent
      BY <2>1 DEF InSent
    <3> QED BY <1>2, <2>1, <3>1, BooksStand DEF AttachInv
  <2> QED BY <2>2, <2>4, <2>5, <2>6 DEF AttachInv, AccountsInv
<1> QED BY <1>1, <1>2

\* What the parts of it say together of keys, accounts and rows (cli.py, cmd_attach).
LEMMA AttachSoundThen == AttachInv => AttachTypeOK /\ AttachSound
<1> SUFFICES ASSUME AttachInv PROVE AttachTypeOK /\ AttachSound
  OBVIOUS
<1>1. AttachTypes /\ SeatInv /\ PendingInv /\ HeardInv /\ EndedInv /\ FaultlessInv /\ LedgerInv
  BY DEF AttachInv, AccountsInv
<1>2. AttachTypeOK
  BY <1>1 DEF AttachTypes, AttachTypeOK, ClientPlaces
<1>3. KeysInOrder
  BY <1>1 DEF PendingInv
<1>4. KeysAccounted
  <2>1. \A i \in 1..(keyed.next - 1) : (i \in OnWire) # (i \in said.unsent)
    <3> SUFFICES ASSUME NEW i \in 1..(keyed.next - 1)
                 PROVE  (i \in OnWire \/ i \in said.unsent) /\ ~(i \in OnWire /\ i \in said.unsent)
      BY Zenon
    <3>1. i \in OnWire => Encoded(keyed.keys[i])
      BY <1>1, OnWireIs
    <3>2. i \in said.unsent => ~Encoded(keyed.keys[i])
      BY <1>1 DEF HeardInv
    <3> QED BY <1>1, <3>1, <3>2 DEF HeardInv
  <2>2. (\A a \in Attempts : client[a] # "waiting") /\ said.timedOut = {} /\ hosted.kills = 0 => \A i \in OnWire : i < keyed.next
    BY <1>1 DEF FaultlessInv, Faultless, StillUnheard
  <2>3. \A a \in Attempts : client[a] = "closed" /\ a \notin said.failed => Key = "detach"
    BY <1>1 DEF EndedInv
  <2> QED BY <2>1, <2>2, <2>3 DEF KeysAccounted
<1>5. KeysOnce
  <2> SUFFICES ASSUME Len(wire) > Cardinality({wire[i] : i \in DOMAIN wire}), said.timedOut = {}, ~(hosted.kills > 0)
               PROVE  FALSE
    BY DEF KeysOnce
  <2>1. hosted.kills \in Nat
    BY <1>1 DEF AttachTypes
  <2>2. Faultless
    BY <2>1 DEF Faultless
  <2>3. Cardinality({wire[i] : i \in DOMAIN wire}) = Len(wire)
    BY <1>1, <2>2, NoneTwice DEF FaultlessInv
  <2>4. Len(wire) \in Nat
    BY <1>1, OnWireIs
  <2> QED BY <2>3, <2>4
<1>6. RowsKept
  <2>1. /\ Cardinality(RowNrs) \in Nat /\ Cardinality(AppRowNrs) \in Nat /\ Spoiled \in {0, 1} /\ Mistaken \in {0, 1}
        /\ Len(wire) \in Nat /\ ledger.unwritten \in Nat /\ Cardinality(InSent) \in {0, 1}
    BY <1>1, BooksCount
  <2>2. hosted.kills \in Nat /\ hosted.replays \in Nat /\ 2 * hosted.kills \in Nat
    <3>1. hosted.kills \in Nat /\ hosted.replays \in Nat
      BY <1>1 DEF AttachTypes
    <3> QED BY <3>1
  <2>3. Due \in Int
    BY <2>1 DEF Due
  <2>4. /\ Cardinality(RowNrs) <= Due /\ Due + Spoiled <= Cardinality(RowNrs) + 2 * hosted.kills
        /\ \A i \in RowNrs : ledger.lines[i].text \in ToSet(wire) \cup {AppText}
        /\ Cardinality(AppRowNrs) + Mistaken <= hosted.replays
    BY <1>1 DEF LedgerInv
  <2>5. Due <= Cardinality(RowNrs) + 2 * hosted.kills /\ Cardinality(AppRowNrs) <= hosted.replays
    BY <2>1, <2>2, <2>3, <2>4, SMTT(30)
  <2> QED BY <2>4, <2>5 DEF RowsKept, RowNrs, AppRowNrs, InSent, Due
<1> QED BY <1>2, <1>3, <1>4, <1>5, <1>6 DEF AttachSound

\* What holds of an operator's keys throughout: the seat is its thread's, clients
\* come in turn, what is to be sent lies ahead of what was sent, and the books of
\* answers and rows add up (cli.py, cmd_attach; _handle_attach; LedgerWriter).
THEOREM AttachInvariance == AttachSpec => []AttachInv
<1> QED BY AttachBegins, AttachKept, PTL DEF AttachSpec

\* For every number of attachments, every keys pressed and however many kills and
\* losses: keys reach the game in the order they were pressed; each that was
\* passed over was either sent or named NOT SENT; none is sent twice but one that
\* was wrongly told to be lost; and each has its row but what a failed write or a
\* kill lost (cmd_attach, send_raw, record_attach_keystroke).
THEOREM KeysArrive == AttachSpec => [](AttachTypeOK /\ AttachSound)
<1> QED BY AttachInvariance, AttachSoundThen, PTL

-----------------------------------------------------------------------------
(* The watch hub *)

\* A queue after a put, a take and a drop is a queue of screens still.
LEMMA QueueStays ==
  ASSUME NEW q \in Seq(Screens)
  PROVE  /\ <<>> \in Seq(Screens) /\ \A x \in Screens : <<x>> \in Seq(Screens) /\ Append(q, x) \in Seq(Screens)
         /\ q # <<>> => Head(q) \in Screens /\ Tail(q) \in Seq(Screens)
  OBVIOUS

\* Every repaint, put, read and subscription keeps the types.
LEMMA WatchTypesKept == WatchTypeOK /\ [WatchNext]_watchVars => WatchTypeOK'
<1> SUFFICES ASSUME WatchTypeOK, [WatchNext]_watchVars PROVE WatchTypeOK'
  OBVIOUS
<1> USE DEF WatchTypeOK, screenVars, hubVars, subVars
<1>m. MaxPaints \in Nat
  BY HubAssumption
<1>1. CASE Paints
  <2>0. paints \in 0..MaxPaints /\ paints < MaxPaints /\ paints' = paints + 1
    BY <1>1 DEF Paints
  <2>1. paints' \in 0..MaxPaints
    BY ONLY <2>0, <1>m
  <2>3. screen' \in Screens /\ still' \in BOOLEAN /\ UNCHANGED <<hubVars, subVars>>
    BY <1>1 DEF Paints
  <2>2. recurred' \in BOOLEAN
    BY <1>1 DEF Paints
  <2> QED
    BY <2>1, <2>2, <2>3
<1>2. CASE DebounceEnds
  BY <1>2 DEF DebounceEnds
<1>3. CASE HubStep
  <2>1. CASE HubHashes
    BY <2>1 DEF HubHashes
  <2>2. CASE HubRenders
    BY <2>2 DEF HubRenders
  <2>3. CASE HubCopies
    BY <2>3 DEF HubCopies, Added
  <2>4. ASSUME NEW s \in Subs, HubPuts(s) PROVE WatchTypeOK'
    <3>1. queue[s] \in Seq(Screens) /\ event \in Screens
      OBVIOUS
    <3>2. Append(queue[s], event) \in Seq(Screens)
      BY <3>1, QueueStays
    <3>3. queue' \in [Subs -> Seq(Screens)]
      BY <2>4, <3>1, <3>2 DEF HubPuts
    <3> QED
      BY <2>4, <3>3 DEF HubPuts
  <2>5. CASE HubKeeps
    BY <2>5 DEF HubKeeps
  <2> QED
    BY <1>3, <2>1, <2>2, <2>3, <2>4, <2>5 DEF HubStep
<1>4. ASSUME NEW s \in Subs,
             SubscribeRenders(s) \/ SubscribeAdds(s) \/ FeedReads(s) \/ FeedStops(s) \/ HandlerFindsItGone(s)
      PROVE  WatchTypeOK'
  <2>0. queue[s] \in Seq(Screens) /\ screen \in Screens
    OBVIOUS
  <2>1. CASE SubscribeRenders(s)
    <3>1. <<screen>> \in Seq(Screens)
      BY <2>0, QueueStays
    <3>2. queue' \in [Subs -> Seq(Screens)] /\ sub' \in [Subs -> {"none", "rendered", "added", "gone"}]
      BY <2>1, <3>1 DEF SubscribeRenders
    <3> QED
      BY <2>1, <3>2 DEF SubscribeRenders
  <2>2. CASE SubscribeAdds(s)
    BY <2>2 DEF SubscribeAdds
  <2>3. CASE FeedReads(s)
    <3>1. Head(queue[s]) \in Screens /\ Tail(queue[s]) \in Seq(Screens)
      BY <2>0, <2>3, QueueStays DEF FeedReads
    <3>2. queue' \in [Subs -> Seq(Screens)] /\ latest' \in [Subs -> Screens]
      BY <2>3, <3>1 DEF FeedReads
    <3> QED
      BY <2>3, <3>2 DEF FeedReads
  <2>4. CASE FeedStops(s)
    BY <2>4 DEF FeedStops
  <2>5. CASE HandlerFindsItGone(s)
    <3>1. <<>> \in Seq(Screens)
      BY <2>0, QueueStays
    <3>2. queue' \in [Subs -> Seq(Screens)] /\ sub' \in [Subs -> {"none", "rendered", "added", "gone"}]
      BY <2>5, <3>1 DEF HandlerFindsItGone
    <3> QED
      BY <2>5, <3>2 DEF HandlerFindsItGone
  <2> QED
    BY <1>4, <2>1, <2>2, <2>3, <2>4, <2>5
<1>5. CASE UNCHANGED watchVars
  BY <1>5 DEF watchVars
<1> QED
  BY <1>1, <1>2, <1>3, <1>4, <1>5 DEF WatchNext

\* What the hub hashed and rendered, and what every queue and every client
\* holds, is a screen the terminal can show.
THEOREM WatchIsTyped == WatchSpec => []WatchTypeOK
<1>1. WatchInit => WatchTypeOK
  <2> SUFFICES ASSUME WatchInit PROVE WatchTypeOK
    OBVIOUS
  <2>1. Blank \in Screens /\ MaxPaints \in Nat /\ 0 \in 0..MaxPaints /\ <<>> \in Seq(Screens)
    BY HubAssumption
  <2>2. queue \in [Subs -> Seq(Screens)] /\ latest \in [Subs -> Screens]
    BY <2>1 DEF WatchInit
  <2> QED
    BY <2>1, <2>2 DEF WatchInit, WatchTypeOK
<1> QED
  BY <1>1, WatchTypesKept, PTL DEF WatchSpec

\* From 20 lines on the reserves of frame_layout are granted in full, and ten
\* rows or more are left for the columns.
LEMMA RowsAddUp ==
  ASSUME NEW lines \in Int, NEW cols \in Int, NEW halting \in BOOLEAN, Drawable(lines, cols)
  PROVE  /\ RestH(lines) = lines - 3 /\ RestH(lines) \in Int
         /\ LogsAt(lines) = 3
         /\ BannerAt(lines, halting) = IF halting THEN 3 ELSE 0
         /\ ControlAt(lines, halting) = 1
         /\ ColumnH(lines, halting) = lines - 7 - BannerAt(lines, halting)
         /\ ColumnH(lines, halting) \in Int /\ ColumnH(lines, halting) >= 10
<1>1. RestH(lines) = lines - 3 /\ lines >= 20
  BY DEF Drawable, RestH, Greater, Pad, StripH
<1>2. LogsAt(lines) = 3
  BY <1>1 DEF LogsAt, Lesser, Greater, LogsH
<1>3. BannerAt(lines, halting) = IF halting THEN 3 ELSE 0
  BY <1>1, <1>2 DEF BannerAt, Lesser, Greater, BannerH
<1>4. BannerAt(lines, halting) \in Int /\ BannerAt(lines, halting) <= 3
  BY <1>3
<1>5. ControlAt(lines, halting) = 1
  BY <1>1, <1>2, <1>4 DEF ControlAt, ControlH
<1> QED BY <1>1, <1>2, <1>3, <1>4, <1>5 DEF ColumnH

\* At every width the gutter, the viewport and the HUD stand side by side.
LEMMA ColumnsSideBySide ==
  ASSUME NEW lines \in Int, NEW cols \in Int, NEW halting \in BOOLEAN, Drawable(lines, cols)
  PROVE  /\ CenterX(cols) \in Int /\ CenterW(cols) \in Int /\ GutterW(cols) \in Int
         /\ CenterW(cols) > 0 /\ GutterW(cols) >= 0
         /\ Pad + GutterW(cols) <= CenterX(cols)
         /\ CenterX(cols) + CenterW(cols) <= Pad + InnerW(cols)
         /\ HasHud(cols) \in BOOLEAN /\ InnerW(cols) = cols - 2
         /\ ~HasHud(cols) => GutterW(cols) = 0
         /\ HasHud(cols) => CenterX(cols) + CenterW(cols) <= Pad + InnerW(cols) - HudW
BY DEF Drawable, CenterX, CenterW, GutterW, InnerW, HasHud, Framed, Full, Lesser, Pad, ViewportW, HudW,
       PrioritiesW, PrioritiesMinW, GameW

\* No panel of the columns is higher than the columns.
LEMMA HeightsFit ==
  ASSUME NEW lines \in Int, NEW cols \in Int, NEW halting \in BOOLEAN, Drawable(lines, cols)
  PROVE  LET h == ColumnH(lines, halting)
             c == CenterH(lines, cols, halting)
         IN /\ GoalsH(lines, halting) \in Int /\ GoalsH(lines, halting) > 0 /\ GoalsH(lines, halting) <= h
            /\ c \in Int /\ c > 0 /\ c <= h
            /\ HudH(lines, cols, halting) \in Int /\ HudH(lines, cols, halting) > 0 /\ HudH(lines, cols, halting) <= c
            /\ BubblesFit(lines, cols, halting) => c + BubblesH <= h
<1> ColumnH(lines, halting) \in Int /\ ColumnH(lines, halting) >= 10
  BY RowsAddUp
<1> QED
  BY DEF GoalsH, CenterH, HudH, BubblesFit, Lesser, GoalsBoxH, ViewportH, GameH, HudBoxH, BubblesH

\* On every terminal that is not refused as too small, halting or not, no panel
\* of frame_layout is painted over another or over the border, and the strip,
\* the viewport, the logs, the controls and the banner of a halt are there.
THEOREM LayoutTiles ==
  ASSUME NEW lines \in Int, NEW cols \in Int, NEW halting \in BOOLEAN, Drawable(lines, cols)
  PROVE  Tiled(lines, cols, halting)
<1> DEFINE places == Layout(lines, cols, halting)
           h == ColumnH(lines, halting)
           banner == IF halting THEN 3 ELSE 0
           below == Pad + StripH + h
           goalsH == GoalsH(lines, halting)
           centerH == CenterH(lines, cols, halting)
           hudH == HudH(lines, cols, halting)
           chainH == IF BubblesFit(lines, cols, halting) THEN 5 ELSE 0
           cx == CenterX(cols)
           cw == CenterW(cols)
           gw == GutterW(cols)
           hudW == IF HasHud(cols) THEN 44 ELSE 0
           there == {p \in Panels : places[p].w > 0 /\ places[p].h > 0}
           leftSide == {"goals", "left_gutter"}
           centre == {"center", "chain"}
           rightSide == {"right_gutter", "decisions"}
           foot == {"logs", "intervention", "control_strip"}
\* The numbers of the three bands: the strip, the columns, the foot.
<1>1. /\ LogsAt(lines) = 3 /\ BannerAt(lines, halting) = banner /\ ControlAt(lines, halting) = 1
      /\ h = lines - 7 - banner /\ h \in Int /\ h >= 10
  BY RowsAddUp
<1>2. below \in Int /\ below = h + 2 /\ Pad = 1 /\ StripH = 1
  <2> HIDE DEF h, banner
  <2> QED BY <1>1 DEF Pad, StripH
<1>2a. below + banner = lines - 5 /\ banner \in Int /\ banner >= 0
  <2>1. banner \in Int /\ banner >= 0
    OBVIOUS
  <2> HIDE DEF banner, h, below
  <2> QED BY <1>1, <1>2, <2>1
<1>2b. /\ goalsH \in Int /\ goalsH > 0 /\ goalsH <= h
       /\ centerH \in Int /\ centerH > 0 /\ centerH <= h
       /\ hudH \in Int /\ hudH > 0 /\ hudH <= centerH
       /\ chainH \in Int /\ chainH >= 0 /\ centerH + chainH <= h
  BY HeightsFit DEF BubblesH
<1>3. Panels = {"strip"} \cup leftSide \cup centre \cup rightSide \cup foot
  BY DEF Panels
<1>4. places.strip = Region(1, 1, cols - 2, 1)
  BY <1>2, ColumnsSideBySide DEF Layout
<1>5. /\ places.logs = Region(below, 1, cols - 2, 3)
      /\ places.intervention = Region(below + 3, 1, cols - 2, banner)
      /\ places.control_strip = Region(below + 3 + banner, 1, cols - 2, 1)
  BY <1>1, <1>2, ColumnsSideBySide DEF Layout
<1>6. /\ places.goals = Region(2, 1, gw, goalsH)
      /\ places.left_gutter = Region(2 + goalsH, 1, gw, h - goalsH)
  BY <1>2 DEF Layout
<1>7. /\ places.center = Region(2, cx, cw, centerH)
      /\ places.chain = Region(2 + centerH, cx, cw, chainH)
  BY <1>2 DEF Layout, BubblesH
<1>8. /\ places.right_gutter = Region(2, 1 + (cols - 2) - 44, hudW, hudH)
      /\ places.decisions = Region(2 + hudH, 1 + (cols - 2) - 44, hudW,
                                   centerH - hudH)
  BY <1>2, ColumnsSideBySide DEF Layout, HudW
<1> HIDE DEF places, h, below, banner, goalsH, centerH, hudH, chainH, cx, cw, gw, hudW
<1>9. lines \in Int /\ cols \in Int /\ lines >= 20 /\ cols >= 60
  BY DEF Drawable
\* Where a panel's edges are.
<1>10. \A p \in Panels :
         places[p].y \in Int /\ places[p].x \in Int /\ places[p].w \in Int /\ places[p].h \in Int
  <2> DEFINE AtIntegers(r) == r.y \in Int /\ r.x \in Int /\ r.w \in Int /\ r.h \in Int
  <2>1. cx \in Int /\ cw \in Int /\ gw \in Int /\ hudW \in Int /\ cols - 2 \in Int /\ 1 + (cols - 2) - 44 \in Int
    BY <1>9, ColumnsSideBySide DEF cx, cw, gw, hudW
  <2>2. \A p \in leftSide \cup centre \cup rightSide : AtIntegers(places[p])
    <3>1. 2 + goalsH \in Int /\ h - goalsH \in Int /\ 2 + centerH \in Int /\ 2 + hudH \in Int /\ centerH - hudH \in Int
      BY <1>1, <1>2b
    <3>2. \A p \in leftSide : AtIntegers(places[p])
      BY <1>2b, <1>6, <2>1, <3>1 DEF Region
    <3>3. \A p \in centre : AtIntegers(places[p])
      BY <1>2b, <1>7, <2>1, <3>1 DEF Region
    <3>4. \A p \in rightSide : AtIntegers(places[p])
      BY <1>2b, <1>8, <2>1, <3>1 DEF Region
    <3> QED BY <3>2, <3>3, <3>4
  <2>3. \A p \in {"strip"} \cup foot : AtIntegers(places[p])
    <3>1. below + 3 \in Int /\ below + 3 + banner \in Int
      BY <1>2, <1>2a
    <3>2. AtIntegers(places.strip)
      BY <1>4, <2>1 DEF Region
    <3>3. \A p \in foot : AtIntegers(places[p])
      BY <1>2, <1>2a, <1>5, <2>1, <3>1 DEF Region
    <3> QED BY <3>2, <3>3
  <2> QED BY <1>3, <2>2, <2>3
<1>11. \A p \in leftSide \cup centre \cup rightSide : places[p].y >= 2 /\ places[p].y + places[p].h <= below
  <2>1. \A p \in leftSide : places[p].y >= 2 /\ places[p].y + places[p].h <= below
    BY <1>1, <1>2, <1>6, <1>2b DEF Region
  <2>2. \A p \in centre : places[p].y >= 2 /\ places[p].y + places[p].h <= below
    BY <1>1, <1>2, <1>7, <1>2b DEF Region
  <2>3. \A p \in rightSide : places[p].y >= 2 /\ places[p].y + places[p].h <= below
    BY <1>1, <1>2, <1>8, <1>2b DEF Region
  <2> QED BY <2>1, <2>2, <2>3
<1>12. \A p \in foot : places[p].y >= below /\ places[p].y + places[p].h <= lines - 1
  <2>1. places.logs.y = below /\ places.logs.h = 3
    BY <1>5 DEF Region
  <2>2. places.intervention.y = below + 3 /\ places.intervention.h = banner
    BY <1>5 DEF Region
  <2>3. places.control_strip.y = below + 3 + banner /\ places.control_strip.h = 1
    BY <1>5 DEF Region
  <2> HIDE DEF below, banner
  <2> QED BY <1>2, <1>2a, <1>9, <2>1, <2>2, <2>3
<1>13. places.strip.y = 1 /\ places.strip.y + places.strip.h = 2
  BY <1>4 DEF Region
<1>14. \A p \in leftSide : places[p].x = 1 /\ places[p].x + places[p].w <= cx
  BY <1>6, ColumnsSideBySide DEF Region, cx, cw, gw, hudW, Pad
<1>15. \A p \in centre : places[p].x = cx /\ places[p].x + places[p].w = cx + cw
  BY <1>7 DEF Region
<1>16. \A p \in rightSide : /\ places[p].w > 0 => places[p].x >= cx + cw
                        /\ places[p].x + places[p].w <= cols - 1
  BY <1>8, <1>9, ColumnsSideBySide DEF Region, cx, cw, gw, hudW, Pad, HudW
<1>17. cx \in Int /\ cw \in Int /\ cx >= 1 /\ cw > 0
       /\ cx + cw <= cols - 1
  BY <1>9, ColumnsSideBySide DEF Pad, cx, cw, gw
<1>18. \A p \in there : Within(places[p], lines, cols)
  <2>1. \A p \in there : places[p].y >= 1 /\ places[p].y + places[p].h <= lines - 1
    <3>1. below = h + 2 /\ h >= 10 /\ h \in Int /\ below <= lines - 5 /\ below \in Int
      BY <1>1, <1>2, <1>2a, <1>9
    <3>2. \A p \in leftSide \cup centre \cup rightSide : places[p].y >= 1 /\ places[p].y + places[p].h <= lines - 1
      BY <1>3, <1>9, <1>10, <1>11, <3>1
    <3>3. \A p \in foot : places[p].y >= 1 /\ places[p].y + places[p].h <= lines - 1
      BY <1>3, <1>9, <1>10, <1>12, <3>1
    <3>4. places.strip.y >= 1 /\ places.strip.y + places.strip.h <= lines - 1
      BY <1>9, <1>13
    <3> QED BY <1>3, <3>2, <3>3, <3>4
  <2>2. \A p \in {"strip"} \cup foot : places[p].x = 1 /\ places[p].x + places[p].w = cols - 1
    BY <1>4, <1>5, <1>9 DEF Region
  <2>3. \A p \in there : places[p].x >= 1 /\ places[p].x + places[p].w <= cols - 1
    BY <1>3, <1>9, <1>10, <1>14, <1>15, <1>16, <1>17, <2>2
  <2> QED BY <1>2, <2>1, <2>3 DEF Within
<1>19. \A p, q \in there : p # q => Apart(places[p], places[q])
  <2>1. \A p \in leftSide \cup centre \cup rightSide, q \in foot : Apart(places[p], places[q]) /\ Apart(places[q], places[p])
    BY <1>2, <1>3, <1>10, <1>11, <1>12 DEF Apart
  <2>2. \A q \in leftSide \cup centre \cup rightSide \cup foot : Apart(places.strip, places[q]) /\ Apart(places[q], places.strip)
    <3>1. below \in Int /\ below >= 2
      BY <1>1, <1>2
    <3>2. \A q \in leftSide \cup centre \cup rightSide \cup foot : places[q].y >= 2
      BY <1>3, <1>10, <1>11, <1>12, <3>1
    <3> QED BY <1>13, <3>2 DEF Apart
  <2>3. \A p, q \in foot : p # q => Apart(places[p], places[q])
    BY <1>2, <1>2a, <1>5, <1>9 DEF Apart, Region
  <2>4. \A p \in leftSide, q \in centre : Apart(places[p], places[q]) /\ Apart(places[q], places[p])
    BY <1>3, <1>10, <1>14, <1>15 DEF Apart
  <2>5. \A p \in leftSide \cup centre, q \in rightSide : places[q].w > 0 => Apart(places[p], places[q]) /\ Apart(places[q], places[p])
    BY <1>3, <1>10, <1>14, <1>15, <1>16, <1>17 DEF Apart
  <2>6. \A p, q \in leftSide : p # q => Apart(places[p], places[q])
    BY <1>6, <1>2b DEF Apart, Region
  <2>7. \A p, q \in centre : p # q => Apart(places[p], places[q])
    BY <1>7, <1>2b DEF Apart, Region
  <2>8. \A p, q \in rightSide : p # q => Apart(places[p], places[q])
    BY <1>8, <1>2b DEF Apart, Region
  <2> QED BY <1>3, <2>1, <2>2, <2>3, <2>4, <2>5, <2>6, <2>7, <2>8
<1>20. {"strip", "center", "logs", "control_strip"} \subseteq there /\ (halting => "intervention" \in there)
  <2>1. places.strip.w > 0 /\ places.strip.h > 0
    BY <1>4, <1>9 DEF Region
  <2>2. places.center.w > 0 /\ places.center.h > 0
    BY <1>2b, <1>7, <1>17 DEF Region
  <2>3. places.logs.w > 0 /\ places.logs.h > 0 /\ places.control_strip.w > 0 /\ places.control_strip.h > 0
    BY <1>5, <1>9 DEF Region
  <2>4. halting => places.intervention.w > 0 /\ places.intervention.h > 0
    BY <1>5, <1>9 DEF Region, banner
  <2> QED BY <1>3, <2>1, <2>2, <2>3, <2>4
<1>21. FocusAt(places.goals).h > 0 =>
         FocusAt(places.goals).y + FocusAt(places.goals).h < places.goals.y + places.goals.h
  <2> DEFINE goals == Region(2, 1, gw, goalsH)
  <2>1. places.goals = goals
    BY <1>6
  <2>2. goalsH \in Int
    BY <1>2b
  <2>3. FocusAt(goals).h > 0 => FocusAt(goals).y + FocusAt(goals).h < goals.y + goals.h
    BY <2>2 DEF FocusAt, FocusY, FocusH, Region, GoalsContentH
  <2> HIDE DEF goals
  <2> QED BY <2>1, <2>3
<1> QED
  BY <1>18, <1>19, <1>20, <1>21 DEF Tiled, places

-----------------------------------------------------------------------------
(* The frame *)

\* The gates that can be up at once: one, or the arm confirm over the rule form.
GatesUp(gates) == \/ gates \in {{}, {"arm", "identity"}} \/ \E g \in Gates : gates = {g}

\* The cursor of a list that is open stands on a row of its section, if that has any.
OnRow(l) ==
  l.open =>
    /\ l.section = "taught" => (l.taught > 0 /\ l.index < l.taught) \/ (l.taught = 0 /\ l.discovered = 0)
    /\ l.section = "discovered" => l.discovered > 0 /\ l.found < l.discovered

FrameTypes == cockpit \in CockpitStates /\ GatesUp(cockpit.gates) /\ OnRow(cockpit.list)
FrameInv == FrameTypes /\ drawn.is \in {"none", "message", "frame"}

\* The fields of a list of loops.
LEMMA ListFields ==
  ASSUME NEW l \in LoopLists
  PROVE  /\ l.open \in BOOLEAN /\ l.section \in {"taught", "discovered"} /\ l.index \in Nat /\ l.found \in Nat
         /\ l.scroll \in Nat /\ l.taught \in Nat /\ l.discovered \in Nat /\ l.truncated \in BOOLEAN
  BY DEF LoopLists

\* A closed list is a list.
LEMMA ClosedList == ASSUME NEW l \in LoopLists PROVE Closed(l) \in LoopLists /\ ~Closed(l).open
  BY DEF LoopLists, Closed

\* An opened list stands on a row.
LEMMA OpenedList == ASSUME NEW l \in LoopLists PROVE Opened(l) \in LoopLists /\ OnRow(Opened(l))
<1>0. /\ l.taught \in Nat /\ l.discovered \in Nat
      /\ Closed(l) \in LoopLists /\ Closed(l).index = 0 /\ Closed(l).found = 0
      /\ Closed(l).taught = l.taught /\ Closed(l).discovered = l.discovered
  BY DEF LoopLists, Closed
<1> DEFINE c == Closed(l)
           section == IF l.taught = 0 /\ l.discovered > 0 THEN "discovered" ELSE "taught"
           o == [c EXCEPT !.open = TRUE, !.section = section]
<1>1. Opened(l) = o
  BY DEF Opened
<1>2. c \in LoopLists /\ section \in {"taught", "discovered"}
  BY <1>0
<1> HIDE DEF c, section
<1>3. o \in LoopLists /\ o.section = section /\ o.index = c.index /\ o.found = c.found /\ o.taught = c.taught /\ o.discovered = c.discovered
  BY <1>2 DEF LoopLists
<1> QED
  BY <1>0, <1>1, <1>3 DEF OnRow, c, section

\* A move leads from row to row, over the end of one section into the other.
LEMMA MovedList ==
  ASSUME NEW l \in LoopLists, OnRow(l), l.open, NEW delta \in {1, -1}
  PROVE  Moved(l, delta) \in LoopLists /\ OnRow(Moved(l, delta))
<1>0. /\ l.section \in {"taught", "discovered"} /\ l.index \in Nat /\ l.found \in Nat /\ l.scroll \in Nat
      /\ l.taught \in Nat /\ l.discovered \in Nat /\ delta \in Int
      /\ l.section = "taught" => (l.taught > 0 /\ l.index < l.taught) \/ (l.taught = 0 /\ l.discovered = 0)
      /\ l.section = "discovered" => l.discovered > 0 /\ l.found < l.discovered
  BY DEF LoopLists, OnRow
<1>1. CASE l.section = "taught" /\ l.taught = 0
  <2> DEFINE s == IF l.discovered > 0 THEN "discovered" ELSE "taught"
  <2>1. Moved(l, delta) = [l EXCEPT !.index = 0, !.section = s] /\ s = "taught" /\ l.discovered = 0
    BY <1>0, <1>1 DEF Moved
  <2>3. [l EXCEPT !.index = 0, !.section = s] \in LoopLists
    BY <2>1 DEF LoopLists
  <2>4. Moved(l, delta).section = "taught" /\ Moved(l, delta).taught = l.taught /\ Moved(l, delta).discovered = l.discovered
    BY <2>1 DEF LoopLists
  <2> QED
    BY <1>0, <1>1, <2>1, <2>3, <2>4 DEF OnRow
<1>2. CASE l.section = "taught" /\ l.taught # 0 /\ l.index + delta >= l.taught /\ l.discovered > 0
  <2> DEFINE f == Lesser(l.discovered - 1, l.index + delta - l.taught)
  <2>1. f \in Nat /\ f < l.discovered
    BY <1>0, <1>2 DEF Lesser
  <2>2. Moved(l, delta) = [l EXCEPT !.section = "discovered", !.found = f]
    BY <1>2 DEF Moved
  <2> HIDE DEF f
  <2>3. [l EXCEPT !.section = "discovered", !.found = f] \in LoopLists
    BY <2>1 DEF LoopLists
  <2>4. Moved(l, delta).section = "discovered" /\ Moved(l, delta).found = f /\ Moved(l, delta).taught = l.taught /\ Moved(l, delta).discovered = l.discovered
    BY <2>1, <2>2 DEF LoopLists
  <2> QED
    BY <1>0, <1>2, <2>1, <2>2, <2>3, <2>4 DEF OnRow
<1>3. CASE l.section = "taught" /\ l.taught # 0 /\ ~(l.index + delta >= l.taught /\ l.discovered > 0)
  <2> DEFINE i == Greater(0, Lesser(l.taught - 1, l.index + delta))
  <2>1. i \in Nat /\ i < l.taught
    BY <1>0, <1>3 DEF Lesser, Greater
  <2>2. Moved(l, delta) = [l EXCEPT !.index = i]
    BY <1>3 DEF Moved
  <2> HIDE DEF i
  <2>3. [l EXCEPT !.index = i] \in LoopLists
    BY <2>1 DEF LoopLists
  <2>4. Moved(l, delta).section = l.section /\ Moved(l, delta).index = i /\ Moved(l, delta).taught = l.taught /\ Moved(l, delta).discovered = l.discovered
    BY <2>1, <2>2 DEF LoopLists
  <2> QED
    BY <1>0, <1>3, <2>1, <2>2, <2>3, <2>4 DEF OnRow
<1>4. CASE l.section = "discovered" /\ l.found + delta < 0 /\ l.taught > 0
  <2> DEFINE i == Greater(0, l.taught + l.found + delta)
  <2>1. i \in Nat /\ i < l.taught
    BY <1>0, <1>4 DEF Greater
  <2>2. Moved(l, delta) = [l EXCEPT !.section = "taught", !.index = i]
    BY <1>0, <1>4 DEF Moved
  <2> HIDE DEF i
  <2>3. [l EXCEPT !.section = "taught", !.index = i] \in LoopLists
    BY <2>1 DEF LoopLists
  <2>4. Moved(l, delta).section = "taught" /\ Moved(l, delta).index = i /\ Moved(l, delta).taught = l.taught /\ Moved(l, delta).discovered = l.discovered
    BY <2>1, <2>2 DEF LoopLists
  <2> QED
    BY <1>0, <1>4, <2>1, <2>2, <2>3, <2>4 DEF OnRow
<1>5. CASE l.section = "discovered" /\ ~(l.found + delta < 0 /\ l.taught > 0)
  <2> DEFINE f == Greater(0, Lesser(l.discovered - 1, l.found + delta))
  <2>1. f \in Nat /\ f < l.discovered
    BY <1>0, <1>5 DEF Lesser, Greater
  <2>2. Moved(l, delta) = [l EXCEPT !.found = f]
    BY <1>0, <1>5 DEF Moved
  <2> HIDE DEF f
  <2>3. [l EXCEPT !.found = f] \in LoopLists
    BY <2>1 DEF LoopLists
  <2>4. Moved(l, delta).section = l.section /\ Moved(l, delta).found = f /\ Moved(l, delta).taught = l.taught /\ Moved(l, delta).discovered = l.discovered
    BY <2>1, <2>2 DEF LoopLists
  <2> QED
    BY <1>0, <1>5, <2>1, <2>2, <2>3, <2>4 DEF OnRow
<1> QED
  BY <1>0, <1>1, <1>2, <1>3, <1>4, <1>5

\* The window that follows the row moves nothing but itself.
LEMMA FollowedList ==
  ASSUME NEW l \in LoopLists, OnRow(l), NEW rows \in Int
  PROVE  Followed(l, rows) \in LoopLists /\ OnRow(Followed(l, rows))
  BY ListFields DEF LoopLists, Followed, OnRow, Lesser, Greater
\* The fields of a cockpit.
LEMMA CockpitFields ==
  ASSUME NEW c \in CockpitStates
  PROVE  /\ c.size[1] \in Int /\ c.size[2] \in Int /\ c.status \in Statuses /\ c.off \subseteq Toggles
         /\ c.hint \in Nat /\ c.text \in BOOLEAN /\ c.life \in Nat /\ c.gates \subseteq Gates /\ c.list \in LoopLists
  BY DEF CockpitStates

\* The fields of a status, the one a raising composer leaves included.
LEMMA StatusFields ==
  ASSUME NEW c \in CockpitStates
  PROVE  /\ Status(c) \in Statuses /\ Halting(c) \in BOOLEAN /\ Status(c).tail \in Nat /\ Status(c).holds \in BOOLEAN
         /\ Status(c).mode \in {"", "app", "human", "spectate"} /\ Status(c).reasons \in Seq(STRING)
<1>1. Unheard \in Statuses
  <2>1. <<>> \in Seq(STRING)
    OBVIOUS
  <2> QED
    BY <2>1 DEF Unheard, Statuses
<1>2. Status(c) \in Statuses
  BY <1>1, CockpitFields DEF Status
<1> QED
  BY <1>2 DEF Statuses, Halting

\* The rows that the box of the list has on a terminal that is not too small.
LEMMA ListRoom ==
  ASSUME NEW c \in CockpitStates, Fits(c)
  PROVE  /\ LayoutOf(c).center.h \in Int /\ LayoutOf(c).center.h >= 10
         /\ ListInner(LayoutOf(c)) = LayoutOf(c).center.h - 2 /\ Inner(LayoutOf(c).center.h) = LayoutOf(c).center.h - 2
         /\ Window(c, LayoutOf(c)) \in Int /\ Window(c, LayoutOf(c)) > 0
<1> DEFINE lines == c.size[1]
           cols == c.size[2]
           halting == Halting(c)
<1>1. lines \in Int /\ cols \in Int /\ halting \in BOOLEAN /\ Drawable(lines, cols) /\ c.list.taught \in Nat
  BY CockpitFields, StatusFields, ListFields DEF Fits
<1>2. LayoutOf(c).center.h = CenterH(lines, cols, halting)
  BY DEF LayoutOf, Layout, Region
<1>3. ColumnH(lines, halting) \in Int /\ ColumnH(lines, halting) >= 10
  BY <1>1, RowsAddUp
<1>4. CenterH(lines, cols, halting) \in Int /\ CenterH(lines, cols, halting) >= 10
  BY <1>3 DEF CenterH, Lesser, ViewportH, GameH
<1> QED
  BY <1>1, <1>2, <1>4 DEF ListInner, Inner, Window, Greater

\* Changes of one field leave a cockpit.
LEMMA CockpitChanged ==
  ASSUME NEW c \in CockpitStates
  PROVE  /\ \A l \in LoopLists : [c EXCEPT !.list = l] \in CockpitStates /\ [c EXCEPT !.list = l].list = l /\ [c EXCEPT !.list = l].gates = c.gates
         /\ \A off \in SUBSET Toggles : [c EXCEPT !.off = off] \in CockpitStates /\ [c EXCEPT !.off = off].list = c.list /\ [c EXCEPT !.off = off].gates = c.gates
         /\ \A g \in SUBSET Gates : [c EXCEPT !.gates = g] \in CockpitStates /\ [c EXCEPT !.gates = g].gates = g /\ [c EXCEPT !.gates = g].list = c.list
         /\ \A r \in Statuses : [c EXCEPT !.status = r] \in CockpitStates /\ [c EXCEPT !.status = r].list = c.list /\ [c EXCEPT !.status = r].gates = c.gates
  BY DEF CockpitStates

\* Of the gates that are up the one a key lowers, and those that cannot be drawn.
LEMMA GatesLowered ==
  ASSUME NEW g \in SUBSET Gates, GatesUp(g)
  PROVE  /\ g \ {Taker(g)} \subseteq Gates /\ GatesUp(g \ {Taker(g)})
         /\ Lowered(g) \subseteq Gates /\ GatesUp(Lowered(g))
<1>1. CASE g = {}
  BY <1>1 DEF GatesUp, Lowered
<1>2. CASE g = {"arm", "identity"}
  <2>1. Taker(g) = "arm" /\ g \ {"arm"} = {"identity"} /\ Lowered(g) = {"identity"}
    BY <1>2 DEF Taker, Lowered
  <2> QED
    BY <2>1 DEF GatesUp, Gates
<1>3. CASE \E x \in Gates : g = {x}
  <2>1. \A x \in {g \ {Taker(g)}, Lowered(g)} : x = {} \/ x = g
    BY <1>3 DEF Lowered
  <2> QED
    BY <2>1 DEF GatesUp
<1> QED
  BY <1>1, <1>2, <1>3 DEF GatesUp

\* What cannot be drawn is withdrawn, and the gates left may be up together.
LEMMA GatesWithdrawn ==
  ASSUME NEW c \in CockpitStates, GatesUp(c.gates)
  PROVE  Withdrawn(c) \subseteq Gates /\ GatesUp(Withdrawn(c))
<1>1. Withdrawn(c) = c.gates \/ Withdrawn(c) = c.gates \ {c.raising}
  BY DEF Withdrawn
<1>2. c.gates \subseteq Gates
  BY CockpitFields
<1>3. CASE c.gates = {"arm", "identity"}
  BY <1>1, <1>2, <1>3 DEF GatesUp, Gates
<1>4. CASE c.gates # {"arm", "identity"}
  BY <1>1, <1>2, <1>4 DEF GatesUp
<1> QED
  BY <1>3, <1>4

\* Whatever is drawn, and whatever key or poll comes next, the screen object stays one.
LEMMA FrameKept == FrameInv /\ [FrameNext]_frameVars => FrameInv'
<1> SUFFICES ASSUME FrameInv, [FrameNext]_frameVars PROVE FrameInv'
  OBVIOUS
<1> DEFINE c == cockpit
<1>a. /\ c \in CockpitStates /\ GatesUp(c.gates) /\ OnRow(c.list) /\ c.list \in LoopLists /\ c.gates \subseteq Gates /\ c.off \subseteq Toggles
  BY CockpitFields DEF FrameInv, FrameTypes
<1>r. ASSUME NEW d, d \in CockpitStates, GatesUp(d.gates), OnRow(d.list), KeyRead(d) PROVE FrameInv'
  BY <1>r DEF FrameInv, FrameTypes, KeyRead, NoFrame
<1>1. CASE Draws
  <2>1. drawn'.is \in {"none", "message", "frame"}
    BY <1>1 DEF Draws, Frame, TooSmall
  <2>2. CASE ~Fits(c)
    BY <1>a, <1>1, <2>1, <2>2 DEF Draws, FrameInv, FrameTypes
  <2>3. CASE Fits(c)
    <3> DEFINE l == IF ~c.list.open THEN c.list ELSE IF c.raising = "chains" THEN Closed(c.list)
                    ELSE Followed(c.list, Window(c, LayoutOf(c)))
               g == Withdrawn(c)
    <3>1. l \in LoopLists /\ OnRow(l)
      <4>1. Window(c, LayoutOf(c)) \in Int
        BY <1>a, <2>3, ListRoom
      <4>2. Closed(c.list) \in LoopLists /\ OnRow(Closed(c.list))
        BY <1>a, ClosedList DEF OnRow
      <4> QED
        BY <1>a, <4>1, <4>2, FollowedList
    <3>2. g \in SUBSET Gates /\ GatesUp(g)
      BY <1>a, GatesWithdrawn
    <3>3. c' = [c EXCEPT !.gates = g, !.list = l]
      BY <1>1, <2>3 DEF Draws
    <3> HIDE DEF g, l
    <3>4. c' \in CockpitStates /\ c'.gates = g /\ c'.list = l
      BY <1>a, <3>1, <3>2, <3>3 DEF CockpitStates
    <3> QED
      BY <2>1, <3>1, <3>2, <3>4 DEF FrameInv, FrameTypes
  <2> QED
    BY <2>2, <2>3
<1>2. CASE OpensList
  BY <1>a, <1>r, <1>2, OpenedList, CockpitChanged, ZenonT(30) DEF OpensList
<1>3. CASE ClosesList
  <2>1. Closed(c.list) \in LoopLists /\ OnRow(Closed(c.list))
    BY <1>a, ClosedList DEF OnRow
  <2> QED
    BY <1>a, <1>r, <1>3, <2>1, CockpitChanged DEF ClosesList
<1>4. ASSUME NEW delta \in {1, -1}, MovesInList(delta) PROVE FrameInv'
  <2>1. Moved(c.list, delta) \in LoopLists /\ OnRow(Moved(c.list, delta))
    BY <1>a, <1>4, MovedList DEF MovesInList
  <2> QED
    BY <1>a, <1>r, <1>4, <2>1, CockpitChanged DEF MovesInList
<1>5. CASE AnswersGate
  <2> DEFINE g == c.gates \ {Taker(c.gates)}
  <2>1. KeyRead([c EXCEPT !.gates = g])
    BY <1>a, <1>5 DEF AnswersGate, CockpitStates
  <2>2. g \in SUBSET Gates /\ GatesUp(g)
    BY <1>a, GatesLowered
  <2> HIDE DEF g
  <2> QED
    BY <1>a, <1>r, <2>1, <2>2, CockpitChanged
<1>6. ASSUME NEW t \in Flippable, Flips(t) PROVE FrameInv'
  <2> DEFINE off == IF t \in c.off THEN c.off \ {t} ELSE c.off \cup {t}
  <2>1. off \in SUBSET Toggles
    BY <1>a, FrameAssumption
  <2>2. KeyRead([c EXCEPT !.off = off])
    BY <1>6 DEF Flips
  <2> HIDE DEF off
  <2> QED
    BY <1>a, <1>r, <2>1, <2>2, CockpitChanged
<1>7. ASSUME NEW gate \in Gates, Raises(gate) PROVE FrameInv'
  <2> DEFINE g == {gate} \cup (c.gates \ {"draft"})
  <2>1. g \in SUBSET Gates /\ GatesUp(g)
    BY <1>a, <1>7 DEF Raises, GatesUp, Gates
  <2>2. KeyRead([c EXCEPT !.gates = g])
    BY <1>7 DEF Raises
  <2> HIDE DEF g
  <2> QED
    BY <1>a, <1>r, <2>1, <2>2, CockpitChanged
<1>8. ASSUME NEW size \in Shrunk, Resizes(size) PROVE FrameInv'
  <2>1. size \in Nat \X Nat
    BY FrameAssumption
  <2>2. KeyRead([c EXCEPT !.size = size, !.gates = Lowered(c.gates)])
    BY <1>a, <1>8 DEF Resizes, CockpitStates
  <2>3. Lowered(c.gates) \in SUBSET Gates /\ GatesUp(Lowered(c.gates))
    BY <1>a, GatesLowered
  <2> DEFINE g == Lowered(c.gates)
             d == [c EXCEPT !.size = size, !.gates = g]
  <2> HIDE DEF g
  <2>4. d \in CockpitStates /\ d.gates = g /\ d.list = c.list
    BY <1>a, <2>1, <2>3 DEF CockpitStates, g
  <2> QED
    <3>1. KeyRead(d)
      BY <2>2 DEF g
    <3>2. GatesUp(g)
      BY <2>3 DEF g
    <3> HIDE DEF d
    <3>3. GatesUp(d.gates) /\ OnRow(d.list)
      BY <1>a, <2>4, <3>2
    <3> QED
      BY <1>r, <2>4, <3>1, <3>3
<1>9. ASSUME NEW report \in Reports, PollBrings(report) PROVE FrameInv'
  BY <1>a, <1>r, <1>9, CockpitChanged, FrameAssumption DEF PollBrings
<1>10. CASE UNCHANGED frameVars
  BY <1>10 DEF frameVars, FrameInv, FrameTypes
<1> QED
  BY <1>1, <1>2, <1>3, <1>4, <1>5, <1>6, <1>7, <1>8, <1>9, <1>10 DEF FrameNext, Gates

\* A scene to start with is a cockpit with at most one gate.
LEMMA FrameStarts == FrameInit => FrameInv
<1> SUFFICES ASSUME FrameInit PROVE FrameInv
  OBVIOUS
<1>1. cockpit \in CockpitStates /\ cockpit.gates = {} /\ ~cockpit.list.open /\ drawn.is = "none"
  BY FrameAssumption DEF FrameInit, NoFrame
<1> QED
  BY <1>1 DEF FrameInv, FrameTypes, GatesUp, OnRow

\* Whatever the list, the gates, the terminal and the reports go through, the
\* screen object stays one: its section, its gates and what is on the screen.
THEOREM FrameIsTyped == FrameSpec => []FrameTypeOK
<1>1. FrameInv => FrameTypeOK
  BY CockpitFields, ListFields DEF FrameInv, FrameTypes, FrameTypeOK, Gates
<1> QED
  BY <1>1, FrameStarts, FrameKept, PTL DEF FrameSpec

-----------------------------------------------------------------------------
(* What a frame shows *)

\* The frame of a cockpit on a terminal that is not too small, and the cockpit it leaves.
DrawnList(c) ==
  IF ~c.list.open THEN c.list
  ELSE IF c.raising = "chains" THEN Closed(c.list) ELSE Followed(c.list, Window(c, LayoutOf(c)))
Frames == Fits(cockpit) /\ drawn' = Frame(cockpit, LayoutOf(cockpit))
          /\ cockpit' = [cockpit EXCEPT !.gates = Withdrawn(cockpit), !.list = DrawnList(cockpit)]

\* A frame leaves all of the cockpit but its gates and its list.
LEMMA FrameLeaves ==
  ASSUME FrameTypes, Frames
  PROVE  /\ cockpit'.size = cockpit.size /\ cockpit'.status = cockpit.status /\ cockpit'.text = cockpit.text
         /\ cockpit'.life = cockpit.life /\ cockpit'.raising = cockpit.raising
         /\ cockpit'.gates = Withdrawn(cockpit) /\ cockpit'.list = DrawnList(cockpit)
         /\ Status(cockpit') = Status(cockpit) /\ Halting(cockpit') = Halting(cockpit) /\ LayoutOf(cockpit') = LayoutOf(cockpit)
<1> DEFINE g == Withdrawn(cockpit)
           l == DrawnList(cockpit)
           d == [cockpit EXCEPT !.gates = g, !.list = l]
<1>1. cockpit' = d
  BY DEF Frames
<1> HIDE DEF g, l
<1>2. /\ d.size = cockpit.size /\ d.status = cockpit.status /\ d.text = cockpit.text /\ d.life = cockpit.life
      /\ d.raising = cockpit.raising /\ d.gates = g /\ d.list = l
  BY DEF FrameTypes, CockpitStates
<1> HIDE DEF d
<1>3. Status(d) = Status(cockpit)
  BY <1>2 DEF Status
<1>4. Halting(d) = Halting(cockpit)
  BY <1>3 DEF Halting
<1>5. LayoutOf(d) = LayoutOf(cockpit)
  BY <1>2, <1>4 DEF LayoutOf
<1> QED
  BY <1>1, <1>2, <1>3, <1>4, <1>5 DEF g, l

\* The gate that takes the next key is the one whose prompt was painted last.
LEMMA GateShown ==
  ASSUME NEW c \in CockpitStates, GatesUp(c.gates), Withdrawn(c) # {"arm", "identity"}
  PROVE  PaintedPrompt(c) = Taker(Withdrawn(c))
<1>1. CASE c.gates = {}
  <2>1. Withdrawn(c) = {}
    BY <1>1 DEF Withdrawn
  <2> QED
    BY <1>1, <2>1 DEF PaintedPrompt, Taker
<1>2. CASE c.gates = {"arm", "identity"}
  <2>1. CASE c.raising = "arm"
    <3>1. Withdrawn(c) = {"identity"} /\ c.gates \ {c.raising} = {"identity"}
      BY <1>2, <2>1 DEF Withdrawn
    <3> QED
      BY <3>1 DEF PaintedPrompt, Taker
  <2>2. CASE c.raising = "identity"
    <3>1. Withdrawn(c) = {"arm"} /\ c.gates \ {c.raising} = {"arm"}
      BY <1>2, <2>2 DEF Withdrawn
    <3> QED
      BY <3>1 DEF PaintedPrompt, Taker
  <2>3. CASE c.raising \notin {"arm", "identity"}
    <3>1. Withdrawn(c) = {"arm", "identity"}
      BY <1>2, <2>3 DEF Withdrawn
    <3> QED
      BY <3>1
  <2> QED
    BY <2>1, <2>2, <2>3
<1>3. ASSUME NEW g \in Gates, c.gates = {g} PROVE PaintedPrompt(c) = Taker(Withdrawn(c))
  <2>1. CASE c.raising = g
    <3>1. Withdrawn(c) = {} /\ c.gates \ {c.raising} = {}
      BY <1>3, <2>1 DEF Withdrawn
    <3> QED
      BY <3>1 DEF PaintedPrompt, Taker
  <2>2. CASE c.raising # g
    <3>1. Withdrawn(c) = {g} /\ c.gates \ {c.raising} = {g}
      BY <1>3, <2>2 DEF Withdrawn
    <3> QED
      BY <3>1 DEF PaintedPrompt, Taker, Gates
  <2> QED
    BY <2>1, <2>2
<1> QED
  BY <1>1, <1>2, <1>3 DEF GatesUp

\* A halt's banner has three lines, and they say why and who.
LEMMA BannerTells ==
  ASSUME NEW c \in CockpitStates, Fits(c), Halting(c)
  PROVE  LET banner == Banner(c, LayoutOf(c).intervention)
         IN /\ banner # <<>>
            /\ c.raising # "banner" =>
                 /\ banner[1] # {} /\ {r \in ToSet(c.status.reasons) : r # "none"} \subseteq banner[1]
                 /\ banner[2] = {"HUMAN"} <=> c.status.mode = "human"
                 /\ Len(banner) = 3
<1> DEFINE region == LayoutOf(c).intervention
           lines == c.size[1]
           cols == c.size[2]
<1>1. lines \in Int /\ cols \in Int /\ Drawable(lines, cols)
  BY CockpitFields DEF Fits
<1>2. region.w = InnerW(cols) /\ region.h = BannerAt(lines, Halting(c))
  BY DEF LayoutOf, Layout, Region
<1>h. BannerAt(lines, Halting(c)) = 3
  BY <1>1, StatusFields, RowsAddUp
<1>w. InnerW(cols) = cols - 2 /\ cols - 2 > 0
  BY <1>1 DEF InnerW, Pad, Drawable
<1>3. region.h = 3 /\ region.w = cols - 2 /\ Has(region)
  <2> DEFINE width == InnerW(cols)
             height == BannerAt(lines, Halting(c))
             room == cols - 2
  <2>1. region.w = width /\ region.h = height /\ height = 3 /\ width = room /\ room > 0
    BY <1>2, <1>h, <1>w
  <2> HIDE DEF region, width, height, room
  <2>2. region.h = 3 /\ region.w = room /\ Has(region)
    BY <2>1 DEF Has
  <2> QED
    BY <2>2 DEF room
<1> HIDE DEF region
<1>4. Status(c) = c.status /\ c.status.needs /\ c.status \in Statuses
  BY CockpitFields DEF Halting, Status, Unheard
<1>5. CASE c.raising = "banner"
  BY <1>3, <1>5 DEF Banner, region
<1>6. CASE c.raising # "banner"
  <2> DEFINE why == IF c.status.reasons = <<>> THEN {"?"} ELSE {Reason(r) : r \in ToSet(c.status.reasons)}
             who == {Holder(c.status.mode)}
             banner == Banner(c, region)
  <2>1. banner = SubSeq(<<why, who, {"teach"}>>, 1, Lesser(3, 3))
    BY <1>3, <1>4, <1>6 DEF Banner, BannerLines
  <2>2. why # {} /\ {r \in ToSet(c.status.reasons) : r # "none"} \subseteq why
    <3>1. CASE c.status.reasons = <<>>
      <4>1. ToSet(c.status.reasons) = {}
        BY <3>1 DEF ToSet
      <4> QED
        BY <3>1, <4>1
    <3>2. CASE c.status.reasons # <<>>
      <4>1. c.status.reasons \in Seq(STRING)
        BY <1>4 DEF Statuses
      <4>2. c.status.reasons[1] \in ToSet(c.status.reasons)
        BY <3>2, <4>1 DEF ToSet
      <4>3. \A r \in ToSet(c.status.reasons) : Reason(r) \in why
        BY <3>2
      <4>4. \A r : r # "none" => Reason(r) = r
        BY DEF Reason
      <4> QED
        BY <4>2, <4>3, <4>4
    <3> QED
      BY <3>1, <3>2
  <2>3. who = {"HUMAN"} <=> c.status.mode = "human"
    <3>1. c.status.mode \in {"", "app", "human", "spectate"}
      BY <1>4 DEF Statuses
    <3> QED
      BY <3>1 DEF Holder
  <2> HIDE DEF why, who, banner
  <2> DEFINE told == <<why, who, {"teach"}>>
             Says == {why, who, {"teach"}}
  <2>3a. told \in Seq(Says) /\ Len(told) = 3
    OBVIOUS
  <2>3b. SubSeq(told, 1, 3) = told
    <3> HIDE DEF told, Says
    <3> QED
      BY <2>3a
  <2>4. banner = <<why, who, {"teach"}>>
    BY <2>1, <2>3b DEF Lesser
  <2>5. banner # <<>> /\ banner[1] = why /\ banner[2] = who /\ Len(banner) = 3
    BY <2>4
  <2> QED
    BY <2>2, <2>3, <2>5 DEF banner, region
<1> QED
  BY <1>5, <1>6

\* The box of the logs has one row, which the status text takes.
LEMMA TextLast ==
  ASSUME NEW c \in CockpitStates, Fits(c), c.text
  PROVE  LET logs == LogRows(c, Inner(LayoutOf(c).logs.h)) IN Len(logs) = 1 /\ Last(logs) = "text"
<1> DEFINE lines == c.size[1]
           cols == c.size[2]
<1>1. lines \in Int /\ cols \in Int /\ Drawable(lines, cols)
  BY CockpitFields DEF Fits
<1>2. LayoutOf(c).logs.h = 3
  <2>1. LayoutOf(c).logs.h = LogsAt(lines)
    BY DEF LayoutOf, Layout, Region
  <2> QED
    BY <1>1, <2>1, RowsAddUp
<1>3. Inner(LayoutOf(c).logs.h) = 1
  BY <1>2 DEF Inner, Greater
<1>4. TailRoom(c, 1) = 0 /\ Lesser(0, Status(c).tail) = 0
  <2>1. TailRoom(c, 1) = 1 - 1
    BY DEF TailRoom
  <2>2. Status(c).tail \in Nat
    BY StatusFields
  <2> QED
    BY <2>1, <2>2 DEF Lesser
<1>5. LogRows(c, 1) = <<"text">>
  <2> DEFINE real == Status(c).tail > 0 /\ c.raising # "logs"
             none == [i \in 1..0 |-> "entry"]
             entries == IF real THEN [i \in 1..Lesser(TailRoom(c, 1), Status(c).tail) |-> "entry"]
                        ELSE IF c.text THEN <<>> ELSE <<"none yet">>
             rows == entries \o (IF c.text THEN <<"text">> ELSE <<>>)
  <2>1. LogRows(c, 1) = SubSeq(rows, 1, Lesser(Len(rows), 1))
    BY DEF LogRows
  <2>2. none = <<>>
    OBVIOUS
  <2>3. entries = <<>>
    BY <1>4, <2>2
  <2>3a. rows = entries \o <<"text">>
    OBVIOUS
  <2> HIDE DEF entries
  <2>4. rows = <<"text">>
    BY <2>3, <2>3a
  <2> HIDE DEF rows
  <2> QED
    BY <2>1, <2>4 DEF Lesser
<1> QED
  BY <1>3, <1>5 DEF Last

\* The goals are told in their box or with the decisions.
LEMMA GoalsWithDecisions ==
  ASSUME NEW c, NEW lay, c.raising # "decisions", "decisions" \in DOMAIN PanelsShown(c, lay)
  PROVE  "goals" \in DOMAIN PanelsShown(c, lay) \/ PanelsShown(c, lay)["decisions"] = "folded"
<1> DEFINE there == {q \in {"goals", "left_gutter", "center", "chain", "right_gutter", "decisions"} :
                       Has(lay[q]) /\ (q = "chain" => ~c.list.open)}
<1>1. PanelsShown(c, lay) = [p \in there |-> Shows(p, c, lay)]
  BY DEF PanelsShown
<1>2. "goals" \in there \/ ~Has(lay["goals"])
  OBVIOUS
<1>3. lay["goals"] = lay.goals
  OBVIOUS
<1> HIDE DEF there
<1>4. CASE ~Has(lay.goals)
  <2>1. Shows("decisions", c, lay) = "folded"
    BY <1>4 DEF Shows
  <2> QED
    BY <1>1, <2>1
<1> QED
  BY <1>1, <1>2, <1>3, <1>4

\* The rows of the list.
RowNames == {"title", "nothing", "partial", "holds", "showing", "blank", "taught", "found"}
RowMarks == [is : RowNames, nr : Int, marked : BOOLEAN]

\* Two parts of the list one after the other.
LEMMA BothInOne ==
  ASSUME NEW p \in Seq(RowMarks), NEW q \in Seq(RowMarks)
  PROVE  /\ p \o q \in Seq(RowMarks) /\ Len(p) \in Nat /\ Len(q) \in Nat /\ Len(p \o q) = Len(p) + Len(q)
         /\ \A i \in 1..Len(p) : (p \o q)[i] = p[i]
         /\ \A j \in 1..Len(q) : (p \o q)[Len(p) + j] = q[j]
<1> DEFINE S == RowMarks
<1>1. p \in Seq(S) /\ q \in Seq(S)
  OBVIOUS
<1> HIDE DEF S
<1>2. /\ p \o q \in Seq(S) /\ Len(p) \in Nat /\ Len(q) \in Nat /\ Len(p \o q) = Len(p) + Len(q)
      /\ \A i \in 1..Len(p) : (p \o q)[i] = p[i]
      /\ \A j \in 1..Len(q) : (p \o q)[Len(p) + j] = q[j]
  BY <1>1
<1> QED
  BY <1>2 DEF S

\* A note, and one that may be left out.
LEMMA NoteRow ==
  ASSUME NEW is \in RowNames, NEW there \in BOOLEAN
  PROVE  /\ <<Note(is)>> \in Seq(RowMarks) /\ Len(<<Note(is)>>) = 1
         /\ (IF there THEN <<Note(is)>> ELSE <<>>) \in Seq(RowMarks)
         /\ Len(IF there THEN <<Note(is)>> ELSE <<>>) = (IF there THEN 1 ELSE 0)
<1>1. Note(is) \in RowMarks
  BY DEF Note, Row, RowMarks
<1>2. \A x \in RowMarks : <<x>> \in Seq(RowMarks) /\ Len(<<x>>) = 1
  OBVIOUS
<1>3. <<>> \in Seq(RowMarks) /\ Len(<<>>) = 0
  OBVIOUS
<1>4. CASE there
  BY <1>1, <1>2, <1>4
<1>5. CASE ~there
  BY <1>1, <1>2, <1>3, <1>5
<1> QED
  BY <1>4, <1>5

\* What the window of the discovered rows shows when it stands over the cursor:
\* the cursor's row, within the notes and the window.
LEMMA CursorInWindow ==
  ASSUME NEW l \in LoopLists, NEW w \in Int, w > 0, NEW holds \in BOOLEAN,
         l.section = "discovered", l.discovered > 0, l.found < l.discovered,
         l.scroll <= l.found, l.found < l.scroll + w, l.scroll <= Greater(0, l.discovered - w),
         ~(l.truncated /\ holds /\ l.discovered > w)
  PROVE  LET rows == FoundRows(l, w, holds)
         IN /\ rows \in Seq(RowMarks)
            /\ \E j \in 1..Len(rows) : j <= 3 + w /\ rows[j].marked /\ rows[j].nr = l.found
<1> DEFINE first == Lesser(l.scroll, l.discovered - 1)
           last == Lesser(l.discovered, first + w)
           start == IF last - first < w THEN Greater(0, last - w) ELSE first
           title == <<Note("title")>>
           partial == IF l.truncated THEN <<Note("partial")>> ELSE <<>>
           held == IF holds THEN <<Note("holds")>> ELSE <<>>
           showing == IF l.discovered > w THEN <<Note("showing")>> ELSE <<>>
           row(n) == Row("found", n, l.section = "discovered" /\ l.found = n)
           below == [i \in 1..(last - start) |-> row(start + i - 1)]
<1>0. /\ l.found \in Nat /\ l.scroll \in Nat /\ l.discovered \in Nat /\ l.truncated \in BOOLEAN
  BY ListFields
<1>1. FoundRows(l, w, holds) = title \o partial \o held \o showing \o below
  <2>1. l.discovered # 0
    BY <1>0
  <2> HIDE DEF first, last, start
  <2> QED
    BY <2>1, Zenon DEF FoundRows, first, last, start
<1>2. first = l.scroll
  BY <1>0 DEF Lesser
<1>3. start = l.scroll /\ last \in Int /\ last > l.found /\ last <= l.scroll + w
  <2>1. CASE l.discovered >= w
    <3>1. l.scroll + w <= l.discovered
      BY <1>0, <2>1 DEF Greater
    <3>2. last = l.scroll + w
      BY <1>0, <1>2, <3>1 DEF Lesser
    <3> QED
      BY <1>0, <1>2, <3>2
  <2>2. CASE l.discovered < w
    <3>1. l.scroll = 0
      BY <1>0, <2>2 DEF Greater
    <3>2. last = l.discovered
      BY <1>0, <1>2, <2>2, <3>1 DEF Lesser
    <3>3. start = 0
      BY <1>0, <1>2, <2>2, <3>1, <3>2 DEF Greater
    <3> QED
      BY <1>0, <2>2, <3>1, <3>2, <3>3
  <2> QED
    BY <1>0, <2>1, <2>2
<1> HIDE DEF first
<1>4. title \in Seq(RowMarks) /\ Len(title) = 1
  BY NoteRow DEF RowNames
<1>5. partial \in Seq(RowMarks) /\ Len(partial) = (IF l.truncated THEN 1 ELSE 0)
  BY <1>0, NoteRow DEF RowNames
<1>6. held \in Seq(RowMarks) /\ Len(held) = (IF holds THEN 1 ELSE 0)
  BY NoteRow DEF RowNames
<1>7. showing \in Seq(RowMarks) /\ Len(showing) = (IF l.discovered > w THEN 1 ELSE 0)
  BY <1>0, NoteRow DEF RowNames
<1> DEFINE m == last - start
<1>8. m \in Nat /\ l.found - l.scroll + 1 \in 1..m /\ m <= w
  BY <1>0, <1>3
<1>9. below \in Seq(RowMarks) /\ Len(below) = m /\ \A i \in 1..m : below[i] = row(l.scroll + i - 1)
  <2>1. below = [i \in 1..m |-> row(l.scroll + i - 1)]
    BY <1>3
  <2>2. \A i \in 1..m : row(l.scroll + i - 1) \in RowMarks
    BY <1>0, <1>8 DEF Row, RowMarks, RowNames
  <2> HIDE DEF below, m, row
  <2> QED
    BY <1>8, <2>1, <2>2
<1>10. row(l.found).marked /\ row(l.found).nr = l.found
  BY DEF Row
<1> HIDE DEF title, partial, held, showing, below, m, start, last, row
<1>11. title \o partial \in Seq(RowMarks) /\ Len(title \o partial) = 1 + Len(partial)
  <2>1. title \o partial \in Seq(RowMarks) /\ Len(title \o partial) = Len(title) + Len(partial)
    BY <1>4, <1>5, BothInOne
  <2> QED
    BY <1>4, <2>1
<1>12. title \o partial \o held \in Seq(RowMarks) /\ Len(title \o partial \o held) = 1 + Len(partial) + Len(held)
  BY <1>6, <1>11, BothInOne
<1> DEFINE notes == title \o partial \o held \o showing
<1>13. notes \in Seq(RowMarks) /\ Len(notes) = 1 + Len(partial) + Len(held) + Len(showing)
  BY <1>7, <1>12, BothInOne
<1>14. Len(notes) \in Nat /\ Len(notes) <= 3
  BY <1>0, <1>5, <1>6, <1>7, <1>13
<1> HIDE DEF notes
<1> DEFINE rows == notes \o below
           k == l.found - l.scroll + 1
<1>15. rows \in Seq(RowMarks) /\ Len(rows) = Len(notes) + m /\ rows[Len(notes) + k] = below[k]
  BY <1>8, <1>9, <1>13, BothInOne
<1>16. below[k] = row(l.found)
  BY <1>0, <1>8, <1>9
<1>17. Len(notes) + k \in 1..Len(rows) /\ Len(notes) + k <= 3 + w
  BY <1>0, <1>8, <1>14, <1>15, SMTT(30)
<1>18. FoundRows(l, w, holds) = rows
  BY <1>1 DEF notes
<1> HIDE DEF rows, k
<1> QED
  BY <1>10, <1>15, <1>16, <1>17, <1>18

\* The discovered part of the list is rows.
LEMMA FoundTyped ==
  ASSUME NEW l \in LoopLists, NEW w \in Int, w > 0, NEW holds \in BOOLEAN
  PROVE  FoundRows(l, w, holds) \in Seq(RowMarks)
<1> DEFINE first == Lesser(l.scroll, l.discovered - 1)
           last == Lesser(l.discovered, first + w)
           start == IF last - first < w THEN Greater(0, last - w) ELSE first
           title == <<Note("title")>>
           partial == IF l.truncated THEN <<Note("partial")>> ELSE <<>>
           nothing == <<Note("nothing")>>
           held == IF holds THEN <<Note("holds")>> ELSE <<>>
           showing == IF l.discovered > w THEN <<Note("showing")>> ELSE <<>>
           below == [i \in 1..(last - start) |-> Row("found", start + i - 1, l.section = "discovered" /\ l.found = start + i - 1)]
<1>0. /\ l.found \in Nat /\ l.scroll \in Nat /\ l.discovered \in Nat /\ l.truncated \in BOOLEAN
  BY ListFields
<1>1. title \in Seq(RowMarks) /\ partial \in Seq(RowMarks) /\ nothing \in Seq(RowMarks) /\ held \in Seq(RowMarks) /\ showing \in Seq(RowMarks)
  BY <1>0, NoteRow DEF RowNames
<1>2. title \o partial \in Seq(RowMarks)
  BY <1>1, BothInOne
<1>3. CASE l.discovered = 0
  <2>1. FoundRows(l, w, holds) = title \o partial \o nothing
    BY <1>3 DEF FoundRows
  <2> HIDE DEF title, partial, nothing
  <2> QED
    BY <1>1, <1>2, <2>1, BothInOne
<1>4. CASE l.discovered # 0
  <2>1. FoundRows(l, w, holds) = title \o partial \o held \o showing \o below
    <3> HIDE DEF first, last, start
    <3> QED
      BY <1>4, Zenon DEF FoundRows, first, last, start
  <2>2. last - start \in Nat /\ start \in Int
    <3>1. first \in Int /\ first < l.discovered
      BY <1>0, <1>4 DEF Lesser
    <3> HIDE DEF first
    <3>2. last \in Int /\ first <= last /\ last >= 0
      <4>1. first >= 0
        BY <1>0, <1>4 DEF first, Lesser
      <4> QED
        BY <1>0, <3>1, <4>1 DEF Lesser
    <3> HIDE DEF last
    <3> QED
      BY <3>1, <3>2 DEF Greater
  <2> DEFINE m == last - start
             row(i) == Row("found", start + i - 1, l.section = "discovered" /\ l.found = start + i - 1)
  <2> HIDE DEF start
  <2>3. \A i \in 1..m : row(i) \in RowMarks
    BY <2>2 DEF Row, RowMarks, RowNames
  <2>4. below = [i \in 1..m |-> row(i)]
    OBVIOUS
  <2> HIDE DEF m, row, title, partial, held, showing, below
  <2>5. below \in Seq(RowMarks)
    BY <2>2, <2>3, <2>4 DEF m
  <2>6. title \o partial \o held \in Seq(RowMarks)
    BY <1>1, <1>2, BothInOne
  <2>7. title \o partial \o held \o showing \in Seq(RowMarks)
    BY <1>1, <2>6, BothInOne
  <2> QED
    BY <2>1, <2>5, <2>7, BothInOne
<1> QED
  BY <1>3, <1>4

\* A window that follows the row stands over it.
LEMMA WindowFollows ==
  ASSUME NEW l \in LoopLists, NEW w \in Int, w > 0
  PROVE  LET m == Followed(l, w)
         IN /\ m.open = l.open /\ m.section = l.section /\ m.index = l.index /\ m.found = l.found
            /\ m.taught = l.taught /\ m.discovered = l.discovered /\ m.truncated = l.truncated
            /\ l.found < l.discovered =>
                 m.scroll <= m.found /\ m.found < m.scroll + w /\ m.scroll <= Greater(0, m.discovered - w)
<1> DEFINE at == IF l.found < l.scroll THEN l.found
                 ELSE IF l.found >= l.scroll + w THEN l.found - w + 1 ELSE l.scroll
           most == Greater(0, l.discovered - w)
           to == IF l.discovered = 0 THEN 0 ELSE Greater(0, Lesser(most, at))
<1>0. /\ l.found \in Nat /\ l.scroll \in Nat /\ l.discovered \in Nat
  BY ListFields
<1>1. Followed(l, w) = [l EXCEPT !.scroll = to]
  BY DEF Followed
<1>2. at \in Int /\ at <= l.found /\ l.found < at + w /\ most \in Nat
  BY <1>0 DEF Greater
<1>3. l.found < l.discovered => to <= l.found /\ l.found < to + w /\ to <= most
  <2> HIDE DEF at
  <2> QED
    BY <1>0, <1>2 DEF Greater, Lesser
<1> HIDE DEF to, at, most
<1> DEFINE m == [l EXCEPT !.scroll = to]
<1>4. /\ m.open = l.open /\ m.section = l.section /\ m.index = l.index /\ m.found = l.found
      /\ m.taught = l.taught /\ m.discovered = l.discovered /\ m.truncated = l.truncated /\ m.scroll = to
  BY DEF LoopLists
<1> HIDE DEF m
<1>5. Followed(l, w) = m
  BY <1>1 DEF m
<1> QED
  BY <1>3, <1>4, <1>5 DEF most

\* The row Enter would arm is on the screen of a list that is open.
LEMMA CursorShown ==
  ASSUME NEW c \in CockpitStates, OnRow(c.list), Fits(c), DrawnList(c).open,
         DrawnList(c).taught + 6 <= ListInner(LayoutOf(c)),
         ~(DrawnList(c).truncated /\ Status(c).holds /\ DrawnList(c).discovered > Window(c, LayoutOf(c))),
         DrawnList(c).taught + DrawnList(c).discovered > 0
  PROVE  LET l == DrawnList(c)
             shown == ListShown(c, Window(c, LayoutOf(c)), Inner(LayoutOf(c).center.h))
         IN \E i \in DOMAIN shown :
              /\ shown[i].marked
              /\ shown[i].nr = (IF l.section = "taught" THEN l.index ELSE l.found)
<1> DEFINE w == Window(c, LayoutOf(c))
           inner == ListInner(LayoutOf(c))
           l == Followed(c.list, w)
           holds == Status(c).holds
<1>1. c.list \in LoopLists /\ holds \in BOOLEAN
  BY CockpitFields, StatusFields
<1>2. c.list.open /\ c.raising # "chains" /\ DrawnList(c) = l
  BY <1>1, ClosedList DEF DrawnList
<1>3. w \in Int /\ w > 0 /\ inner \in Int /\ Inner(LayoutOf(c).center.h) = inner /\ inner >= 8
  BY ListRoom
<1>4. w = Greater(1, inner - (5 + Greater(1, c.list.taught)))
  BY DEF Window
<1> HIDE DEF w, inner
<1>5. l \in LoopLists /\ OnRow(l) /\ l.open /\ l.taught = c.list.taught /\ l.discovered = c.list.discovered /\ l.found = c.list.found
  BY <1>1, <1>2, <1>3, FollowedList, WindowFollows
<1>6. l.found < l.discovered => l.scroll <= l.found /\ l.found < l.scroll + w /\ l.scroll <= Greater(0, l.discovered - w)
  BY <1>1, <1>3, WindowFollows
<1> DEFINE rows == ListRows(l, w, holds)
           shown == SubSeq(rows, 1, Lesser(Len(rows), inner))
<1>7. ListShown(c, w, inner) = shown
  BY <1>2 DEF ListShown
<1> HIDE DEF l
<1>8. /\ l.section \in {"taught", "discovered"} /\ l.index \in Nat /\ l.found \in Nat /\ l.taught \in Nat /\ l.discovered \in Nat
  BY <1>5, ListFields
<1> DEFINE title == <<Note("title")>>
           taught == IF l.taught = 0 THEN <<Note("nothing")>>
                     ELSE [i \in 1..l.taught |-> Row("taught", i - 1, l.section = "taught" /\ l.index = i - 1)]
           blank == <<Note("blank")>>
           below == FoundRows(l, w, holds)
<1>9. rows = title \o taught \o blank \o below
  BY DEF ListRows
<1>10. title \in Seq(RowMarks) /\ Len(title) = 1 /\ blank \in Seq(RowMarks) /\ Len(blank) = 1
  BY NoteRow DEF RowNames
<1> DEFINE n == IF l.taught = 0 THEN 1 ELSE l.taught
<1>11. taught \in Seq(RowMarks) /\ Len(taught) = n /\ n \in Nat /\ n > 0
  <2>1. CASE l.taught = 0
    <3>1. taught = <<Note("nothing")>> /\ n = 1
      BY <2>1
    <3>2. <<Note("nothing")>> \in Seq(RowMarks) /\ Len(<<Note("nothing")>>) = 1
      BY NoteRow DEF RowNames
    <3> QED
      BY <3>1, <3>2
  <2>2. CASE l.taught # 0
    <3> DEFINE row(i) == Row("taught", i - 1, l.section = "taught" /\ l.index = i - 1)
    <3>1. taught = [i \in 1..l.taught |-> row(i)]
      BY <2>2
    <3>2. \A i \in 1..l.taught : row(i) \in RowMarks
      BY <1>8 DEF Row, RowMarks, RowNames
    <3> HIDE DEF taught, row
    <3> QED
      BY <1>8, <2>2, <3>1, <3>2
  <2> QED
    BY <2>1, <2>2
<1>12. below \in Seq(RowMarks)
  BY <1>3, <1>5, <1>1, FoundTyped
<1> HIDE DEF title, taught, blank, below, n
<1> DEFINE two == title \o taught
           head == title \o taught \o blank
<1>13. two \in Seq(RowMarks) /\ Len(two) = 1 + n /\ \A i \in 1..n : two[1 + i] = taught[i]
  <2>1. /\ two \in Seq(RowMarks) /\ Len(two) = Len(title) + Len(taught)
        /\ \A i \in 1..Len(taught) : two[Len(title) + i] = taught[i]
    BY <1>10, <1>11, BothInOne
  <2> HIDE DEF two
  <2> QED
    BY <1>10, <1>11, <2>1
<1>14. head = two \o blank
  OBVIOUS
<1> HIDE DEF two, head
<1>15. head \in Seq(RowMarks) /\ Len(head) = 2 + n /\ \A i \in 1..n : head[1 + i] = taught[i]
  <2>1. head \in Seq(RowMarks) /\ Len(head) = Len(two) + 1 /\ \A i \in 1..Len(two) : head[i] = two[i]
    <3>1. two \o blank \in Seq(RowMarks) /\ Len(two \o blank) = Len(two) + Len(blank) /\ \A i \in 1..Len(two) : (two \o blank)[i] = two[i]
      BY <1>10, <1>13, BothInOne, ZenonT(30)
    <3> QED
      BY <1>10, <1>14, <3>1
  <2> QED
    BY <1>11, <1>13, <2>1
<1>16. rows = head \o below
  BY <1>9 DEF head
<1> HIDE DEF rows
<1>17. /\ rows \in Seq(RowMarks) /\ Len(rows) = 2 + n + Len(below) /\ Len(below) \in Nat
       /\ \A i \in 1..n : rows[1 + i] = taught[i]
       /\ \A j \in 1..Len(below) : rows[2 + n + j] = below[j]
  <2>1. /\ rows \in Seq(RowMarks) /\ Len(rows) = Len(head) + Len(below) /\ Len(below) \in Nat
        /\ \A i \in 1..Len(head) : rows[i] = head[i]
        /\ \A j \in 1..Len(below) : rows[Len(head) + j] = below[j]
    BY <1>12, <1>15, <1>16, BothInOne
  <2> QED
    BY <1>11, <1>15, <2>1
<1>18. ASSUME NEW i \in 1..Len(rows), i <= inner PROVE i \in DOMAIN shown /\ shown[i] = rows[i]
  <2> DEFINE most == Lesser(Len(rows), inner)
  <2>1. most \in Int /\ i <= most /\ 0 <= most /\ most <= Len(rows)
    BY <1>3, <1>17, <1>18 DEF Lesser
  <2> HIDE DEF most
  <2>2. DOMAIN shown = 1..most /\ \A k \in 1..most : shown[k] = rows[k]
    BY <1>17, <2>1 DEF most
  <2> HIDE DEF shown
  <2>3. i \in 1..most
    BY <1>17, <1>18, <2>1
  <2> QED
    BY <2>2, <2>3
<1> HIDE DEF shown
<1>19. l.taught + 6 <= inner /\ ~(l.truncated /\ holds /\ l.discovered > w) /\ l.taught + l.discovered > 0
  BY <1>2 DEF w, inner, holds
<1>20. CASE l.section = "taught"
  <2>1. l.taught > 0 /\ l.index < l.taught /\ n = l.taught
    BY <1>5, <1>8, <1>19, <1>20 DEF OnRow, n
  <2> DEFINE i == l.index + 1
  <2>2. i \in 1..n /\ 1 + i \in 1..Len(rows) /\ 1 + i <= inner
    <3>1. Len(rows) = 2 + n + Len(below) /\ Len(below) \in Nat
      BY <1>17
    <3>2. l.index \in Nat /\ l.taught \in Nat /\ inner \in Int /\ l.taught + 6 <= inner
      BY <1>3, <1>8, <1>19
    <3>3. i \in 1..n /\ 1 + i <= inner
      BY <2>1, <3>2
    <3>4. \A k, t, f \in Nat : k < t => 1 + (k + 1) \in 1..(2 + t + f)
      OBVIOUS
    <3>5. 1 + i \in 1..(2 + n + Len(below))
      BY <2>1, <3>1, <3>2, <3>4
    <3> QED
      BY <3>1, <3>3, <3>5
  <2>3. taught[i].marked /\ taught[i].nr = l.index
    <3>1. taught = [k \in 1..l.taught |-> Row("taught", k - 1, l.section = "taught" /\ l.index = k - 1)]
      BY <2>1 DEF taught
    <3>2. i \in 1..l.taught /\ i - 1 = l.index
      BY <1>8, <2>1
    <3> DEFINE row == Row("taught", l.index, TRUE)
    <3>3. taught[i] = row
      BY <1>20, <3>1, <3>2
    <3>4. row.marked /\ row.nr = l.index
      BY DEF Row
    <3> HIDE DEF i, taught, row
    <3> QED
      BY <3>3, <3>4
  <2> HIDE DEF i
  <2>4. 1 + i \in DOMAIN shown /\ shown[1 + i].marked /\ shown[1 + i].nr = l.index
    BY <1>17, <1>18, <2>2, <2>3
  <2> QED
    BY <1>2, <1>3, <1>7, <1>20, <2>4 DEF w
<1>21. CASE l.section = "discovered"
  <2>1. l.discovered > 0 /\ l.found < l.discovered
    BY <1>5, <1>21 DEF OnRow
  <2>2. PICK j \in 1..Len(below) : j <= 3 + w /\ below[j].marked /\ below[j].nr = l.found
    BY <1>1, <1>3, <1>5, <1>6, <1>19, <1>21, <2>1, CursorInWindow DEF below
  <2>3. 2 + n + j \in 1..Len(rows) /\ 2 + n + j <= inner
    <3>1. 5 + n + w <= inner
      BY <1>3, <1>4, <1>5, <1>8, <1>19 DEF n, Greater
    <3> QED
      BY <1>3, <1>11, <1>17, <2>2, <3>1
  <2>4. 2 + n + j \in DOMAIN shown /\ shown[2 + n + j] = below[j]
    BY <1>17, <1>18, <2>2, <2>3
  <2> QED
    BY <1>2, <1>3, <1>7, <1>21, <2>2, <2>4 DEF w
<1> QED
  BY <1>8, <1>20, <1>21

\* The pieces of the control strip.
PieceNames == {"label", "gap", "meter", "band", "life"}
Pieces == [is : PieceNames, len : Nat]
Wide(q) == q \in Seq(Pieces) /\ \A i \in DOMAIN q : q[i].len > 0

\* A piece more, as many columns more.
LEMMA OneMore ==
  ASSUME NEW q, Wide(q), Len(q) < 6, NEW piece \in Pieces, piece.len > 0
  PROVE  /\ Wide(Append(q, piece)) /\ Len(Append(q, piece)) = Len(q) + 1 /\ Last(Append(q, piece)) = piece
         /\ Length(q) \in Nat /\ Length(Append(q, piece)) = Length(q) + piece.len
<1> DEFINE r == Append(q, piece)
           n == Len(q)
           L(p, i) == IF i \in DOMAIN p THEN p[i].len ELSE 0
<1>1. q \in Seq(Pieces) /\ n \in 0..5 /\ DOMAIN q = 1..n /\ \A i \in 1..n : q[i] \in Pieces /\ q[i].len > 0
  <2>1. q \in Seq(Pieces) /\ \A i \in DOMAIN q : q[i].len > 0
    BY DEF Wide
  <2>2. Len(q) \in Nat /\ DOMAIN q = 1..Len(q) /\ \A i \in 1..Len(q) : q[i] \in Pieces
    BY <2>1
  <2> QED
    BY <2>1, <2>2
<1>2. r \in Seq(Pieces) /\ Len(r) = n + 1 /\ DOMAIN r = 1..(n + 1) /\ r[n + 1] = piece /\ \A i \in 1..n : r[i] = q[i]
  BY <1>1
<1>3. \A i \in 1..n : q[i].len \in Nat
  BY <1>1 DEF Pieces
<1>4. piece.len \in Nat
  BY DEF Pieces
<1> HIDE DEF r
<1>5. Wide(r) /\ Last(r) = piece
  <2>1. ASSUME NEW i \in 1..(n + 1) PROVE r[i].len > 0
    <3>1. CASE i = n + 1
      BY <1>2, <3>1
    <3>2. CASE i # n + 1
      <4>1. i \in 1..n
        BY <1>1, <3>2
      <4> QED
        BY <1>1, <1>2, <4>1
    <3> QED
      BY <3>1, <3>2
  <2> QED
    BY <1>2, <2>1 DEF Wide, Last
<1>6. \A i \in 1..6 : L(q, i) \in Nat /\ L(r, i) \in Nat /\ L(r, i) = (IF i = n + 1 THEN piece.len ELSE L(q, i)) /\ (i > n => L(q, i) = 0)
  <2> SUFFICES ASSUME NEW i \in 1..6
               PROVE  L(q, i) \in Nat /\ L(r, i) \in Nat /\ L(r, i) = (IF i = n + 1 THEN piece.len ELSE L(q, i)) /\ (i > n => L(q, i) = 0)
    OBVIOUS
  <2>1. CASE i <= n
    <3>1. i \in 1..n /\ i \in 1..(n + 1) /\ i # n + 1
      BY <1>1, <2>1
    <3>2. L(q, i) = q[i].len /\ L(r, i) = q[i].len /\ q[i].len \in Nat
      BY <1>1, <1>2, <1>3, <3>1
    <3> QED
      BY <1>1, <2>1, <3>1, <3>2
  <2>2. CASE i = n + 1
    <3>1. i \notin 1..n /\ i \in 1..(n + 1)
      BY <1>1, <2>2
    <3>2. L(q, i) = 0 /\ L(r, i) = piece.len
      BY <1>1, <1>2, <2>2, <3>1
    <3> QED
      BY <1>4, <2>2, <3>2
  <2>3. CASE i > n + 1
    <3>1. i \notin 1..n /\ i \notin 1..(n + 1) /\ i # n + 1
      BY <1>1, <2>3
    <3>2. L(q, i) = 0 /\ L(r, i) = 0
      BY <1>1, <1>2, <3>1
    <3> QED
      BY <3>1, <3>2
  <2> QED
    BY <1>1, <2>1, <2>2, <2>3
<1>7. Length(q) = L(q, 1) + L(q, 2) + L(q, 3) + L(q, 4) + L(q, 5) + L(q, 6)
  BY DEF Length
<1>8. Length(r) = L(r, 1) + L(r, 2) + L(r, 3) + L(r, 4) + L(r, 5) + L(r, 6)
  BY DEF Length
<1> HIDE DEF L, n
<1>9. Length(q) \in Nat /\ Length(r) = Length(q) + piece.len
  <2>1. n \in {0, 1, 2, 3, 4, 5}
    BY <1>1
  <2>2. ASSUME NEW i \in 1..6
        PROVE  L(q, i) \in Nat /\ L(r, i) \in Nat /\ L(r, i) = L(q, i) + (IF i = n + 1 THEN piece.len ELSE 0)
    <3>1. L(q, i) \in Nat /\ L(r, i) \in Nat
      BY <1>6
    <3>2. L(r, i) = (IF i = n + 1 THEN piece.len ELSE L(q, i)) /\ (i > n => L(q, i) = 0)
      BY <1>6
    <3>3. CASE i = n + 1
      <4>1. L(q, i) = 0
        BY <2>1, <3>2, <3>3
      <4> QED
        BY <1>4, <3>1, <3>2, <3>3, <4>1
    <3>4. CASE i # n + 1
      BY <3>1, <3>2, <3>4
    <3> QED
      BY <3>3, <3>4
  <2>3. /\ L(q, 1) \in Nat /\ L(q, 2) \in Nat /\ L(q, 3) \in Nat /\ L(q, 4) \in Nat /\ L(q, 5) \in Nat /\ L(q, 6) \in Nat
    BY <2>2
  <2>4. /\ L(r, 1) = L(q, 1) + (IF 1 = n + 1 THEN piece.len ELSE 0)
        /\ L(r, 2) = L(q, 2) + (IF 2 = n + 1 THEN piece.len ELSE 0)
        /\ L(r, 3) = L(q, 3) + (IF 3 = n + 1 THEN piece.len ELSE 0)
        /\ L(r, 4) = L(q, 4) + (IF 4 = n + 1 THEN piece.len ELSE 0)
        /\ L(r, 5) = L(q, 5) + (IF 5 = n + 1 THEN piece.len ELSE 0)
        /\ L(r, 6) = L(q, 6) + (IF 6 = n + 1 THEN piece.len ELSE 0)
    BY <2>2
  <2> DEFINE a == L(q, 1)
             b == L(q, 2)
             c == L(q, 3)
             d == L(q, 4)
             e == L(q, 5)
             f == L(q, 6)
             p == piece.len
  <2>5. /\ a \in Nat /\ b \in Nat /\ c \in Nat /\ d \in Nat /\ e \in Nat /\ f \in Nat /\ p \in Nat /\ Length(q) = a + b + c + d + e + f
    BY <1>4, <1>7, <2>3
  <2>6. ASSUME n = 0 PROVE Length(r) = (a + p) + b + c + d + e + f
    <3>1. /\ L(r, 1) = L(q, 1) + piece.len
          /\ L(r, 2) = L(q, 2)
          /\ L(r, 3) = L(q, 3)
          /\ L(r, 4) = L(q, 4)
          /\ L(r, 5) = L(q, 5)
          /\ L(r, 6) = L(q, 6)
      BY <1>4, <2>3, <2>4, <2>6
    <3> QED
      BY <1>8, <3>1
  <2>7. ASSUME n = 1 PROVE Length(r) = a + (b + p) + c + d + e + f
    <3>1. /\ L(r, 1) = L(q, 1)
          /\ L(r, 2) = L(q, 2) + piece.len
          /\ L(r, 3) = L(q, 3)
          /\ L(r, 4) = L(q, 4)
          /\ L(r, 5) = L(q, 5)
          /\ L(r, 6) = L(q, 6)
      BY <1>4, <2>3, <2>4, <2>7
    <3> QED
      BY <1>8, <3>1
  <2>8. ASSUME n = 2 PROVE Length(r) = a + b + (c + p) + d + e + f
    <3>1. /\ L(r, 1) = L(q, 1)
          /\ L(r, 2) = L(q, 2)
          /\ L(r, 3) = L(q, 3) + piece.len
          /\ L(r, 4) = L(q, 4)
          /\ L(r, 5) = L(q, 5)
          /\ L(r, 6) = L(q, 6)
      BY <1>4, <2>3, <2>4, <2>8
    <3> QED
      BY <1>8, <3>1
  <2>9. ASSUME n = 3 PROVE Length(r) = a + b + c + (d + p) + e + f
    <3>1. /\ L(r, 1) = L(q, 1)
          /\ L(r, 2) = L(q, 2)
          /\ L(r, 3) = L(q, 3)
          /\ L(r, 4) = L(q, 4) + piece.len
          /\ L(r, 5) = L(q, 5)
          /\ L(r, 6) = L(q, 6)
      BY <1>4, <2>3, <2>4, <2>9
    <3> QED
      BY <1>8, <3>1
  <2>10. ASSUME n = 4 PROVE Length(r) = a + b + c + d + (e + p) + f
    <3>1. /\ L(r, 1) = L(q, 1)
          /\ L(r, 2) = L(q, 2)
          /\ L(r, 3) = L(q, 3)
          /\ L(r, 4) = L(q, 4)
          /\ L(r, 5) = L(q, 5) + piece.len
          /\ L(r, 6) = L(q, 6)
      BY <1>4, <2>3, <2>4, <2>10
    <3> QED
      BY <1>8, <3>1
  <2>11. ASSUME n = 5 PROVE Length(r) = a + b + c + d + e + (f + p)
    <3>1. /\ L(r, 1) = L(q, 1)
          /\ L(r, 2) = L(q, 2)
          /\ L(r, 3) = L(q, 3)
          /\ L(r, 4) = L(q, 4)
          /\ L(r, 5) = L(q, 5)
          /\ L(r, 6) = L(q, 6) + piece.len
      BY <1>4, <2>3, <2>4, <2>11
    <3> QED
      BY <1>8, <3>1
  <2> HIDE DEF a, b, c, d, e, f, p
  <2>12. Length(r) = a + b + c + d + e + f + p
    BY <2>1, <2>5, <2>6, <2>7, <2>8, <2>9, <2>10, <2>11
  <2>13. Length(q) \in Nat /\ Length(r) = Length(q) + p
    BY <2>5, <2>12
  <2> QED
    BY <2>13 DEF p
<1> QED
  BY <1>2, <1>5, <1>9 DEF r, n

\* No piece, no columns.
LEMMA NoPiece == Wide(<<>>) /\ Length(<<>>) = 0 /\ Len(<<>>) = 0
<1>1. <<>> \in Seq(Pieces) /\ DOMAIN <<>> = {} /\ Len(<<>>) = 0
  OBVIOUS
<1> QED
  BY <1>1 DEF Wide, Length

\* A set of numbers has a least one.
LEMMA FirstPlace == ASSUME NEW S, S \subseteq Nat, S # {} PROVE \E m \in S : \A j \in S : m <= j
<1>1. PICK x \in S : \A y \in S : <<y, x>> \notin OpToRel(<, Nat)
  BY WFMin, NatLessThanWellFounded, Zenon
<1>2. \A y \in S : ~(y < x)
  BY <1>1, Zenon DEF OpToRel
<1>3. x \in Nat /\ \A y \in S : y \in Nat
  OBVIOUS
<1> QED
  BY <1>2, <1>3

\* What is fitted into the band has a length.
LEMMA BandTyped ==
  ASSUME NEW c \in CockpitStates, NEW budget \in Int
  PROVE  Band(c, budget) \in Nat
<1>1. \A t, long, off : Toggle(t, long, off) \in Nat \/ t \notin Toggles
  BY DEF Toggle, Toggles
<1>2. ASSUME NEW toggles \in SUBSET Toggles, NEW long \in BOOLEAN, NEW rule \in BOOLEAN, NEW chain \in BOOLEAN,
             NEW gap \in Nat, NEW margin \in Nat, NEW off
      PROVE  Repertoire(toggles, long, rule, chain, gap, margin, off) \in Nat
  <2> DEFINE toggle(t) == IF t \in toggles THEN gap + Toggle(t, long, off) ELSE 0
  <2>1. toggle("F") \in Nat /\ toggle("P") \in Nat /\ toggle("C") \in Nat /\ toggle("S") \in Nat
    BY <1>1, <1>2 DEF Toggles
  <2>2. Repertoire(toggles, long, rule, chain, gap, margin, off)
          = margin + 8 + toggle("F") + toggle("P") + toggle("C") + toggle("S")
              + (IF rule THEN gap + 1 ELSE 0) + (IF chain THEN gap + 17 ELSE 0) + gap + 11 + margin
    BY DEF Repertoire
  <2> HIDE DEF toggle
  <2>3. (IF rule THEN gap + 1 ELSE 0) \in Nat /\ (IF chain THEN gap + 17 ELSE 0) \in Nat
    BY <1>2
  <2> QED
    BY <1>2, <2>1, <2>2, <2>3
<1>3. ASSUME NEW off PROVE /\ Repertoires(off)[1] \in Nat
                           /\ \A i \in DOMAIN Repertoires(off) : Repertoires(off)[i] \in Nat /\ i \in 1..12
  <2> DEFINE all == {"F", "P", "C", "S"}
             bands == Repertoires(off)
  <2>1. /\ all \in SUBSET Toggles /\ {"F", "P", "C"} \in SUBSET Toggles /\ {"F", "P"} \in SUBSET Toggles
        /\ {"P"} \in SUBSET Toggles /\ {} \in SUBSET Toggles
    BY DEF Toggles
  <2>2. DOMAIN bands = 1..12
    BY DEF Repertoires
  <2>3. ASSUME NEW some \in SUBSET Toggles
        PROVE  /\ Repertoire(some, TRUE, TRUE, TRUE, 2, 2, off) \in Nat
               /\ Repertoire(some, FALSE, TRUE, TRUE, 2, 2, off) \in Nat
               /\ Repertoire(some, FALSE, TRUE, TRUE, 2, 1, off) \in Nat
               /\ Repertoire(some, FALSE, TRUE, TRUE, 1, 1, off) \in Nat
               /\ Repertoire(some, FALSE, TRUE, TRUE, 1, 0, off) \in Nat
               /\ Repertoire(some, FALSE, FALSE, TRUE, 1, 1, off) \in Nat
               /\ Repertoire(some, FALSE, FALSE, TRUE, 1, 0, off) \in Nat
               /\ Repertoire(some, FALSE, FALSE, FALSE, 2, 1, off) \in Nat
               /\ Repertoire(some, FALSE, FALSE, FALSE, 1, 0, off) \in Nat
    BY <1>2
  <2>4. /\ bands[1] = Repertoire(all, TRUE, TRUE, TRUE, 2, 2, off)
        /\ bands[2] = Repertoire(all, FALSE, TRUE, TRUE, 2, 2, off)
        /\ bands[3] = Repertoire(all, FALSE, TRUE, TRUE, 2, 1, off)
        /\ bands[4] = Repertoire(all, FALSE, TRUE, TRUE, 1, 1, off)
        /\ bands[5] = Repertoire(all, FALSE, TRUE, TRUE, 1, 0, off)
        /\ bands[6] = Repertoire({"F", "P", "C"}, FALSE, TRUE, TRUE, 1, 1, off)
        /\ bands[7] = Repertoire({"F", "P"}, FALSE, TRUE, TRUE, 1, 1, off)
        /\ bands[8] = Repertoire({"P"}, FALSE, TRUE, TRUE, 1, 1, off)
        /\ bands[9] = Repertoire({"P"}, FALSE, FALSE, TRUE, 1, 1, off)
        /\ bands[10] = Repertoire({"P"}, FALSE, FALSE, TRUE, 1, 0, off)
        /\ bands[11] = Repertoire({}, FALSE, FALSE, FALSE, 2, 1, off)
        /\ bands[12] = Repertoire({}, FALSE, FALSE, FALSE, 1, 0, off)
    BY DEF Repertoires
  <2> HIDE DEF bands, all
  <2>5. bands[1] \in Nat /\ bands[2] \in Nat /\ bands[3] \in Nat /\ bands[4] \in Nat /\ bands[5] \in Nat
    BY <2>1, <2>3, <2>4
  <2>6. bands[6] \in Nat /\ bands[7] \in Nat /\ bands[8] \in Nat
    BY <2>1, <2>3, <2>4
  <2>8. bands[9] \in Nat /\ bands[10] \in Nat /\ bands[11] \in Nat /\ bands[12] \in Nat
    BY <2>1, <2>3, <2>4
  <2>7. \A i \in 1..12 : bands[i] \in Nat
    BY <2>5, <2>6, <2>8
  <2> QED
    BY <2>2, <2>5, <2>7 DEF bands
<1>4. \A off : FittedBand(off, budget) \in Nat
  <2> SUFFICES ASSUME NEW off PROVE FittedBand(off, budget) \in Nat
    OBVIOUS
  <2> DEFINE bands == Repertoires(off)
             fit == {i \in DOMAIN bands : bands[i] <= budget}
             at == CHOOSE i \in fit : \A j \in fit : i <= j
  <2>1. CASE fit = {}
    BY <2>1 DEF FittedBand
  <2>2. CASE fit # {}
    <3>1. fit \subseteq 1..12
      BY <1>3
    <3>2. \E i \in fit : \A j \in fit : i <= j
      <4> HIDE DEF fit
      <4> QED
        <5>1. fit \subseteq Nat
          BY <3>1
        <5> QED
          BY <2>2, <5>1, FirstPlace
    <3>3. at \in fit
      BY <3>2
    <3>4. FittedBand(off, budget) = bands[at]
      BY <2>2 DEF FittedBand
    <3> QED
      BY <1>3, <3>3, <3>4
  <2> QED
    BY <2>1, <2>2
<1> QED
  BY <1>3, <1>4, CockpitFields DEF Band

\* The strip's pieces fill its row, and the signs of life are whole and apart.
LEMMA StripFilled ==
  ASSUME NEW c \in CockpitStates, NEW w \in Int, w >= 58
  PROVE  LET s == Strip(c, w)
         IN /\ Len(s) <= 6 /\ Length(s) = w /\ \A i \in DOMAIN s : s[i].len > 0
            /\ c.raising \notin {"strip", "liveness"} => Last(s).len > c.life
<1> DEFINE life == IF c.raising = "liveness" THEN 0 ELSE Lesser(c.life, w)
           budget == w - life - 1
           label == Piece("label", Lesser(SeatLabel(c.seat, budget), budget))
           chips == IF Metered(c, label.len, budget) THEN <<label, Piece("gap", 2), Piece("meter", 23)>> ELSE <<label>>
           gap == w - life - Length(chips)
           band == Band(c, gap - 2)
           placed == IF band > 0 /\ gap >= band + 2
                     THEN chips \o <<Piece("gap", gap - band - 1), Piece("band", band)>>
                     ELSE chips
           s == Strip(c, w)
           Good == /\ Len(s) <= 6 /\ Length(s) = w /\ \A i \in DOMAIN s : s[i].len > 0
                   /\ c.raising \notin {"strip", "liveness"} => Last(s).len > c.life
<1>1. s = IF budget <= 0 \/ c.raising = "strip" THEN <<Piece("life", w)>>
          ELSE Append(placed, Piece("life", w - Length(placed)))
  BY DEF Strip
<1>2. c.life \in Nat /\ c.life <= 57 /\ c.seat \in {"armed", "attached", "spectating"}
  BY DEF CockpitStates
<1>3. life \in Nat /\ life <= 57 /\ (c.raising # "liveness" => life = c.life)
  BY <1>2 DEF Lesser
<1> HIDE DEF life
<1>4. budget \in Int /\ budget = w - life - 1 /\ budget >= 0
  BY <1>3
<1> HIDE DEF budget
<1>p. ASSUME NEW is \in PieceNames, NEW n \in Nat PROVE Piece(is, n) \in Pieces /\ Piece(is, n).len = n
  BY DEF Piece, Pieces
<1>n. "label" \in PieceNames /\ "gap" \in PieceNames /\ "meter" \in PieceNames /\ "band" \in PieceNames /\ "life" \in PieceNames
  BY DEF PieceNames
<1>e. ASSUME NEW p \in Pieces, p.len > 0
      PROVE  Wide(<<p>>) /\ Len(<<p>>) = 1 /\ Last(<<p>>) = p /\ Length(<<p>>) = p.len
  <2>1. <<p>> = Append(<<>>, p)
    OBVIOUS
  <2>2. p.len \in Nat
    BY DEF Pieces
  <2> DEFINE none == <<>>
  <2>4. Wide(none) /\ Len(none) = 0 /\ Length(none) = 0
    BY NoPiece
  <2>5. Append(none, p) = <<p>>
    BY <2>1
  <2> HIDE DEF none
  <2>6. /\ Wide(Append(none, p)) /\ Len(Append(none, p)) = Len(none) + 1
        /\ Last(Append(none, p)) = p /\ Length(Append(none, p)) = Length(none) + p.len
    <3>1. Len(none) < 6
      BY <2>4
    <3> QED
      BY <1>e, <2>4, <3>1, OneMore
  <2> QED
    BY <2>2, <2>4, <2>5, <2>6
<1>5. CASE budget <= 0 \/ c.raising = "strip"
  <2> DEFINE all == Piece("life", w)
  <2>1. all \in Pieces /\ all.len = w /\ s = <<all>>
    BY <1>1, <1>5, <1>p, <1>n
  <2> HIDE DEF all, s
  <2>2. Wide(s) /\ Len(s) = 1 /\ Last(s) = all /\ Length(s) = w
    BY <1>e, <2>1
  <2> QED
    BY <1>2, <2>1, <2>2 DEF Wide, s
<1>6. CASE ~(budget <= 0 \/ c.raising = "strip")
  <2>1. s = Append(placed, Piece("life", w - Length(placed)))
    BY <1>1, <1>6
  <2> HIDE DEF s
  <2>2. label \in Pieces /\ label.len > 0 /\ label.len <= budget /\ label.len \in Nat
    <3>1. SeatLabel(c.seat, budget) \in Nat /\ SeatLabel(c.seat, budget) > 0
      BY <1>2 DEF SeatLabel
    <3> DEFINE n == Lesser(SeatLabel(c.seat, budget), budget)
    <3>2. n \in Nat /\ n > 0 /\ n <= budget
      BY <1>4, <1>6, <3>1 DEF Lesser
    <3> HIDE DEF n
    <3>3. Piece("label", n) \in Pieces /\ Piece("label", n).len = n
      BY <1>p, <1>n, <3>2
    <3> QED
      BY <3>2, <3>3 DEF n
  <2> HIDE DEF label
  <2>3. Wide(chips) /\ Len(chips) <= 3 /\ Length(chips) \in Nat /\ Length(chips) <= budget
    <3>1. Wide(<<label>>) /\ Len(<<label>>) = 1 /\ Length(<<label>>) = label.len
      BY <1>e, <2>2
    <3>2. CASE ~Metered(c, label.len, budget)
      <4>1. chips = <<label>>
        BY <3>2
      <4> HIDE DEF chips
      <4> QED
        BY <2>2, <3>1, <4>1
    <3>3. CASE Metered(c, label.len, budget)
      <4> DEFINE space == Piece("gap", 2)
                 meter == Piece("meter", 23)
      <4>1. chips = <<label, space, meter>>
        BY <3>3
      <4>2. <<label, space, meter>> = Append(Append(<<label>>, space), meter)
        OBVIOUS
      <4>3. space \in Pieces /\ space.len = 2 /\ meter \in Pieces /\ meter.len = 23
        BY <1>p, <1>n
      <4>4. label.len + 2 + 23 <= budget
        BY <3>3 DEF Metered
      <4>8. space.len > 0 /\ meter.len > 0
        BY <4>3
      <4> HIDE DEF space, meter, chips
      <4> DEFINE q == Append(<<label>>, space)
      <4>5. Wide(q) /\ Len(q) = 2 /\ Length(q) = label.len + 2
        <5>1. Len(<<label>>) < 6
          BY <3>1
        <5> HIDE DEF q
        <5>2. q = Append(<<label>>, space)
          BY DEF q
        <5> DEFINE one == <<label>>
        <5>3. Wide(one) /\ Len(one) = 1 /\ Length(one) = label.len /\ q = Append(one, space)
          BY <3>1, <5>2
        <5> HIDE DEF one
        <5>4. Wide(Append(one, space)) /\ Len(Append(one, space)) = Len(one) + 1 /\ Length(Append(one, space)) = Length(one) + space.len
          <6>1. Len(one) < 6
            BY <5>3
          <6> QED
            BY <4>3, <4>8, <5>3, <6>1, OneMore
        <5> QED
          BY <4>3, <5>3, <5>4
      <4> HIDE DEF q
      <4>6. Wide(Append(q, meter)) /\ Len(Append(q, meter)) = 3 /\ Length(Append(q, meter)) = label.len + 2 + 23
        <5>1. Len(q) < 6
          BY <4>5
        <5>2. /\ Wide(Append(q, meter)) /\ Len(Append(q, meter)) = Len(q) + 1
              /\ Length(Append(q, meter)) = Length(q) + meter.len
          BY <4>3, <4>8, <4>5, <5>1, OneMore
        <5> QED
          BY <4>3, <4>5, <5>2
      <4> QED
        <5>1. chips = Append(q, meter)
          BY <4>1, <4>2 DEF q
        <5> QED
          BY <2>2, <4>4, <4>6, <5>1
    <3> QED
      BY <3>2, <3>3
  <2> DEFINE used == Length(chips)
  <2>4. gap = w - life - used /\ used \in Nat /\ used <= budget
    BY <2>3
  <2> HIDE DEF used, gap
  <2>5. gap \in Int /\ gap > 0
    BY <1>3, <1>4, <2>4
  <2>6. band \in Nat
    BY <2>5, BandTyped
  <2> HIDE DEF band
  <2>7. Wide(placed) /\ Len(placed) < 6 /\ Length(placed) \in Nat /\ Length(placed) <= w - life - 1
    <3>1. CASE band > 0 /\ gap >= band + 2
      <4> DEFINE space == Piece("gap", gap - band - 1)
                 taught == Piece("band", band)
      <4>1. placed = chips \o <<space, taught>>
        BY <3>1
      <4>2. space \in Pieces /\ space.len = gap - band - 1 /\ space.len > 0 /\ taught \in Pieces /\ taught.len = band
        <5>1. gap - band - 1 \in Nat /\ gap - band - 1 > 0
          BY <2>5, <2>6, <3>1
        <5> QED
          BY <1>p, <1>n, <2>6, <5>1
      <4> HIDE DEF space, taught
      <4>3. chips \o <<space, taught>> = Append(Append(chips, space), taught)
        <5>1. chips \in Seq(Pieces)
          BY <2>3 DEF Wide
        <5> HIDE DEF chips, Pieces
        <5>2. space \in Pieces /\ taught \in Pieces
          BY <4>2
        <5> QED
          BY <5>1, <5>2
      <4> HIDE DEF chips, placed
      <4> DEFINE q == Append(chips, space)
      <4>4. Wide(q) /\ Len(q) = Len(chips) + 1 /\ Length(q) = used + space.len
        <5>1. Len(chips) < 6
          BY <2>3
        <5> QED
          BY <2>3, <4>2, <5>1, OneMore DEF used
      <4>5. Len(chips) \in Nat
        BY <2>3 DEF Wide
      <4> HIDE DEF q
      <4>6. Wide(Append(q, taught)) /\ Len(Append(q, taught)) = Len(chips) + 2 /\ Length(Append(q, taught)) = used + space.len + band
        <5>1. Len(q) < 6
          BY <2>3, <4>4, <4>5
        <5>2. Wide(Append(q, taught)) /\ Len(Append(q, taught)) = Len(q) + 1 /\ Length(Append(q, taught)) = Length(q) + taught.len
          BY <3>1, <4>2, <4>4, <5>1, OneMore
        <5> QED
          BY <4>2, <4>4, <4>5, <5>2
      <4>7. placed = Append(q, taught)
        BY <4>1, <4>3 DEF q
      <4> QED
        BY <1>3, <2>3, <2>4, <2>5, <2>6, <4>2, <4>5, <4>6, <4>7
    <3>2. CASE ~(band > 0 /\ gap >= band + 2)
      <4>1. placed = chips
        BY <3>2
      <4> HIDE DEF placed, chips
      <4> QED
        BY <1>3, <1>4, <2>3, <4>1
    <3> QED
      BY <3>1, <3>2
  <2> DEFINE rest == w - Length(placed)
             end == Piece("life", rest)
  <2>8. rest \in Nat /\ rest > life
    <3> HIDE DEF placed
    <3> QED
      BY <1>3, <2>7
  <2>9. end \in Pieces /\ end.len = rest /\ s = Append(placed, end)
    BY <1>p, <1>n, <2>1, <2>8
  <2> HIDE DEF placed
  <2>10. rest + Length(placed) = w
    BY <2>7
  <2> HIDE DEF end, rest
  <2>11. Wide(s) /\ Len(s) = Len(placed) + 1 /\ Last(s) = end /\ Length(s) = Length(placed) + rest
    BY <1>3, <2>7, <2>8, <2>9, OneMore
  <2>12. Len(s) <= 6 /\ Length(s) = w
    <3>1. Len(placed) \in Nat
      BY <2>7 DEF Wide
    <3> QED
      BY <2>7, <2>8, <2>10, <2>11, <3>1
  <2>13. \A i \in DOMAIN s : s[i].len > 0
    BY <2>11 DEF Wide
  <2>14. c.raising # "liveness" => Last(s).len > c.life
    BY <1>3, <2>8, <2>9, <2>11
  <2> QED
    BY <2>12, <2>13, <2>14 DEF s
<1> QED
  BY <1>5, <1>6

\* What a frame on a terminal that is not too small shows.
LEMMA FrameTells == FrameTypes /\ Frames => FrameSound'
<1> SUFFICES ASSUME FrameTypes, Frames PROVE FrameSound'
  OBVIOUS
<1> DEFINE c == cockpit
           lay == LayoutOf(cockpit)
<1>1. c \in CockpitStates /\ GatesUp(c.gates) /\ OnRow(c.list) /\ Fits(c) /\ drawn' = Frame(c, lay)
  BY DEF FrameTypes, Frames
<1>2. /\ cockpit'.size = c.size /\ cockpit'.status = c.status /\ cockpit'.text = c.text
      /\ cockpit'.life = c.life /\ cockpit'.raising = c.raising
      /\ cockpit'.gates = Withdrawn(c) /\ cockpit'.list = DrawnList(c)
      /\ Status(cockpit') = Status(c) /\ Halting(cockpit') = Halting(c) /\ LayoutOf(cockpit') = lay
  BY FrameLeaves
<1>3. /\ drawn'.is = "frame" /\ drawn'.panels = PanelsShown(c, lay) /\ drawn'.logs = LogRows(c, Inner(lay.logs.h))
      /\ drawn'.banner = Banner(c, lay.intervention) /\ drawn'.strip = Strip(c, lay.control_strip.w)
      /\ drawn'.list = ListShown(c, Window(c, lay), Inner(lay.center.h)) /\ drawn'.prompt = PaintedPrompt(c)
  BY <1>1 DEF Frame
<1>4. Tiled(cockpit'.size[1], cockpit'.size[2], Halting(cockpit'))
  <2>1. c.size[1] \in Int /\ c.size[2] \in Int /\ Drawable(c.size[1], c.size[2]) /\ Halting(c) \in BOOLEAN
    BY <1>1, CockpitFields, StatusFields DEF Fits
  <2>2. Tiled(c.size[1], c.size[2], Halting(c))
    BY <2>1, LayoutTiles
  <2> QED
    BY <1>2, <2>2
<1>5. GateSeen'
  BY <1>1, <1>2, <1>3, GateShown DEF GateSeen
<1>6. AlarmShown'
  BY <1>1, <1>2, <1>3, BannerTells DEF AlarmShown
<1>7. SelectedIsShown'
  <2>1. Window(cockpit', lay) = Window(c, lay)
    <3>1. DrawnList(c).taught = c.list.taught
      <4>1. Closed(c.list).taught = c.list.taught
        BY <1>1, CockpitFields DEF Closed, LoopLists
      <4>2. Followed(c.list, Window(c, lay)).taught = c.list.taught
        BY <1>1, CockpitFields, ListRoom, WindowFollows
      <4> QED
        BY <4>1, <4>2 DEF DrawnList
    <3> QED
      BY <1>2, <3>1 DEF Window
  <2>2. SelectedIsShown' =
          LET l == DrawnList(c)
          IN OnScreen' /\ l.open /\ l.taught + 6 <= ListInner(lay)
             /\ ~(l.truncated /\ Status(c).holds /\ l.discovered > Window(c, lay))
             /\ l.taught + l.discovered > 0
             => \E i \in DOMAIN drawn'.list :
                  /\ drawn'.list[i].marked
                  /\ drawn'.list[i].nr = (IF l.section = "taught" THEN l.index ELSE l.found)
    BY <1>2, <2>1, Zenon DEF SelectedIsShown
  <2> QED
    BY <1>1, <1>3, <2>2, CursorShown
<1>8. StripWhole'
  <2>1. lay.control_strip.w = InnerW(c.size[2])
    BY DEF LayoutOf, Layout, Region
  <2>2. lay.control_strip.w \in Int /\ lay.control_strip.w >= 58
    BY <1>1, <2>1, CockpitFields DEF Fits, Drawable, InnerW, Pad
  <2> QED
    BY <1>1, <1>2, <1>3, <2>2, StripFilled DEF StripWhole
<1>9. TextShown'
  BY <1>1, <1>2, <1>3, TextLast DEF TextShown
<1>10. GoalsTold'
  BY <1>1, <1>2, <1>3, GoalsWithDecisions DEF GoalsTold
<1> QED
  BY <1>4, <1>5, <1>6, <1>7, <1>8, <1>9, <1>10 DEF FrameSound

\* While no frame is on the screen there is nothing to say of it.
LEMMA NothingShown == ~OnScreen => FrameSound
  BY DEF FrameSound, GateSeen, AlarmShown, SelectedIsShown, StripWhole, TextShown, GoalsTold

\* What a frame shows is what the next key answers (FrameSound), on every
\* terminal, with every status and list, and whatever fails to compose.
THEOREM FramesTell == FrameSpec => []FrameSound
<1>1. FrameInit => FrameSound
  BY NothingShown DEF FrameInit, NoFrame, OnScreen
<1>2. FrameInv /\ FrameSound /\ [FrameNext]_frameVars => FrameSound'
  <2> SUFFICES ASSUME FrameInv, FrameSound, [FrameNext]_frameVars PROVE FrameSound'
    OBVIOUS
  <2>1. CASE UNCHANGED frameVars
    BY <2>1 DEF frameVars, FrameSound, GateSeen, AlarmShown, SelectedIsShown, StripWhole, TextShown, GoalsTold, OnScreen
  <2>2. CASE Draws /\ Fits(cockpit)
    BY <2>2, FrameTells DEF Draws, Frames, DrawnList, FrameInv
  <2>3. CASE Draws /\ ~Fits(cockpit)
    <3>1. ~OnScreen'
      BY <2>3 DEF Draws, TooSmall, OnScreen
    <3> QED
      BY <3>1 DEF FrameSound, GateSeen, AlarmShown, SelectedIsShown, StripWhole, TextShown, GoalsTold
  <2>4. CASE drawn' = NoFrame
    <3>1. ~OnScreen'
      BY <2>4 DEF NoFrame, OnScreen
    <3> QED
      BY <3>1 DEF FrameSound, GateSeen, AlarmShown, SelectedIsShown, StripWhole, TextShown, GoalsTold
  <2>5. FrameNext => Draws \/ drawn' = NoFrame
    BY DEF FrameNext, OpensList, ClosesList, MovesInList, AnswersGate, Flips, Raises, Resizes, PollBrings, KeyRead
  <2> QED
    BY <2>1, <2>2, <2>3, <2>4, <2>5
<1> QED
  BY <1>1, <1>2, FrameStarts, FrameKept, PTL DEF FrameSpec

-----------------------------------------------------------------------------
(* The screen read *)

\* A set of places of a sequence has a last one.
LEMMA LastPlace ==
  ASSUME NEW n \in Nat, NEW S, S \subseteq 1..n, S # {}
  PROVE  \E m \in S : \A j \in S : j <= m
<1> DEFINE T == {n - i : i \in S}
<1>0. \A i \in S : i \in Int /\ i <= n
  OBVIOUS
<1>1. T \subseteq Nat /\ T # {}
  <2>1. \A i \in S : n - i \in Nat
    BY <1>0
  <2>2. PICK i \in S : TRUE
    OBVIOUS
  <2>3. n - i \in T
    BY <2>2
  <2> QED
    BY <2>1, <2>3
<1>2. PICK x \in T : \A y \in T : <<y, x>> \notin OpToRel(<, Nat)
  BY <1>1, WFMin, NatLessThanWellFounded, Zenon
<1>3. \A y \in T : ~(y < x)
  BY <1>1, <1>2, Zenon DEF OpToRel
<1>4. PICK m \in S : x = n - m
  OBVIOUS
<1>5. \A j \in S : j <= m
  BY <1>0, <1>3, <1>4
<1> QED
  BY <1>5

\* What Lowest picks from the places of a sequence.
LEMMA LowestPlace ==
  ASSUME NEW n \in Nat, NEW S, S \subseteq 1..n, S # {}
  PROVE  Lowest(S) \in S /\ \A j \in S : j <= Lowest(S)
  BY LastPlace DEF Lowest

\* The kinds of line the game paints.
LineKinds ==
  {"blank", "sector", "ports", "warps", "command", "lettered", "selection", "toll", "credits", "good", "have", "quantity",
   "quote", "end_quote", "holds", "report", "row", "end_report", "words", "pause", "destroyed", "turns_left", "bracketed",
   "players", "descriptions", "games", "title", "version", "registered", "game", "choice", "timed_out", "select"}
Paint == [is : LineKinds, n : Nat, m : Nat]

\* A line has the kind and the numbers it is made of.
LEMMA LineFields ==
  ASSUME NEW kind \in LineKinds, NEW n \in Nat, NEW m \in Nat
  PROVE  /\ Line(kind, n, m) \in Paint /\ Line(kind, n, m).is = kind /\ Line(kind, n, m).n = n /\ Line(kind, n, m).m = m
         /\ Plain(kind) \in Paint /\ Plain(kind).is = kind /\ Plain(kind).n = 0 /\ Plain(kind).m = 0
  BY DEF Line, Plain, Paint

\* The lowest line of some kinds, if there is one, is of the set L.
LowestIs(q, kinds, L) ==
  \A k \in DOMAIN q : q[k].is \in kinds /\ (\A j \in DOMAIN q : j > k => q[j].is \notin kinds) => q[k] \in L

\* The window is what is left of the lines at its lower end.
LEMMA ShownLines ==
  ASSUME NEW S, NEW q \in Seq(S)
  PROVE  /\ Shown(q) \in Seq(S) /\ Len(Shown(q)) <= Height
         /\ \E c \in Nat : Len(q) = Len(Shown(q)) + c /\ \A k \in 1..Len(Shown(q)) : Shown(q)[k] = q[k + c]
         /\ q # <<>> => Shown(q) # <<>> /\ Shown(q)[Len(Shown(q))] = q[Len(q)]
<1>0. Height \in Nat /\ Height > 0 /\ Len(q) \in Nat
  BY ScreenAssumption
<1>1. CASE Len(q) > Height
  <2> DEFINE a == Len(q) - Height + 1
  <2>1. a \in 1..Len(q) /\ Shown(q) = SubSeq(q, a, Len(q)) /\ Len(q) - a + 1 = Height
    BY <1>0, <1>1 DEF Shown
  <2> HIDE DEF a
  <2>2. SubSeq(q, a, Len(q)) \in Seq(S) /\ Len(SubSeq(q, a, Len(q))) = Height
    BY <1>0, <2>1
  <2>3. \A k \in 1..Height : SubSeq(q, a, Len(q))[k] = q[k + (a - 1)]
    BY <1>0, <2>1
  <2>4. a - 1 \in Nat /\ Len(q) = Height + (a - 1)
    BY <1>0, <2>1
  <2> QED
    BY <1>0, <2>1, <2>2, <2>3, <2>4
<1>2. CASE ~(Len(q) > Height)
  <2>1. Shown(q) = q /\ \A k \in 1..Len(q) : q[k] = q[k + 0]
    BY <1>0, <1>2 DEF Shown
  <2> QED
    BY <1>0, <1>2, <2>1
<1> QED
  BY <1>1, <1>2

\* What scrolls off at the top leaves the lowest line as it was.
LEMMA LowestShown ==
  ASSUME NEW q \in Seq(Paint), NEW kinds, NEW L, LowestIs(q, kinds, L)
  PROVE  LowestIs(Shown(q), kinds, L)
<1> DEFINE s == Shown(q)
<1>1. s \in Seq(Paint) /\ \E c \in Nat : Len(q) = Len(s) + c /\ \A k \in 1..Len(s) : s[k] = q[k + c]
  BY ShownLines
<1> HIDE DEF s
<1>2. PICK c \in Nat : Len(q) = Len(s) + c /\ \A k \in 1..Len(s) : s[k] = q[k + c]
  BY <1>1
<1>3. DOMAIN q = 1..Len(q) /\ DOMAIN s = 1..Len(s) /\ Len(s) \in Nat /\ Len(q) \in Nat
  BY <1>1
<1>4. SUFFICES ASSUME NEW k \in 1..Len(s), s[k].is \in kinds, \A j \in 1..Len(s) : j > k => s[j].is \notin kinds
               PROVE  s[k] \in L
  BY <1>3 DEF LowestIs, s
<1>5. k + c \in DOMAIN q /\ q[k + c] = s[k]
  BY <1>2, <1>3
<1>6. ASSUME NEW j \in DOMAIN q, j > k + c PROVE q[j].is \notin kinds
  <2>1. j - c \in 1..Len(s) /\ j - c > k /\ (j - c) + c = j
    BY <1>2, <1>3, <1>6
  <2> QED
    BY <1>2, <1>4, <2>1
<1> QED
  BY <1>4, <1>5, <1>6 DEF LowestIs

\* A line below the others is the lowest of its kind.
LEMMA LowestAppended ==
  ASSUME NEW q \in Seq(Paint), NEW x \in Paint, NEW kinds, NEW L,
         x.is \in kinds => x \in L, x.is \notin kinds => LowestIs(q, kinds, L)
  PROVE  LowestIs(Append(q, x), kinds, L)
<1> DEFINE s == Append(q, x)
<1>1. /\ Len(q) \in Nat /\ DOMAIN q = 1..Len(q) /\ DOMAIN s = 1..(Len(q) + 1) /\ s[Len(q) + 1] = x
      /\ \A i \in 1..Len(q) : s[i] = q[i]
  OBVIOUS
<1> HIDE DEF s
<1>2. SUFFICES ASSUME NEW k \in 1..(Len(q) + 1), s[k].is \in kinds, \A j \in 1..(Len(q) + 1) : j > k => s[j].is \notin kinds
               PROVE  s[k] \in L
  BY <1>1 DEF LowestIs, s
<1>3. CASE k = Len(q) + 1
  BY <1>1, <1>2, <1>3
<1>4. CASE k # Len(q) + 1
  <2>1. k \in 1..Len(q) /\ Len(q) + 1 > k /\ Len(q) + 1 \in 1..(Len(q) + 1)
    BY <1>1, <1>4
  <2>2. x.is \notin kinds
    BY <1>1, <1>2, <2>1
  <2>3. \A j \in 1..Len(q) : j > k => q[j].is \notin kinds
    BY <1>1, <1>2
  <2> QED
    BY <1>1, <1>2, <2>1, <2>2, <2>3 DEF LowestIs
<1> QED
  BY <1>3, <1>4

\* Without its last line, of another kind, a screen has the same lowest line.
LEMMA LowestFront ==
  ASSUME NEW q \in Seq(Paint), q # <<>>, NEW kinds, NEW L, q[Len(q)].is \notin kinds, LowestIs(q, kinds, L)
  PROVE  LowestIs(Front(q), kinds, L)
<1> DEFINE s == Front(q)
<1>1. /\ Len(q) \in Nat \ {0} /\ DOMAIN q = 1..Len(q) /\ DOMAIN s = 1..(Len(q) - 1)
      /\ \A i \in 1..(Len(q) - 1) : s[i] = q[i]
  BY DEF Front
<1> HIDE DEF s
<1>2. SUFFICES ASSUME NEW k \in 1..(Len(q) - 1), s[k].is \in kinds, \A j \in 1..(Len(q) - 1) : j > k => s[j].is \notin kinds
               PROVE  s[k] \in L
  BY <1>1 DEF LowestIs, s
<1>3. \A j \in 1..Len(q) : j > k => q[j].is \notin kinds
  <2>1. SUFFICES ASSUME NEW j \in 1..Len(q), j > k PROVE q[j].is \notin kinds
    OBVIOUS
  <2>2. j = Len(q) \/ j \in 1..(Len(q) - 1)
    <3>1. j \in Int /\ 1 <= j /\ j <= Len(q) /\ Len(q) \in Int
      BY <1>1
    <3> QED
      BY ONLY <3>1
  <2> QED
    BY <1>1, <1>2, <2>1, <2>2
<1> QED
  BY <1>1, <1>2, <1>3 DEF LowestIs

\* A screen without its last line.
LEMMA FrontLines ==
  ASSUME NEW S, NEW q \in Seq(S), q # <<>>
  PROVE  Front(q) \in Seq(S)
  BY DEF Front

\* The prompt is the lowest line that is not blank, and there are none without one.
Said == LineKinds \ {"blank"}
\* Rows are the lines of the window down to the last that is not blank, and that
\* one is the prompt.
LEMMA PromptLine ==
  ASSUME window \in Seq(Paint)
  PROVE  /\ Rows \in Seq(Paint)
         /\ Rows = <<>> => Prompt(Rows) = Plain("blank")
         /\ Rows # <<>> => \E k \in DOMAIN window : /\ window[k].is \in Said /\ Prompt(Rows) = window[k]
                                                    /\ \A j \in DOMAIN window : j > k => window[j].is \notin Said
         /\ \A kinds : "blank" \notin kinds => LinesOf(Rows, kinds) = LinesOf(window, kinds)
         /\ \A k \in DOMAIN Rows : k \in DOMAIN window /\ Rows[k] = window[k]
<1>0. Len(window) \in Nat /\ DOMAIN window = 1..Len(window) /\ \A k \in 1..Len(window) : window[k] \in Paint /\ window[k].is \in LineKinds
  <2>1. Len(window) \in Nat /\ DOMAIN window = 1..Len(window) /\ \A k \in 1..Len(window) : window[k] \in Paint
    OBVIOUS
  <2> QED
    BY <2>1 DEF Paint
<1>1. CASE LinesOf(window, {"blank"}) = DOMAIN window
  <2>1. Rows = <<>> /\ DOMAIN Rows = {} /\ Rows \in Seq(Paint)
    BY <1>1 DEF Rows
  <2>2. \A kinds : "blank" \notin kinds => LinesOf(Rows, kinds) = LinesOf(window, kinds)
    BY <1>1, <2>1 DEF LinesOf
  <2> QED
    BY <2>1, <2>2 DEF Prompt
<1>2. CASE LinesOf(window, {"blank"}) # DOMAIN window
  <2> DEFINE S == DOMAIN window \ LinesOf(window, {"blank"})
             k == Lowest(S)
  <2>1. S \subseteq 1..Len(window) /\ S # {} /\ \A j \in 1..Len(window) : j \in S <=> window[j].is \in Said
    BY <1>0, <1>2 DEF LinesOf, Said
  <2> HIDE DEF S
  <2>2. k \in S /\ \A j \in S : j <= k
    BY <1>0, <2>1, LowestPlace
  <2>3. Rows = SubSeq(window, 1, k)
    BY <1>2 DEF Rows, S
  <2> HIDE DEF k
  <2>4. k \in 1..Len(window) /\ window[k].is \in Said /\ \A j \in 1..Len(window) : j > k => window[j].is \notin Said
    BY <1>0, <2>1, <2>2
  <2>5. Rows \in Seq(Paint) /\ Len(Rows) = k /\ DOMAIN Rows = 1..k /\ \A i \in 1..k : Rows[i] = window[i]
    BY <1>0, <2>3, <2>4
  <2>6. Rows # <<>> /\ Prompt(Rows) = window[k]
    BY <2>4, <2>5 DEF Prompt, Last
  <2>7. ASSUME NEW kinds, "blank" \notin kinds PROVE LinesOf(Rows, kinds) = LinesOf(window, kinds)
    <3>1. ASSUME NEW i \in 1..Len(window), window[i].is \in kinds PROVE i \in 1..k
      <4>1. window[i].is \in Said
        BY <1>0, <2>7, <3>1 DEF Said
      <4> QED
        BY <1>0, <2>4, <3>1, <4>1
    <3>2. 1..k \subseteq 1..Len(window)
      BY <1>0, <2>4
    <3> QED
      BY <1>0, <2>5, <3>1, <3>2 DEF LinesOf
  <2>8. 1..k \subseteq 1..Len(window)
    BY <1>0, <2>4
  <2> QED
    BY <1>0, <2>4, <2>5, <2>6, <2>7, <2>8
<1> QED
  BY <1>1, <1>2

\* What the game has yet to paint speaks of the ship as it is, what is in the
\* window of one with no more holds.
DueOf(s, game) == {l \in Paint : /\ l.is = "command" => l.n = s /\ l.m \in {0, game.turns}
                                 /\ l.is = "turns_left" => l.n = game.turns /\ l.n > 0
                                 /\ l.is \in {"have", "holds"} => l.m <= game.holds}
Paintable == DueOf(spot, ship)
Past == {l \in Paint : /\ l.is = "command" => l.n \in Spots \cup {0}
                       /\ l.is = "turns_left" => l.n > 0
                       /\ l.is \in {"have", "holds"} => l.m <= ship.holds}

Ships == [credits : Nat, turns : Nat, empty : Nat, holds : Nat, clock : BOOLEAN]
Tellings == [credits : Nat, turns : Nat]
Huds == [credits : Nat, baseline : Nat, turns : Nat, most : Nat, sector : Nat, empty : Nat, holds : Nat]

GameTypes == spot \in Spots /\ ship \in Ships /\ ship.empty <= ship.holds /\ lastTold \in Tellings
PaintTypes ==
  /\ answers \in 0..MaxAnswers /\ half \in BOOLEAN /\ untouched \in BOOLEAN /\ polled \in BOOLEAN
  /\ window \in Seq(Past) /\ Len(window) <= Height
  /\ toPaint \in Seq(Paintable)
HudTypes ==
  /\ hud \in Huds /\ hud.sector \in Spots \cup {0} /\ hud.empty <= ship.holds
  /\ hud.turns <= hud.most /\ (hud.credits = 0 <=> hud.baseline = 0)

\* A line half painted is the first of those to come.
HalfInv ==
  half => /\ toPaint # <<>> /\ window # <<>> /\ ~untouched
          /\ Head(toPaint).is \in {"command", "credits", "row", "ports"}
          /\ window[Len(window)] = Begun(Head(toPaint))

\* The prompt is that of the sector the ship is in once the answer is being
\* painted; the lowest statement of turns or credits is the last there was.
OfHere == {l \in Paint : l.is = "command" /\ l.n # 0 => l.n = spot}
AsTold == {l \in Paint : l.is = "command" /\ l.m > 0 => l.m = lastTold.turns}
TurnsTold == {l \in Paint : l.n = lastTold.turns}
TurnsLeft == {l \in Paint : l.n = ship.turns}
CreditsTold == {l \in Paint : l.n > 0 => l.n = lastTold.credits}
TurnsDue == toPaint # <<>> /\ Head(toPaint).is = "turns_left"
ToldInv ==
  /\ ~untouched => LowestIs(window, Said, OfHere)
  /\ LowestIs(window, Said, AsTold)
  /\ LowestIs(window, {"turns_left"}, TurnsTold)
  /\ ~TurnsDue => LowestIs(window, {"turns_left"}, TurnsLeft)
  /\ LowestIs(window, {"have", "credits"}, CreditsTold)

ScreenInv == GameTypes /\ PaintTypes /\ HudTypes /\ HalfInv /\ ToldInv /\ HudLatest

\* A list over some elements is one over more.
LEMMA SeqOfMore == ASSUME NEW S, NEW T, S \subseteq T, NEW q \in Seq(S) PROVE q \in Seq(T)
  OBVIOUS

\* An empty screen has no lowest line.
LEMMA LowestOfNone == \A kinds, L : LowestIs(<<>>, kinds, L)
  BY DEF LowestIs

\* The answer to a key.
LEMMA AnswerKept ==
  ASSUME ScreenInv, NEW name, NEW piece, Replies(name, piece),
         spot' \in Spots, ship' \in Ships, ship'.empty <= ship'.holds, ship.holds <= ship'.holds,
         piece \in Seq(Paintable'), piece # <<>>,
         Head(piece).is = "turns_left" \/ ship'.turns = ship.turns
  PROVE  ScreenInv'
<1>0. /\ toPaint = <<>> /\ answers < MaxAnswers /\ toPaint' = piece /\ untouched' = TRUE /\ answers' = answers + 1
      /\ polled' = FALSE /\ half' = half /\ lastTold' = lastTold /\ hud' = hud
      /\ (window' = window \/ window' = <<>>)
  BY DEF Replies
<1>a. GameTypes /\ PaintTypes /\ HudTypes /\ HalfInv /\ ToldInv
  BY DEF ScreenInv
<1>1. GameTypes'
  BY <1>0, <1>a DEF GameTypes
<1>2. Past \subseteq Past'
  <2>1. SUFFICES ASSUME NEW l \in Past PROVE l \in Past'
    OBVIOUS
  <2>2. l.m \in Nat /\ l \in Paint
    BY DEF Past, Paint
  <2>3. ship.holds \in Nat /\ ship'.holds \in Nat
    BY <1>a DEF GameTypes, Ships
  <2> QED
    BY <2>2, <2>3 DEF Past
<1>3. PaintTypes'
  <2>1. window' \in Seq(Past') /\ Len(window') <= Height
    <3>1. window \in Seq(Past') /\ <<>> \in Seq(Past') /\ Len(<<>>) <= Height
      BY <1>a, <1>2, SeqOfMore, ScreenAssumption DEF PaintTypes
    <3> QED
      BY <1>0, <1>a, <3>1 DEF PaintTypes
  <2>2. answers' \in 0..MaxAnswers
    <3>1. answers \in 0..MaxAnswers /\ MaxAnswers \in Nat
      BY <1>a, ScreenAssumption DEF PaintTypes
    <3> QED
      BY <1>0, <3>1
  <2> QED
    BY <1>0, <1>a, <2>1, <2>2 DEF PaintTypes
<1>4. HudTypes'
  <2>1. hud.empty \in Nat /\ ship.holds \in Nat /\ ship'.holds \in Nat
    BY <1>a DEF HudTypes, Huds, GameTypes, Ships
  <2> QED
    BY <1>0, <1>a, <2>1 DEF HudTypes
<1>5. HalfInv'
  BY <1>0, <1>a DEF HalfInv
<1>6. ToldInv'
  <2>1. AsTold' = AsTold /\ TurnsTold' = TurnsTold /\ CreditsTold' = CreditsTold
    BY <1>0 DEF AsTold, TurnsTold, CreditsTold
  <2>2. ~TurnsDue' => TurnsLeft' = TurnsLeft
    BY <1>0 DEF TurnsDue, TurnsLeft
  <2>3. ~TurnsDue
    BY <1>0 DEF TurnsDue
  <2>4. CASE window' = window
    BY <1>0, <1>a, <2>1, <2>2, <2>3, <2>4 DEF ToldInv
  <2>5. CASE window' = <<>>
    BY <1>0, <2>5, LowestOfNone DEF ToldInv
  <2> QED
    BY <1>0, <2>4, <2>5
<1>7. HudLatest'
  BY <1>0 DEF HudLatest
<1> QED
  BY <1>1, <1>3, <1>4, <1>5, <1>6, <1>7 DEF ScreenInv

\* The pieces the game answers with.
Idles == LineKinds \ {"command", "turns_left", "have", "holds"}
\* A line without numbers may always be painted.
LEMMA PlainDue ==
  ASSUME NEW s, NEW game, NEW kind \in Idles
  PROVE  Plain(kind) \in DueOf(s, game)
<1>1. kind \in LineKinds /\ kind \notin {"command", "turns_left", "have", "holds"} /\ 0 \in Nat
  BY DEF Idles
<1>2. Plain(kind) \in Paint /\ Plain(kind).is = kind
  BY <1>1, LineFields
<1> QED
  BY <1>1, <1>2 DEF DueOf, DueOf
\* So may one whose numbers nobody relies on,
LEMMA QuietDue ==
  ASSUME NEW s, NEW game, NEW kind \in Idles, NEW n \in Nat, NEW m \in Nat
  PROVE  Line(kind, n, m) \in DueOf(s, game)
<1>1. kind \in LineKinds /\ kind \notin {"command", "turns_left", "have", "holds"}
  BY DEF Idles
<1>2. Line(kind, n, m) \in Paint /\ Line(kind, n, m).is = kind
  BY <1>1, LineFields
<1> QED
  BY <1>1, <1>2 DEF DueOf, DueOf
\* and one that states no more free holds than there are.
LEMMA HoldsDue ==
  ASSUME NEW s, NEW game, NEW kind \in {"have", "holds"}, NEW n \in Nat, NEW m \in Nat, m <= game.holds
  PROVE  Line(kind, n, m) \in DueOf(s, game)
<1>1. kind \in LineKinds
  BY DEF LineKinds
<1>2. Line(kind, n, m) \in Paint /\ Line(kind, n, m).is = kind /\ Line(kind, n, m).m = m
  BY <1>1, LineFields
<1> QED
  BY <1>2 DEF DueOf, DueOf
\* The kinds of the lines nobody relies on.
LEMMA QuietKinds ==
  {"blank", "sector", "ports", "warps", "lettered", "selection", "toll", "credits", "good", "quantity", "quote", "end_quote",
   "report", "row", "end_report", "words", "pause", "destroyed"} \subseteq Idles
BY DEF Idles, LineKinds

\* The command prompt is the one of the sector.
LEMMA AsksDue ==
  ASSUME NEW s \in Nat, NEW game \in Ships, game.clock = ship.clock
  PROVE  Asks(s, game.turns) \in Seq(DueOf(s, game)) /\ Asks(s, game.turns) # <<>>
<1> DEFINE m == IF ship.clock THEN 0 ELSE game.turns
<1>1. m \in Nat /\ m \in {0, game.turns}
  BY DEF Ships
<1>2. Line("command", s, m) \in DueOf(s, game)
  <2> HIDE DEF m
  <2> QED
    <3>0. "command" \in LineKinds
      BY DEF LineKinds
    <3>1. Line("command", s, m) \in Paint /\ Line("command", s, m).is = "command" /\ Line("command", s, m).n = s /\ Line("command", s, m).m = m
      BY <1>1, <3>0, LineFields
    <3> QED
      BY <1>1, <3>1 DEF DueOf, DueOf
<1>3. Asks(s, game.turns) = <<Line("command", s, m)>>
  BY DEF Asks
<1> HIDE DEF m
<1> QED
  BY <1>2, <1>3

\* The ship is announced as it is.
LEMMA OwnDue ==
  ASSUME NEW s, NEW game, NEW t \in Spots, NEW m \in Nat
  PROVE  Own(t, m) \in Seq(DueOf(s, game)) /\ Own(t, m) # <<>>
<1> DEFINE D == DueOf(s, game)
           head == <<Plain("blank"), Line("sector", t, m)>>
           port == IF t \in PortSpots THEN <<Line("ports", t, m)>> ELSE <<>>
           tail == <<Line("warps", t, m), Plain("blank")>>
<1>0. t \in Nat
  BY ScreenAssumption
<1>1. Plain("blank") \in D /\ Line("sector", t, m) \in D /\ Line("ports", t, m) \in D /\ Line("warps", t, m) \in D
  BY <1>0, PlainDue, QuietDue, QuietKinds
<1> HIDE DEF D
<1>2. head \in Seq(D) /\ head # <<>>
  BY <1>1
<1>3. port \in Seq(D)
  BY <1>1
<1>4. tail \in Seq(D)
  BY <1>1
<1>5. Own(t, m) = (head \o port) \o tail
  BY DEF Own
<1> HIDE DEF head, port, tail
<1>6. (head \o port) \o tail \in Seq(D) /\ (head \o port) \o tail # <<>>
  BY <1>2, <1>3, <1>4
<1> QED
  BY <1>5, <1>6 DEF D

\* An answer in which no turns are told but by the prompt.
LEMMA AnswerPlain ==
  ASSUME ScreenInv, NEW name, NEW piece, Replies(name, piece),
         spot' \in Spots, ship' \in Ships, ship'.empty <= ship'.holds, ship.holds <= ship'.holds, ship'.turns = ship.turns,
         piece \in Seq(DueOf(spot', ship')), piece # <<>>
  PROVE  ScreenInv'
<1>1. DueOf(spot', ship') = Paintable'
  BY DEF Paintable
<1> QED
  BY <1>1, AnswerKept

\* Whatever key is pressed, what is to be painted is what is so.
LEMMA KeysAnswered ==
  ScreenInv /\ (\/ EntersGame \/ WarpsAway \/ Scans \/ MeetsFighters \/ TradesAtPort \/ BuysHolds \/ ShowsSheet
                \/ ShowsReport \/ ShowsHelp \/ AsksForKey \/ SeesWreck) => ScreenInv'
<1> SUFFICES ASSUME ScreenInv,
                    \/ EntersGame \/ WarpsAway \/ Scans \/ MeetsFighters \/ TradesAtPort \/ BuysHolds \/ ShowsSheet
                    \/ ShowsReport \/ ShowsHelp \/ AsksForKey \/ SeesWreck
             PROVE  ScreenInv'
  OBVIOUS
<1>0. /\ spot \in Spots /\ spot \in Nat /\ ship \in Ships /\ ship.empty <= ship.holds /\ ship.holds \in Nat /\ ship.empty \in Nat
      /\ ship.turns \in Nat /\ ship.credits \in Nat /\ ship.holds <= ship.holds /\ Spots \subseteq Nat
  BY ScreenAssumption DEF ScreenInv, GameTypes, Ships
<1> DEFINE A == DueOf(spot, ship)
           asks == Asks(spot, ship.turns)
<1>p. (\A kind \in Idles : Plain(kind) \in A) /\ \A kind \in Idles : \A n, m \in Nat : Line(kind, n, m) \in A
  BY PlainDue, QuietDue
<1>q. asks \in Seq(A) /\ asks # <<>>
  BY <1>0, AsksDue
<1>r. ASSUME NEW name, NEW piece \in Seq(A), piece # <<>>, Replies(name, piece), UNCHANGED <<spot, ship>> PROVE ScreenInv'
  BY <1>0, <1>r, AnswerPlain
<1>s. ASSUME NEW q \in Seq(A) PROVE q \o asks \in Seq(A) /\ q \o asks # <<>>
  <2> HIDE DEF A, asks
  <2> QED
    BY <1>q
<1>h. ship.empty \in Nat /\ \A n \in Nat : Line("have", n, ship.empty) \in A /\ Line("holds", n, ship.empty) \in A
  BY <1>0, HoldsDue
<1> HIDE DEF A
<1>1. CASE EntersGame
  <2>1. <<Plain("lettered"), Plain("lettered"), Plain("selection")>> \in Seq(A)
    BY <1>p, QuietKinds
  <2> QED
    BY <1>1, <1>r, <2>1 DEF EntersGame
<1>2. CASE WarpsAway
  <2> DEFINE one == <<Line("turns_left", ship.turns - 1, 0)>>
             own == Own(spot', 0)
             next == Asks(spot', ship'.turns)
             D == DueOf(spot', ship')
             B == DueOf(spot', ship')
  <2>1. /\ ship.turns > 1 /\ spot' \in Spots /\ ship' = [ship EXCEPT !.turns = @ - 1]
        /\ Replies("display", one \o own \o next)
    BY <1>2 DEF WarpsAway
  <2>2. /\ ship' \in Ships /\ ship'.turns = ship.turns - 1 /\ ship'.turns \in Nat /\ ship'.turns > 0
        /\ ship'.holds = ship.holds /\ ship'.empty = ship.empty /\ ship'.clock = ship.clock
    BY <1>0, <2>1 DEF Ships
  <2>3. Line("turns_left", ship.turns - 1, 0) \in D /\ Line("turns_left", ship.turns - 1, 0).is = "turns_left"
    <3>1. ship.turns - 1 \in Nat
      BY <1>0, <2>1
    <3>0. "turns_left" \in LineKinds /\ 0 \in Nat
      BY DEF LineKinds
    <3>2. Line("turns_left", ship.turns - 1, 0) \in Paint /\ Line("turns_left", ship.turns - 1, 0).is = "turns_left"
          /\ Line("turns_left", ship.turns - 1, 0).n = ship.turns - 1
      BY <3>0, <3>1, LineFields
    <3> QED
      BY <2>2, <3>2 DEF DueOf
  <2>4. own \in Seq(B) /\ next \in Seq(B)
    BY <1>0, <2>1, <2>2, OwnDue, AsksDue
  <2>5. B \subseteq D
    OBVIOUS
  <2>6. D = Paintable'
    BY DEF Paintable
  <2> HIDE DEF own, next, D, B
  <2>7. own \o next \in Seq(B)
    BY <2>4
  <2>8. one \o own \o next = one \o (own \o next)
    BY <2>3, <2>4, <2>5
  <2>9. one \o (own \o next) \in Seq(D)
        /\ Head(one \o (own \o next)) = Line("turns_left", ship.turns - 1, 0) /\ one \o (own \o next) # <<>>
    <3>1. own \o next \in Seq(D)
      BY <2>5, <2>7, SeqOfMore
    <3> QED
      BY <2>3, <3>1
  <2> HIDE DEF one
  <2> QED
    BY <1>0, <2>1, <2>2, <2>3, <2>6, <2>7, <2>8, <2>9, AnswerKept
<1>3. CASE Scans
  <2>1. PICK t \in Spots : Replies("scan", Own(t, 1) \o asks)
    BY <1>3 DEF Scans
  <2>2. Own(t, 1) \in Seq(A)
    BY OwnDue DEF A
  <2> QED
    BY <1>3, <1>r, <1>s, <2>1, <2>2 DEF Scans
<1>4. CASE MeetsFighters
  <2> DEFINE B == DueOf(spot', ship')
             own == Own(spot', 0)
  <2>1. spot' \in Spots /\ ship' = ship /\ Replies("encounter", own \o <<Plain("toll")>>)
    BY <1>4 DEF MeetsFighters
  <2>2. own \in Seq(B) /\ Plain("toll") \in B
    BY <2>1, OwnDue, PlainDue, QuietKinds
  <2>3. own \o <<Plain("toll")>> \in Seq(B) /\ own \o <<Plain("toll")>> # <<>>
    <3> HIDE DEF own, B
    <3> QED
      BY <2>2
  <2> HIDE DEF own
  <2> QED
    BY <1>0, <2>1, <2>3, AnswerPlain
<1>5. CASE TradesAtPort
  <2> DEFINE B == DueOf(spot', ship')
             q == <<Line("credits", ship.credits, 0), Plain("good"), Line("have", ship'.credits, ship.empty), Plain("quantity")>>
  <2>1. ship.credits > 1 /\ spot' = spot /\ ship' = [ship EXCEPT !.credits = @ - 1] /\ Replies("dock", q)
    BY <1>5 DEF TradesAtPort
  <2>2. /\ ship' \in Ships /\ ship'.turns = ship.turns /\ ship'.credits \in Nat
        /\ ship'.holds = ship.holds /\ ship'.empty = ship.empty
    BY <1>0, <2>1 DEF Ships
  <2>3. Line("credits", ship.credits, 0) \in B /\ Plain("good") \in B /\ Plain("quantity") \in B
    BY <1>0, PlainDue, QuietDue, QuietKinds
  <2>4. Line("have", ship'.credits, ship.empty) \in B
    BY <1>0, <2>2, HoldsDue
  <2>5. q \in Seq(B) /\ q # <<>>
    <3> HIDE DEF B
    <3> QED
      BY <2>3, <2>4
  <2> HIDE DEF q
  <2> QED
    BY <1>0, <2>1, <2>2, <2>5, AnswerPlain
<1>6. CASE BuysHolds
  <2> DEFINE B == DueOf(spot', ship')
             q == <<Plain("quote"), Plain("end_quote"), Plain("quantity")>>
  <2>1. spot' = spot /\ ship' = [ship EXCEPT !.holds = @ + 1, !.empty = @ + 1] /\ Replies("quote", q)
    BY <1>6 DEF BuysHolds
  <2>2. /\ ship' \in Ships /\ ship'.turns = ship.turns
        /\ ship'.holds = ship.holds + 1 /\ ship'.empty = ship.empty + 1
    <3>1. ship.holds + 1 \in Nat /\ ship.empty + 1 \in Nat
      BY <1>0
    <3>2. ship' = [ship EXCEPT !.holds = ship.holds + 1, !.empty = ship.empty + 1]
      BY <1>0, <2>1 DEF Ships
    <3> QED
      BY <1>0, <3>1, <3>2 DEF Ships
  <2>3. ship'.empty <= ship'.holds /\ ship.holds <= ship'.holds
    BY <1>0, <2>2
  <2>4. Plain("quote") \in B /\ Plain("end_quote") \in B /\ Plain("quantity") \in B
    BY PlainDue, QuietKinds
  <2>5. q \in Seq(B) /\ q # <<>>
    <3> HIDE DEF B
    <3> QED
      BY <2>4
  <2> HIDE DEF q
  <2> QED
    BY <1>0, <2>1, <2>2, <2>3, <2>5, AnswerPlain
<1>7. CASE ShowsSheet
  <2> DEFINE q == <<Line("holds", ship.holds, ship.empty), Line("credits", ship.credits, 0)>>
  <2>1. q \in Seq(A)
    BY <1>0, <1>h, <1>p, QuietKinds
  <2>2. Replies("sheet", q \o asks) /\ UNCHANGED <<spot, ship>>
    BY <1>7 DEF ShowsSheet
  <2> HIDE DEF q
  <2> QED
    BY <1>r, <1>s, <2>1, <2>2
<1>8. CASE ShowsReport
  <2>1. PICK rows \in {<<1>>, <<1, 2>>} :
          Replies("report", <<Plain("report")>> \o [i \in DOMAIN rows |-> Line("row", rows[i], 0)] \o <<Plain("end_report")>> \o asks)
    BY <1>8 DEF ShowsReport
  <2> DEFINE r == [i \in DOMAIN rows |-> Line("row", rows[i], 0)]
  <2>2. rows \in Seq(Nat)
    <3>1. <<1>> \in Seq(Nat)
      OBVIOUS
    <3>2. <<1, 2>> \in Seq(Nat)
      OBVIOUS
    <3> QED
      BY <3>1, <3>2
  <2>3. \A i \in DOMAIN rows : rows[i] \in Nat /\ Line("row", rows[i], 0) \in A
    BY <1>p, <2>2, QuietKinds
  <2>4. r \in Seq(A)
    <3>1. DOMAIN rows = 1..Len(rows) /\ Len(rows) \in Nat
      BY <2>2
    <3> QED
      BY <2>3, <3>1
  <2>6. <<Plain("report")>> \in Seq(A) /\ <<Plain("end_report")>> \in Seq(A)
    BY <1>p, QuietKinds
  <2> HIDE DEF r
  <2>5. <<Plain("report")>> \o r \o <<Plain("end_report")>> \in Seq(A)
    BY <2>4, <2>6
  <2> QED
    BY <1>8, <1>r, <1>s, <2>1, <2>5 DEF ShowsReport, r
<1>9. CASE ShowsHelp
  <2> DEFINE q == <<Plain("words"), Plain("report"), Line("row", 9, 0), Plain("end_report"), Plain("words")>>
  <2>1. q \in Seq(A)
    BY <1>p, QuietKinds
  <2>2. Replies("help", q \o asks) /\ UNCHANGED <<spot, ship>>
    BY <1>9 DEF ShowsHelp
  <2> HIDE DEF q
  <2> QED
    BY <1>r, <1>s, <2>1, <2>2
<1>10. CASE AsksForKey
  <2>1. <<Plain("words"), Plain("pause")>> \in Seq(A)
    BY <1>p, QuietKinds
  <2> QED
    BY <1>10, <1>r, <2>1 DEF AsksForKey
<1>11. CASE SeesWreck
  <2>1. <<Plain("destroyed")>> \in Seq(A)
    BY <1>p, QuietKinds
  <2> QED
    BY <1>11, <1>r, <1>s, <2>1 DEF SeesWreck
<1> QED
  BY <1>1, <1>2, <1>3, <1>4, <1>5, <1>6, <1>7, <1>8, <1>9, <1>10, <1>11

\* A painted line is the lowest of its kind in the window.
LEMMA LowestPainted ==
  ASSUME NEW q \in Seq(Paint), NEW x \in Paint, NEW kinds, NEW L,
         x.is \in kinds => x \in L, x.is \notin kinds => LowestIs(q, kinds, L)
  PROVE  LowestIs(Shown(Append(q, x)), kinds, L)
<1>1. Append(q, x) \in Seq(Paint)
  OBVIOUS
<1>2. LowestIs(Append(q, x), kinds, L)
  BY LowestAppended
<1> QED
  BY <1>1, <1>2, LowestShown

\* The half of a line has the number the line ends with, or is of no account.
LEMMA BegunLine ==
  ASSUME NEW l \in Paint
  PROVE  /\ Begun(l) \in Paint /\ (l.is # "blank" => Begun(l).is # "blank")
         /\ Begun(l).is \in {"command", "credits"} => Begun(l).is = l.is /\ Begun(l).n = 0 /\ Begun(l).m = l.m
         /\ Begun(l).is \in {"command", "credits", "blank", "words"}
<1>1. Plain("words") \in Paint /\ Plain("words").is = "words"
  BY LineFields DEF LineKinds
<1>2. CASE l.is \in {"command", "credits"}
  BY <1>2 DEF Begun, Paint
<1>3. CASE l.is = "blank"
  BY <1>3 DEF Begun
<1>4. CASE l.is \notin {"command", "credits", "blank"}
  BY <1>1, <1>4 DEF Begun
<1> QED
  BY <1>2, <1>3, <1>4

\* A chunk painted leaves on the screen, lowest, what is so.
LEMMA PaintedKept == ScreenInv /\ Painted => ScreenInv'
<1> SUFFICES ASSUME ScreenInv, Painted PROVE ScreenInv'
  OBVIOUS
<1> DEFINE next == Head(toPaint)
           v == IF half THEN Front(window) ELSE window
           begun == Begun(next)
<1>a. GameTypes /\ PaintTypes /\ HudTypes /\ HalfInv /\ ToldInv
  BY DEF ScreenInv
<1>b. /\ toPaint # <<>> /\ polled' = FALSE /\ UNCHANGED <<answer, answers, spot, ship, hud>>
      /\ untouched' = (untouched /\ next.is = "blank")
  BY DEF Painted
<1>n. /\ next \in Paintable /\ Tail(toPaint) \in Seq(Paintable) /\ next \in Paint /\ next.is \in LineKinds /\ next.n \in Nat /\ next.m \in Nat
      /\ next.is = "command" => next.n = spot /\ next.m \in {0, ship.turns}
      /\ next.is = "turns_left" => next.n = ship.turns /\ next.n > 0
      /\ next.is \in {"have", "holds"} => next.m <= ship.holds
  <2>1. next \in Paintable /\ Tail(toPaint) \in Seq(Paintable)
    BY <1>a, <1>b DEF PaintTypes
  <2> HIDE DEF next
  <2> QED
    BY <2>1 DEF Paintable, DueOf, Paint
<1>g. spot \in Spots /\ spot \in Nat /\ ship.turns \in Nat /\ lastTold \in Tellings /\ lastTold.turns \in Nat /\ lastTold.credits \in Nat
  BY <1>a, ScreenAssumption DEF GameTypes, Ships, Tellings
<1>p. next \in Past /\ begun \in Past /\ begun \in Paint
  <2>1. next \in Past
    BY <1>n, <1>g DEF Past
  <2>2. begun \in Paint /\ begun.is \notin {"have", "holds", "turns_left"} /\ (begun.is = "command" => begun.n = 0)
    BY <1>n, BegunLine
  <2> HIDE DEF next, begun
  <2> QED
    BY <2>1, <2>2 DEF Past
<1>w. window \in Seq(Past) /\ v \in Seq(Past) /\ Past \subseteq Paint
  BY <1>a, FrontLines DEF PaintTypes, HalfInv, Past
<1>l. window \in Seq(Paint) /\ v \in Seq(Paint)
  BY <1>w, SeqOfMore
<1>h. half => window # <<>> /\ window[Len(window)] = begun /\ next.is \in {"command", "credits", "row", "ports"}
  BY <1>a DEF HalfInv
\* What is lowest of kinds the half painted line is not of, is so without it.
<1>f. ASSUME NEW kinds, NEW L, LowestIs(window, kinds, L), half => begun.is \notin kinds PROVE LowestIs(v, kinds, L)
  <2>1. CASE half
    BY <1>f, <1>h, <1>l, <2>1, LowestFront
  <2>2. CASE ~half
    BY <1>f, <2>2
  <2> QED
    BY <2>1, <2>2
<1>s. Past' = Past /\ Paintable' = Paintable /\ OfHere' = OfHere /\ TurnsLeft' = TurnsLeft
  BY <1>b DEF Past, Paintable, OfHere, TurnsLeft
<1>k. begun.is \in {"command", "credits", "blank", "words"} /\ (next.is # "blank" => begun.is # "blank")
      /\ (begun.is \in {"command", "credits"} => begun.is = next.is /\ begun.n = 0 /\ begun.m = next.m)
  BY <1>n, BegunLine
<1> DEFINE Whole == /\ window' = Shown(Append(v, next)) /\ toPaint' = Tail(toPaint) /\ half' = FALSE
                    /\ lastTold' = [credits |-> IF next.is \in {"have", "credits"} THEN next.n ELSE lastTold.credits,
                                    turns |-> IF next.is = "turns_left" /\ next.n > 0 THEN next.n
                                              ELSE IF next.is = "command" /\ next.m > 0 THEN next.m ELSE lastTold.turns]
           First == /\ ~half /\ half' = TRUE /\ next.is \in {"command", "credits", "row", "ports"}
                    /\ window' = Shown(Append(window, begun))
                    /\ lastTold' = [lastTold EXCEPT !.turns = IF next.is = "command" /\ next.m > 0 THEN next.m ELSE lastTold.turns]
                    /\ toPaint' = toPaint
<1>c. Whole \/ First
  BY <1>g DEF Painted, Tellings
<1>x. ASSUME NEW x \in {next, begun}, NEW q \in {v, window}, window' = Shown(Append(q, x)), lastTold' \in Tellings,
             half' \in BOOLEAN, toPaint' \in Seq(Paintable), HalfInv', ToldInv'
      PROVE  ScreenInv'
  <2>1. GameTypes'
    BY <1>a, <1>b, <1>x DEF GameTypes
  <2>2. HudTypes' /\ HudLatest'
    BY <1>a, <1>b DEF HudTypes, HudLatest
  <2>3. x \in Past /\ q \in Seq(Past)
    BY <1>p, <1>w, <1>x
  <2>4. Append(q, x) \in Seq(Past)
    BY <2>3
  <2>5. window' \in Seq(Past) /\ Len(window') <= Height
    BY <1>x, <2>4, ShownLines
  <2>6. untouched' \in BOOLEAN
    BY <1>b
  <2>7. PaintTypes'
    BY <1>a, <1>b, <1>s, <1>x, <2>5, <2>6 DEF PaintTypes
  <2> QED
    BY <1>x, <2>1, <2>2, <2>7 DEF ScreenInv
<1> HIDE DEF v, begun, next
<1>1. CASE Whole
  <2>1. /\ lastTold'.credits = IF next.is \in {"have", "credits"} THEN next.n ELSE lastTold.credits
        /\ lastTold'.turns = IF next.is = "turns_left" THEN next.n
                             ELSE IF next.is = "command" /\ next.m > 0 THEN next.m ELSE lastTold.turns
        /\ lastTold' \in Tellings
    BY <1>1, <1>g, <1>n DEF Tellings
  <2>2. HalfInv'
    BY <1>1 DEF HalfInv
  <2>3. ~untouched' => LowestIs(window', Said, OfHere')
    <3>1. next.is \in Said => next \in OfHere
      BY <1>n DEF OfHere
    <3>2. next.is \notin Said => next.is = "blank" /\ ~half
      BY <1>h, <1>n DEF Said
    <3>3. ASSUME ~untouched', next.is \notin Said PROVE LowestIs(v, Said, OfHere)
      BY <1>a, <1>b, <3>2, <3>3 DEF ToldInv, v
    <3> QED
      BY <1>1, <1>l, <1>n, <1>s, <3>1, <3>3, LowestPainted
  <2>4. LowestIs(window', Said, AsTold')
    <3>1. next.is \in Said => next \in AsTold'
      BY <1>n, <2>1 DEF AsTold
    <3>2. next.is \notin Said => next.is = "blank" /\ ~half /\ AsTold' = AsTold
      BY <1>h, <1>n, <2>1 DEF Said, AsTold
    <3>3. ASSUME next.is \notin Said PROVE LowestIs(v, Said, AsTold')
      BY <1>a, <3>2, <3>3 DEF ToldInv, v
    <3> QED
      BY <1>1, <1>l, <1>n, <3>1, <3>3, LowestPainted
  <2>5. LowestIs(window', {"turns_left"}, TurnsTold')
    <3>1. next.is \in {"turns_left"} => next \in TurnsTold'
      BY <1>n, <2>1 DEF TurnsTold
    <3>2. ASSUME next.is \notin {"turns_left"} PROVE LowestIs(v, {"turns_left"}, TurnsTold')
      <4>1. LowestIs(window, {"turns_left"}, TurnsTold) /\ LowestIs(window, {"turns_left"}, TurnsLeft)
        BY <1>a, <3>2 DEF ToldInv, TurnsDue, next
      <4>2. TurnsTold' = TurnsTold \/ TurnsTold' = TurnsLeft
        BY <1>n, <2>1, <3>2 DEF TurnsTold, TurnsLeft
      <4>3. LowestIs(window, {"turns_left"}, TurnsTold')
        BY <4>1, <4>2
      <4> QED
        BY <1>f, <1>k, <4>3
    <3> QED
      BY <1>1, <1>l, <1>n, <3>1, <3>2, LowestPainted
  <2>6. LowestIs(window', {"turns_left"}, TurnsLeft')
    <3>1. next.is \in {"turns_left"} => next \in TurnsLeft
      BY <1>n DEF TurnsLeft
    <3>2. ASSUME next.is \notin {"turns_left"} PROVE LowestIs(v, {"turns_left"}, TurnsLeft)
      <4>1. LowestIs(window, {"turns_left"}, TurnsLeft)
        BY <1>a, <3>2 DEF ToldInv, TurnsDue, next
      <4> QED
        BY <1>f, <1>k, <4>1
    <3> QED
      BY <1>1, <1>l, <1>n, <1>s, <3>1, <3>2, LowestPainted
  <2>7. LowestIs(window', {"have", "credits"}, CreditsTold')
    <3>1. next.is \in {"have", "credits"} => next \in CreditsTold'
      BY <1>n, <2>1 DEF CreditsTold
    <3>2. ASSUME next.is \notin {"have", "credits"} PROVE LowestIs(v, {"have", "credits"}, CreditsTold')
      <4>1. LowestIs(window, {"have", "credits"}, CreditsTold) /\ CreditsTold' = CreditsTold
        BY <1>a, <2>1, <3>2 DEF ToldInv, CreditsTold
      <4>2. begun.is \notin {"have", "credits"}
        BY <1>k, <3>2
      <4> QED
        BY <1>f, <4>1, <4>2
    <3> QED
      BY <1>1, <1>l, <1>n, <3>1, <3>2, LowestPainted
  <2>8. ToldInv'
    BY <2>3, <2>4, <2>5, <2>6, <2>7 DEF ToldInv
  <2> QED
    BY <1>1, <1>n, <1>x, <2>1, <2>2, <2>8
<1>2. CASE First
  <2>1. /\ lastTold'.credits = lastTold.credits
        /\ lastTold'.turns = IF next.is = "command" /\ next.m > 0 THEN next.m ELSE lastTold.turns
        /\ lastTold' \in Tellings
    BY <1>2, <1>g, <1>n DEF Tellings
  <2>2. HalfInv'
    <3>1. Append(window, begun) \in Seq(Paint) /\ Append(window, begun) # <<>> /\ Append(window, begun)[Len(Append(window, begun))] = begun
      BY <1>l, <1>p
    <3>2. window' # <<>> /\ window'[Len(window')] = begun
      BY <1>2, <3>1, ShownLines
    <3>3. ~untouched' /\ toPaint' # <<>> /\ Head(toPaint').is \in {"command", "credits", "row", "ports"} /\ Begun(Head(toPaint')) = begun
      BY <1>2, <1>b DEF next, begun
    <3> QED
      BY <3>2, <3>3 DEF HalfInv
  <2>3. LowestIs(window', Said, OfHere')
    <3>1. begun.is \in Said /\ begun \in OfHere
      BY <1>2, <1>k, <1>p DEF Said, OfHere, LineKinds
    <3> QED
      BY <1>2, <1>l, <1>p, <1>s, <3>1, LowestPainted
  <2>4. LowestIs(window', Said, AsTold')
    <3>1. begun.is \in Said /\ begun \in AsTold'
      BY <1>2, <1>k, <1>p, <2>1 DEF Said, AsTold, LineKinds
    <3> QED
      BY <1>2, <1>l, <1>p, <3>1, LowestPainted
  <2>a. LowestIs(window, {"turns_left"}, TurnsTold) /\ LowestIs(window, {"turns_left"}, TurnsLeft) /\ begun.is \notin {"turns_left"}
    BY <1>2, <1>a, <1>k DEF ToldInv, TurnsDue, next
  <2>5. LowestIs(window', {"turns_left"}, TurnsTold')
    <3>1. TurnsTold' = TurnsTold \/ TurnsTold' = TurnsLeft
      BY <1>2, <1>n, <2>1 DEF TurnsTold, TurnsLeft
    <3>2. LowestIs(window, {"turns_left"}, TurnsTold')
      BY <2>a, <3>1
    <3> QED
      BY <1>2, <1>l, <1>p, <2>a, <3>2, LowestPainted
  <2>6. LowestIs(window', {"turns_left"}, TurnsLeft')
    BY <1>2, <1>l, <1>p, <1>s, <2>a, LowestPainted
  <2>7. LowestIs(window', {"have", "credits"}, CreditsTold')
    <3>1. begun.is \in {"have", "credits"} => begun \in CreditsTold
      BY <1>k, <1>p DEF CreditsTold
    <3>2. LowestIs(window, {"have", "credits"}, CreditsTold) /\ CreditsTold' = CreditsTold
      BY <1>a, <2>1 DEF ToldInv, CreditsTold
    <3> QED
      BY <1>2, <1>l, <1>p, <3>1, <3>2, LowestPainted
  <2>8. ToldInv'
    BY <2>3, <2>4, <2>5, <2>6, <2>7 DEF ToldInv
  <2>9. toPaint' \in Seq(Paintable)
    BY <1>2, <1>a DEF PaintTypes
  <2> QED
    BY <1>2, <1>x, <2>1, <2>2, <2>8, <2>9
<1> QED
  BY <1>c, <1>1, <1>2

\* The latest whole statement of a kind, when there is no half one below it, is the lowest.
LEMMA LatestIs ==
  ASSUME window \in Seq(Paint), NEW kinds, "blank" \notin kinds, NEW L, LowestIs(window, kinds, L)
  PROVE  /\ LatestOf(Rows, kinds) \in Nat
         /\ LatestOf(Rows, kinds) # 0 => \E l \in L : l.n > 0 /\ l.n = LatestOf(Rows, kinds)
         /\ (\A k \in DOMAIN window : window[k].is \in kinds => window[k].n > 0) /\ LinesOf(Rows, kinds) # {} => LatestOf(Rows, kinds) # 0
<1> DEFINE whole == {i \in LinesOf(Rows, kinds) : Rows[i].n > 0}
           begun == {i \in LinesOf(Rows, kinds) : Rows[i].n = 0}
           k == Lowest(whole)
<1>1. /\ Rows \in Seq(Paint) /\ LinesOf(Rows, kinds) = LinesOf(window, kinds)
      /\ \A i \in DOMAIN Rows : i \in DOMAIN window /\ Rows[i] = window[i]
  BY PromptLine
<1>2. /\ Len(Rows) \in Nat /\ DOMAIN Rows = 1..Len(Rows) /\ LinesOf(Rows, kinds) \subseteq 1..Len(Rows)
      /\ \A i \in DOMAIN Rows : Rows[i].n \in Nat
  <2>1. Len(Rows) \in Nat /\ DOMAIN Rows = 1..Len(Rows) /\ LinesOf(Rows, kinds) \subseteq 1..Len(Rows)
    BY <1>1 DEF LinesOf
  <2>2. \A i \in DOMAIN Rows : Rows[i] \in Paint
    BY <1>1
  <2> QED
    BY <2>1, <2>2 DEF Paint
<1>3. LatestOf(Rows, kinds) = IF whole = {} \/ \E i \in begun : i > k THEN 0 ELSE Rows[k].n
  BY DEF LatestOf
<1>4. whole # {} => k \in whole /\ \A j \in whole : j <= k
  BY <1>2, LowestPlace
<1>5. LatestOf(Rows, kinds) \in Nat
  BY <1>2, <1>3, <1>4
<1>6. ASSUME LatestOf(Rows, kinds) # 0 PROVE \E l \in L : l.n > 0 /\ l.n = LatestOf(Rows, kinds)
  <2>1. whole # {} /\ (\A i \in begun : ~(i > k)) /\ LatestOf(Rows, kinds) = Rows[k].n
    BY <1>3, <1>6
  <2>2. k \in LinesOf(Rows, kinds) /\ Rows[k].n > 0 /\ \A j \in whole : j <= k
    BY <1>4, <2>1
  <2> HIDE DEF k
  <2>3. ASSUME NEW j \in DOMAIN window, j > k, window[j].is \in kinds PROVE FALSE
    <3>1. j \in LinesOf(Rows, kinds)
      BY <1>1, <2>3 DEF LinesOf
    <3>2. j \in whole \/ j \in begun
      BY <1>2, <3>1
    <3>3. j \in Int /\ k \in Int
      BY <1>2, <2>2, <3>1
    <3> QED
      BY <2>1, <2>2, <2>3, <3>2, <3>3
  <2>4. k \in DOMAIN window /\ window[k] = Rows[k] /\ window[k].is \in kinds
    BY <1>1, <2>2 DEF LinesOf
  <2>5. window[k] \in L
    BY <2>3, <2>4 DEF LowestIs
  <2> QED
    BY <2>1, <2>2, <2>4, <2>5
<1>7. ASSUME \A i \in DOMAIN window : window[i].is \in kinds => window[i].n > 0, LinesOf(Rows, kinds) # {}
      PROVE  LatestOf(Rows, kinds) # 0
  <2>1. \A i \in LinesOf(Rows, kinds) : i \in DOMAIN Rows /\ Rows[i].n > 0
    BY <1>1, <1>7 DEF LinesOf
  <2>2. whole # {} /\ \A i \in begun : FALSE
    BY <1>7, <2>1
  <2>3. LatestOf(Rows, kinds) = Rows[k].n /\ Rows[k].n > 0
    BY <1>3, <1>4, <2>2
  <2> QED
    BY <1>2, <1>4, <2>2, <2>3
<1> QED
  BY <1>5, <1>6, <1>7

\* A poll takes nothing that no line of the screen states.
LEMMA PolledKept == ScreenInv /\ Polls => ScreenInv'
<1> SUFFICES ASSUME ScreenInv, Polls PROVE ScreenInv'
  OBVIOUS
<1> DEFINE credits == CreditsOf(Rows)
           turns == TurnsRead(Rows)
           line == HoldsLine(Rows)
           sector == SectorOf(Prompt(Rows))
<1>a. GameTypes /\ PaintTypes /\ HudTypes /\ HalfInv /\ ToldInv
  BY DEF ScreenInv
<1>b. polled' = TRUE /\ UNCHANGED <<window, toPaint, half, untouched, answer, answers, spot, ship, lastTold>>
  BY DEF Polls
<1>w. /\ window \in Seq(Past) /\ Past \subseteq Paint /\ window \in Seq(Paint) /\ Len(window) \in Nat /\ DOMAIN window = 1..Len(window)
      /\ \A k \in DOMAIN window : window[k] \in Past /\ window[k] \in Paint
  <2>1. window \in Seq(Past) /\ Past \subseteq Paint
    BY <1>a DEF PaintTypes, Past
  <2>2. window \in Seq(Paint)
    BY <2>1, SeqOfMore
  <2> QED
    BY <2>1, <2>2
<1>g. ship.holds \in Nat /\ lastTold.credits \in Nat /\ lastTold.turns \in Nat
  BY <1>a DEF GameTypes, Ships, Tellings
<1>h. /\ hud.credits \in Nat /\ hud.baseline \in Nat /\ hud.turns \in Nat /\ hud.most \in Nat /\ hud.sector \in Nat
      /\ hud.empty \in Nat /\ hud.holds \in Nat
      /\ hud.sector \in Spots \cup {0} /\ hud.empty <= ship.holds /\ hud.turns <= hud.most /\ (hud.credits = 0 <=> hud.baseline = 0)
  BY <1>a DEF HudTypes, Huds
<1>1. credits \in Nat /\ (credits # 0 => credits = lastTold.credits)
  <2>1. LowestIs(window, {"have", "credits"}, CreditsTold)
    BY <1>a DEF ToldInv
  <2> QED
    BY <1>w, <2>1, LatestIs DEF CreditsOf, CreditsTold
<1>2. LatestOf(Rows, {"turns_left"}) \in Nat /\ (LatestOf(Rows, {"turns_left"}) # 0 => LatestOf(Rows, {"turns_left"}) = lastTold.turns)
      /\ (LinesOf(Rows, {"turns_left"}) # {} => LatestOf(Rows, {"turns_left"}) # 0)
  <2>1. LowestIs(window, {"turns_left"}, TurnsTold)
    BY <1>a DEF ToldInv
  <2>2. \A k \in DOMAIN window : window[k].is \in {"turns_left"} => window[k].n > 0
    BY <1>w DEF Past
  <2> QED
    BY <1>w, <2>1, <2>2, LatestIs DEF TurnsTold
<1>3. /\ Prompt(Rows).is = "command" => Prompt(Rows).n \in Spots \cup {0} /\ Prompt(Rows).m \in Nat
      /\ Prompt(Rows).is = "command" /\ Prompt(Rows).m > 0 => Prompt(Rows).m = lastTold.turns
  <2>1. CASE Rows = <<>>
    BY <1>w, <2>1, PromptLine, LineFields DEF LineKinds
  <2>2. CASE Rows # <<>>
    <3>1. PICK k \in DOMAIN window : /\ window[k].is \in Said /\ Prompt(Rows) = window[k]
                                     /\ \A j \in DOMAIN window : j > k => window[j].is \notin Said
      BY <1>w, <2>2, PromptLine
    <3>2. window[k] \in AsTold /\ window[k] \in Past /\ window[k] \in Paint
      BY <1>a, <1>w, <3>1 DEF ToldInv, LowestIs
    <3> QED
      BY <3>1, <3>2 DEF AsTold, Past, Paint
  <2> QED
    BY <2>1, <2>2
<1>4. sector \in Spots \cup {0} /\ sector \in Nat
  <2>1. Spots \subseteq Nat
    BY ScreenAssumption
  <2>2. CASE Prompt(Rows).is = "command"
    <3>1. sector = Prompt(Rows).n
      BY <2>2 DEF SectorOf
    <3>2. Prompt(Rows).n \in Spots \cup {0}
      BY <1>3, <2>2
    <3>3. \A s \in Spots \cup {0} : s \in Nat
      BY <2>1
    <3>4. Prompt(Rows).n \in Nat
      BY <3>2, <3>3
    <3> QED
      BY <3>1, <3>2, <3>4
  <2>3. CASE Prompt(Rows).is # "command"
    <3>1. sector = 0
      BY <2>3 DEF SectorOf
    <3> QED
      BY <3>1
  <2> QED
    BY <2>2, <2>3
<1>5. turns \in Nat /\ (turns # 0 => turns = lastTold.turns \/ LinesOf(Rows, {"turns_left"}) = {})
  BY <1>2, <1>3 DEF TurnsRead
<1>6. line.is # "blank" => line.m \in Nat /\ line.m <= ship.holds /\ line.n \in Nat
  <2> DEFINE stated == LinesOf(Rows, {"have"}) \cup {i \in LinesOf(Rows, {"holds"}) : Rows[i].m <= Rows[i].n}
  <2>1. /\ Rows \in Seq(Paint) /\ Len(Rows) \in Nat /\ DOMAIN Rows = 1..Len(Rows)
        /\ \A k \in DOMAIN Rows : k \in DOMAIN window /\ Rows[k] = window[k]
    BY <1>w, PromptLine
  <2>2. stated \subseteq 1..Len(Rows)
    BY <2>1 DEF LinesOf
  <2>3. CASE stated = {}
    <3>1. line = Plain("blank")
      BY <2>3 DEF HoldsLine
    <3>2. "blank" \in LineKinds
      BY DEF LineKinds
    <3>3. Plain("blank").is = "blank"
      BY <3>2, LineFields
    <3> QED
      BY <3>1, <3>3
  <2>4. CASE stated # {}
    <3>1. line = Rows[Lowest(stated)] /\ Lowest(stated) \in stated
      BY <2>1, <2>2, <2>4, LowestPlace DEF HoldsLine
    <3>2. \A k \in stated : Rows[k] \in Past /\ Rows[k] \in Paint /\ Rows[k].is \in {"have", "holds"}
      BY <1>w, <2>1 DEF LinesOf
    <3> HIDE DEF stated
    <3> QED
      BY <3>1, <3>2 DEF Past, Paint
  <2> QED
    BY <2>3, <2>4
<1> DEFINE new == [credits |-> CreditsKept.credits, baseline |-> CreditsKept.baseline, turns |-> TurnsKept.turns, most |-> TurnsKept.most,
                   sector |-> SectorKept.sector, empty |-> CargoKept.empty, holds |-> CargoKept.holds]
<1>7. hud' = new
  BY DEF Polls
<1> HIDE DEF credits, turns, line, sector
<1>8. /\ new.credits = (IF credits = 0 THEN hud.credits ELSE credits) /\ new.baseline = (IF hud.baseline = 0 THEN credits ELSE hud.baseline)
      /\ new.turns = (IF turns = 0 THEN hud.turns ELSE turns) /\ new.most = (IF turns > hud.most THEN turns ELSE hud.most)
      /\ new.sector = (IF sector = 0 THEN hud.sector ELSE sector)
      /\ new.empty = (IF line.is = "blank" THEN hud.empty ELSE line.m) /\ new.holds = (IF line.is = "holds" THEN line.n ELSE hud.holds)
  BY DEF CreditsKept, TurnsKept, CargoKept, SectorKept, KeptOr, credits, turns, line, sector
<1>9. /\ new.credits \in Nat /\ new.baseline \in Nat /\ new.turns \in Nat /\ new.most \in Nat /\ new.sector \in Nat
      /\ new.empty \in Nat /\ new.holds \in Nat
  <2> HIDE DEF new
  <2> QED
    BY <1>1, <1>4, <1>5, <1>6, <1>8, <1>h
<1>10. new \in Huds
  BY <1>9 DEF Huds
<1> HIDE DEF new
<1>11. new.sector \in Spots \cup {0} /\ new.empty <= ship.holds
  BY <1>4, <1>6, <1>8, <1>h
<1>12. new.turns <= new.most /\ (new.credits = 0 <=> new.baseline = 0)
  BY <1>1, <1>5, <1>8, <1>h
<1>13. HudTypes'
  BY <1>b, <1>7, <1>10, <1>11, <1>12 DEF HudTypes
<1>14. Rows' = Rows
  BY <1>b DEF Rows, LinesOf
<1>15. HudLatest'
  <2>1. LatestOf(Rows, {"have", "credits"}) # 0 => new.credits = lastTold.credits
    BY <1>1, <1>8 DEF CreditsOf, credits
  <2>2. ASSUME new.turns # 0, LinesOf(Rows, {"turns_left"}) # {} PROVE new.turns = lastTold.turns
    <3>1. turns # 0
      BY <1>2, <2>2, <1>3 DEF turns, TurnsRead
    <3> QED
      BY <1>5, <1>8, <2>2, <3>1
  <2> QED
    BY <1>b, <1>7, <1>12, <1>14, <2>1, <2>2 DEF HudLatest
<1>16. (GameTypes /\ HalfInv)'
  BY <1>a, <1>b DEF GameTypes, HalfInv
<1>17. Past' = Past /\ Paintable' = Paintable /\ OfHere' = OfHere /\ TurnsLeft' = TurnsLeft /\ AsTold' = AsTold /\ TurnsTold' = TurnsTold
       /\ CreditsTold' = CreditsTold /\ (TurnsDue' <=> TurnsDue)
  BY <1>b DEF Past, Paintable, OfHere, TurnsLeft, AsTold, TurnsTold, CreditsTold, TurnsDue
<1>18. PaintTypes'
  BY <1>a, <1>b, <1>17 DEF PaintTypes
<1>19. ToldInv'
  BY <1>a, <1>b, <1>17 DEF ToldInv
<1> QED
  BY <1>13, <1>15, <1>16, <1>18, <1>19 DEF ScreenInv

\* The lists of games, which the program starts at.
LEMMA DoorsDue ==
  ASSUME NEW d \in Doors, NEW s, NEW game
  PROVE  GameList(d) \in Seq(DueOf(s, game)) /\ GameList(d) # <<>>
<1> DEFINE D == DueOf(s, game)
           list == <<Plain("bracketed"), Plain("players"), Plain("descriptions")>>
<1>1. \A kind \in {"bracketed", "players", "descriptions", "games", "selection", "title", "version", "registered", "game", "choice",
                   "timed_out", "select"} : Plain(kind) \in D
  BY PlainDue DEF Idles, LineKinds
<1> HIDE DEF D
<1>2. list \in Seq(D)
  BY <1>1
<1>3. CASE d = "boxed"
  <2>1. GameList(d) = <<Plain("games")>> \o list \o <<Plain("selection")>>
    BY <1>3 DEF GameList
  <2>2. <<Plain("games")>> \in Seq(D) /\ <<Plain("selection")>> \in Seq(D)
    BY <1>1
  <2> HIDE DEF list
  <2>3. <<Plain("games")>> \o list \o <<Plain("selection")>> \in Seq(D) /\ <<Plain("games")>> \o list \o <<Plain("selection")>> # <<>>
    BY <1>2, <2>2
  <2> QED
    BY <2>1, <2>3 DEF D
<1>4. CASE d = "banner"
  <2>1. GameList(d) = <<Plain("title"), Plain("version"), Plain("registered")>> \o list \o <<Plain("selection")>>
    BY <1>4 DEF GameList
  <2>2. <<Plain("title"), Plain("version"), Plain("registered")>> \in Seq(D) /\ <<Plain("selection")>> \in Seq(D)
    BY <1>1
  <2> HIDE DEF list
  <2>3. <<Plain("title"), Plain("version"), Plain("registered")>> \o list \o <<Plain("selection")>> \in Seq(D)
        /\ <<Plain("title"), Plain("version"), Plain("registered")>> \o list \o <<Plain("selection")>> # <<>>
    BY <1>2, <2>2
  <2> QED
    BY <2>1, <2>3 DEF D
<1>5. CASE d = "square"
  <2>1. GameList(d) = <<Plain("game"), Plain("game"), Plain("choice"), Plain("timed_out")>>
    BY <1>5 DEF GameList
  <2>2. <<Plain("game"), Plain("game"), Plain("choice"), Plain("timed_out")>> \in Seq(D)
    BY <1>1
  <2> QED
    BY <2>1, <2>2 DEF D
<1>6. CASE d = "plain"
  <2>1. GameList(d) = <<Plain("select"), Plain("timed_out")>>
    BY <1>6 DEF GameList
  <2>2. <<Plain("select"), Plain("timed_out")>> \in Seq(D)
    BY <1>1
  <2> QED
    BY <2>1, <2>2 DEF D
<1> QED
  BY <1>3, <1>4, <1>5, <1>6, ScreenAssumption

\* At the start the screen is blank and nothing is read.
LEMMA ScreenStarts == ScreenInit => ScreenInv
<1> SUFFICES ASSUME ScreenInit PROVE ScreenInv
  OBVIOUS
<1>0. /\ window = <<>> /\ half = FALSE /\ untouched = FALSE /\ answers = 0 /\ spot \in Spots /\ polled = FALSE /\ hud = NothingRead
      /\ lastTold = [credits |-> 0, turns |-> 0]
  BY DEF ScreenInit
<1>1. PICK d \in Doors : toPaint = GameList(d)
  BY DEF ScreenInit
<1>2. toPaint \in Seq(Paintable) /\ toPaint # <<>>
  BY <1>1, DoorsDue DEF Paintable
<1>3. ship \in Ships /\ ship.empty = 1 /\ ship.holds = 1
  <2>1. PICK clock \in BOOLEAN : ship = [credits |-> 2, turns |-> 3, empty |-> 1, holds |-> 1, clock |-> clock]
    BY DEF ScreenInit
  <2> QED
    BY <2>1 DEF Ships
<1>4. GameTypes
  BY <1>0, <1>3 DEF GameTypes, Tellings
<1>5. PaintTypes
  <2>1. 0 \in 0..MaxAnswers /\ <<>> \in Seq(Past) /\ Len(<<>>) <= Height
    BY ScreenAssumption
  <2> QED
    BY <1>0, <1>2, <2>1 DEF PaintTypes
<1>6. HudTypes
  BY <1>0, <1>3 DEF HudTypes, NothingRead, Huds
<1>7. HalfInv /\ HudLatest /\ ToldInv
  BY <1>0, LowestOfNone DEF HalfInv, HudLatest, ToldInv
<1> QED
  BY <1>4, <1>5, <1>6, <1>7 DEF ScreenInv

\* The lowest statement of each kind on the screen, with what is still to be
\* painted, is what the game says now.
THEOREM ScreenInvariance == ScreenSpec => []ScreenInv
<1>1. ScreenInv /\ UNCHANGED readVars => ScreenInv'
  <2> SUFFICES ASSUME ScreenInv, UNCHANGED readVars PROVE ScreenInv'
    OBVIOUS
  <2>1. /\ window' = window /\ toPaint' = toPaint /\ half' = half /\ untouched' = untouched /\ answer' = answer /\ answers' = answers
        /\ spot' = spot /\ ship' = ship /\ lastTold' = lastTold /\ hud' = hud /\ polled' = polled
    BY DEF readVars
  <2>2. Past' = Past /\ Paintable' = Paintable /\ OfHere' = OfHere /\ TurnsLeft' = TurnsLeft /\ AsTold' = AsTold /\ TurnsTold' = TurnsTold
        /\ CreditsTold' = CreditsTold /\ (TurnsDue' <=> TurnsDue) /\ Rows' = Rows
    BY <2>1 DEF Past, Paintable, OfHere, TurnsLeft, AsTold, TurnsTold, CreditsTold, TurnsDue, Rows, LinesOf
  <2>3. (GameTypes /\ HalfInv /\ HudTypes)'
    BY <2>1 DEF ScreenInv, GameTypes, HalfInv, HudTypes
  <2>4. (PaintTypes /\ ToldInv)'
    BY <2>1, <2>2 DEF ScreenInv, PaintTypes, ToldInv
  <2>5. HudLatest'
    BY <2>1, <2>2 DEF ScreenInv, HudLatest
  <2> QED
    BY <2>3, <2>4, <2>5 DEF ScreenInv
<1>2. ScreenInv /\ [ScreenNext]_readVars => ScreenInv'
  BY <1>1, KeysAnswered, PaintedKept, PolledKept DEF ScreenNext
<1> QED
  BY <1>2, ScreenStarts, PTL DEF ScreenSpec

\* Type correctness of the screen and its readings (ScreenTypeOK).
THEOREM ScreenIsTyped == ScreenSpec => []ScreenTypeOK
<1>1. ScreenInv => ScreenTypeOK
  BY DEF ScreenInv, GameTypes, PaintTypes, HudTypes, ScreenTypeOK
<1> QED
  BY <1>1, ScreenInvariance, PTL

\* A sector is read off its own prompt only, a poll leaves what was stated last,
\* and there are never more empty holds than holds in a status, whatever the
\* game answers, in whatever chunks, and however much of it is still in the window.
THEOREM SessionUpToDate == ScreenSpec => [](HereOrNothing /\ HudLatest /\ StatusAnswers)
<1>1. ScreenInv => HereOrNothing
  <2> SUFFICES ASSUME ScreenInv, SectorOf(Prompt(Rows)) # 0, ~untouched PROVE SectorOf(Prompt(Rows)) = spot
    BY DEF HereOrNothing
  <2>1. Prompt(Rows).is = "command" /\ SectorOf(Prompt(Rows)) = Prompt(Rows).n
    BY DEF SectorOf
  <2>2. window \in Seq(Paint)
    <3>1. window \in Seq(Past) /\ Past \subseteq Paint
      BY DEF ScreenInv, PaintTypes, Past
    <3> QED
      BY <3>1, SeqOfMore
  <2>3. Rows # <<>>
    <3>1. Plain("blank").is = "blank"
      BY DEF Plain, Line
    <3> QED
      BY <2>1, <2>2, <3>1, PromptLine
  <2>4. PICK k \in DOMAIN window : /\ window[k].is \in Said /\ Prompt(Rows) = window[k]
                                   /\ \A j \in DOMAIN window : j > k => window[j].is \notin Said
    BY <2>2, <2>3, PromptLine
  <2>5. window[k] \in OfHere
    BY <2>4 DEF ScreenInv, ToldInv, LowestIs
  <2> QED
    BY <2>1, <2>4, <2>5 DEF OfHere
<1>2. ScreenInv => HudLatest /\ StatusAnswers
  BY DEF ScreenInv, HudTypes, StatusAnswers
<1> QED
  BY <1>1, <1>2, ScreenInvariance, PTL

\* A list of whatever is in it.
InARow(q) == q \in Seq(Range(q))

\* What is a sequence over some set is a list.
LEMMA RowMade == ASSUME NEW S, NEW q \in Seq(S) PROVE InARow(q)
<1>1. Len(q) \in Nat /\ q = [i \in 1..Len(q) |-> q[i]] /\ DOMAIN q = 1..Len(q)
  OBVIOUS
<1>2. \A i \in 1..Len(q) : q[i] \in Range(q)
  BY <1>1 DEF Range
<1> QED
  BY <1>1, <1>2 DEF InARow

\* A list can be lengthened by anything, and loses its last element.
LEMMA RowGrows ==
  ASSUME NEW q, InARow(q), NEW x
  PROVE  InARow(Append(q, x)) /\ Len(Append(q, x)) = Len(q) + 1 /\ Len(q) \in Nat
<1> DEFINE S == Range(q) \cup {x}
<1>1. q \in Seq(S) /\ x \in S
  <2>1. q \in Seq(Range(q)) /\ Range(q) \subseteq S
    BY DEF InARow
  <2> HIDE DEF S
  <2>2. q \in Seq(S)
    BY <2>1
  <2> QED
    BY <2>2 DEF S
<1> HIDE DEF S
<1>2. Append(q, x) \in Seq(S) /\ Len(Append(q, x)) = Len(q) + 1 /\ Len(q) \in Nat
  BY <1>1
<1> QED
  BY <1>2, RowMade

\* What is given place by place is a list.
LEMMA RowListed ==
  ASSUME NEW n \in Nat, NEW q, q = [i \in 1..n |-> q[i]]
  PROVE  InARow(q) /\ Len(q) = n
<1> DEFINE S == Range(q)
<1>1. \A k \in 1..n : q[k] \in S
  BY DEF Range
<1> HIDE DEF S
<1>2. q \in Seq(S) /\ Len(q) = n
  BY <1>1
<1> QED
  BY <1>2, RowMade

\* A list without its last element.
LEMMA RowShrinks ==
  ASSUME NEW q, InARow(q), q # <<>>
  PROVE  InARow(Front(q)) /\ Len(Front(q)) = Len(q) - 1 /\ Len(q) \in Nat \ {0}
<1>1. q \in Seq(Range(q)) /\ Len(q) \in Nat \ {0}
  BY DEF InARow
<1>2. Front(q) = [k \in 1..(Len(q) - 1) |-> q[k]]
  BY <1>1 DEF Front
<1>3. InARow(Front(q)) /\ Len(Front(q)) = Len(q) - 1
  <2> DEFINE n == Len(q) - 1
  <2>1. n \in Nat /\ Front(q) = [k \in 1..n |-> Front(q)[k]]
    BY <1>1, <1>2
  <2> HIDE DEF n
  <2>2. InARow(Front(q)) /\ Len(Front(q)) = n
    BY <2>1, RowListed
  <2> QED
    BY <2>2 DEF n
<1> QED
  BY <1>1, <1>3

\* An element of a list can be replaced.
LEMMA RowEdited ==
  ASSUME NEW q, InARow(q), NEW i, NEW x
  PROVE  InARow([q EXCEPT ![i] = x]) /\ Len([q EXCEPT ![i] = x]) = Len(q)
<1> DEFINE S == Range(q) \cup {x}
           r == [q EXCEPT ![i] = x]
<1>1. Len(q) \in Nat /\ DOMAIN q = 1..Len(q) /\ q = [k \in 1..Len(q) |-> q[k]]
  BY DEF InARow
<1>2. DOMAIN r = 1..Len(q) /\ r = [k \in 1..Len(q) |-> IF k = i THEN x ELSE q[k]]
  BY <1>1
<1>3. \A k \in 1..Len(q) : r[k] \in S
  BY <1>1, <1>2 DEF Range
<1> HIDE DEF S, r
<1>4. r \in Seq(S) /\ Len(r) = Len(q)
  BY <1>1, <1>2, <1>3
<1> QED
  BY <1>4, RowMade DEF r

\* The empty list has no length, and no other list.
LEMMA RowBounds ==
  ASSUME NEW q, InARow(q)
  PROVE  Len(q) \in Nat /\ (q = <<>> <=> Len(q) = 0)
BY DEF InARow

-------------------------------------------------------------------------------

\* What is searched through: as many hops as there are legs, capped.
LEMMA LegsFinite == day \in DOMAIN Days => \A n \in Nat : Cardinality(RoutedLegs(market, n)) \in Nat
<1> SUFFICES ASSUME day \in DOMAIN Days, NEW n \in Nat PROVE Cardinality(RoutedLegs(market, n)) \in Nat
  OBVIOUS
<1> DEFINE A == FreshPorts(market)
           all == [frm : A, to : A, good : Goods]
           tuples == (A \X A) \X Goods
           F == [p \in tuples |-> [frm |-> p[1][1], to |-> p[1][2], good |-> p[2]]]
<1>1. IsFiniteSet(A)
  <2>1. IsFiniteSet(DOMAIN market.rows)
    BY ChainAssumption DEF market
  <2>2. A \subseteq DOMAIN market.rows
    BY DEF FreshPorts
  <2> QED
    BY <2>1, <2>2, FS_Subset
<1>2. IsFiniteSet(tuples)
  <2>1. IsFiniteSet(Goods)
    BY ChainAssumption
  <2>2. IsFiniteSet(A \X A)
    BY <1>1, FS_Product
  <2> QED
    BY <2>1, <2>2, FS_Product
<1>3. all \subseteq {F[p] : p \in tuples}
  <2> SUFFICES ASSUME NEW l \in all PROVE \E p \in tuples : l = F[p]
    OBVIOUS
  <2>1. <<<<l.frm, l.to>>, l.good>> \in tuples
    OBVIOUS
  <2>2. F[<<<<l.frm, l.to>>, l.good>>] = l
    BY <2>1
  <2> QED
    BY <2>1, <2>2
<1>4. IsFiniteSet(all)
  <2>1. F \in [tuples -> all]
    OBVIOUS
  <2> HIDE DEF tuples, F, all
  <2>2. F \in Surjection(tuples, all)
    BY <1>3, <2>1 DEF Surjection
  <2> QED
    BY <1>2, <2>2, FS_Surjection
<1>5. RoutedLegs(market, n) \subseteq all
  <2>1. Legs(market) \subseteq all
    BY DEF Legs
  <2> QED
    BY <2>1 DEF RoutedLegs
<1> QED
  BY <1>4, <1>5, FS_Subset, FS_CardinalityType

\* The next hops of a visit are no more than the cap.
LEMMA HopsCapped ==
  ASSUME day \in DOMAIN Days, NEW c \in Caps
  PROVE  Len(Upto(c.hops, Capped(market, c))) \in Nat /\ Len(Upto(c.hops, Capped(market, c))) <= c.hops
<1> DEFINE q == Capped(market, c)
           n == Cardinality(RoutedLegs(market, c.searches))
<1>1. c.hops \in Nat /\ c.searches \in Nat
  BY ChainAssumption
<1>2. n \in Nat
  BY <1>1, LegsFinite
<1>3. DOMAIN q = 1..n
  BY DEF Capped, HopsOf
<1>4. Len(q) = n
  <2>1. q = [i \in 1..n |-> q[i]]
    BY DEF Capped, HopsOf
  <2> HIDE DEF q, n
  <2> QED
    BY <1>2, <2>1, RowListed
<1> DEFINE m == IF c.hops < Len(q) THEN c.hops ELSE Len(q)
<1>5. m \in Nat /\ m <= c.hops
  BY <1>1, <1>2, <1>4
<1>6. Upto(c.hops, q) = [i \in 1..m |-> q[i]]
  BY <1>5 DEF Upto
<1> HIDE DEF q, m
<1>7. Len(Upto(c.hops, q)) = m
  BY <1>5, <1>6
<1> QED
  BY <1>5, <1>7 DEF q

-------------------------------------------------------------------------------

\* The search's stack and its path grow and shrink together; the caps hold
\* through every step; and what is started is what was approved.
ChainTypes ==
  /\ day \in DOMAIN Days /\ caps \in Caps /\ purpose \in {"none", "list", "start"}
  /\ adapterNote \in BOOLEAN /\ searchNote \in BOOLEAN /\ steps \in Nat
Stacked == InARow(frames) /\ InARow(path) /\ Len(path) = (IF frames = <<>> THEN 0 ELSE Len(frames) - 1)
WithinCaps == Len(tradeHops) <= caps.hops /\ steps <= caps.steps + 1 /\ (~searchNote => steps <= caps.steps)
Unarmed == purpose # "none" => armedChain = NoTrade
SearchInv == ChainTypes /\ Stacked /\ WithinCaps /\ Unarmed /\ StartedAsApproved

\* The caps of a search are numbers.
LEMMA CapFields == ASSUME NEW c \in Caps PROVE c.hops \in Nat /\ c.steps \in Nat
BY ChainAssumption

\* At the start nothing is searched for and nothing is armed.
LEMMA ChainStarts == ChainInit => SearchInv
<1> SUFFICES ASSUME ChainInit PROVE SearchInv
  OBVIOUS
<1> USE DEF ChainInit
<1>1. InARow(<<>>) /\ Len(<<>>) = 0
  BY RowMade DEF InARow
<1>2. Stacked
  BY <1>1 DEF Stacked
<1>3. WithinCaps
  BY CapFields DEF WithinCaps
<1> QED
  BY <1>2, <1>3 DEF SearchInv, ChainTypes, Unarmed, StartedAsApproved

\* A search begins with nothing on its path, and arms nothing.
LEMMA SearchBegun == ASSUME SearchInv, NEW why \in {"list", "start"}, BeginsSearch(why) PROVE SearchInv'
<1> USE DEF BeginsSearch
<1>1. day \in DOMAIN Days /\ caps \in Caps /\ caps' \in Caps
  BY DEF SearchInv, ChainTypes
<1>2. Len(tradeHops') <= caps'.hops
  BY <1>1, HopsCapped
<1>3. InARow(<<>>) /\ Len(<<>>) = 0
  BY RowMade DEF InARow
<1>4. Stacked'
  BY <1>3 DEF Stacked
<1>5. WithinCaps'
  BY <1>1, <1>2, CapFields DEF WithinCaps
<1>6. ChainTypes'
  <2>1. adapterNote' \in BOOLEAN
    BY DEF CutShort
  <2> QED
    BY <1>1, <2>1 DEF SearchInv, ChainTypes
<1> QED
  BY <1>4, <1>5, <1>6 DEF SearchInv, Unarmed, StartedAsApproved

\* From a port the path holds that port alone.
LEMMA FromStart == SearchInv /\ StartsFrom => SearchInv'
<1> SUFFICES ASSUME SearchInv, StartsFrom PROVE SearchInv'
  OBVIOUS
<1> USE DEF StartsFrom
<1>1. InARow(frames') /\ Len(frames') = 1 /\ frames' # <<>>
  <2>1. frames' \in Seq({[node |-> Head(starts), next |-> 1]}) /\ Len(frames') = 1 /\ frames' # <<>>
    OBVIOUS
  <2> QED
    BY <2>1, RowMade
<1>2. Stacked'
  BY <1>1 DEF Stacked, SearchInv
<1> QED
  BY <1>2 DEF SearchInv, ChainTypes, WithinCaps, Unarmed, StartedAsApproved

\* A visit goes one hop on, closes a ring, or goes back: stack and path stay of
\* one length, and one visit is counted.
LEMMA FrameVisited == SearchInv /\ VisitsFrame => SearchInv'
<1> SUFFICES ASSUME SearchInv, VisitsFrame PROVE SearchInv'
  OBVIOUS
<1>1. UNCHANGED <<day, caps, purpose, tradeHops, adapterNote, approved, armedChain>>
      /\ steps' = steps + 1 /\ ~searchNote /\ frames # <<>> /\ purpose # "none"
  BY DEF VisitsFrame, Searching
<1>2. caps \in Caps /\ caps.steps \in Nat /\ steps \in Nat /\ steps <= caps.steps
  BY <1>1, CapFields DEF SearchInv, ChainTypes, WithinCaps
<1>3. InARow(frames) /\ InARow(path) /\ Len(path) = Len(frames) - 1
  BY <1>1 DEF SearchInv, Stacked
<1>4. CASE steps + 1 > caps.steps
  <2>1. searchNote' = TRUE /\ UNCHANGED <<frames, path>>
    BY <1>4 DEF VisitsFrame
  <2>2. Stacked'
    BY <2>1 DEF SearchInv, Stacked
  <2>3. WithinCaps' /\ ChainTypes'
    BY <1>1, <1>2, <2>1 DEF SearchInv, ChainTypes, WithinCaps
  <2> QED
    BY <1>1, <2>2, <2>3 DEF SearchInv, Unarmed, StartedAsApproved
<1>5. CASE ~(steps + 1 > caps.steps)
  <2> DEFINE top == Last(frames)
             hops == FrameHops(top.node)
             on == {i \in top.next..Len(hops) : LeadsOn(hops[i])}
             next == IF on = {} THEN Len(hops) + 1 ELSE CHOOSE i \in on : \A j \in on : i <= j
             moved == [frames EXCEPT ![Len(frames)].next = next + 1]
  <2>1. /\ searchNote' = searchNote
        /\ \/ frames' = Append(moved, [node |-> hops[next].to, next |-> 1]) /\ path' = Append(path, hops[next])
           \/ frames' = Front(frames) /\ path' = (IF path = <<>> THEN <<>> ELSE Front(path))
    BY <1>5 DEF VisitsFrame
  <2>2. InARow(moved) /\ Len(moved) = Len(frames)
    BY <1>3, RowEdited
  <2> HIDE DEF moved, next, hops
  <2>3. Stacked'
    <3>1. CASE frames' = Append(moved, [node |-> hops[next].to, next |-> 1]) /\ path' = Append(path, hops[next])
      <4>1. /\ InARow(frames') /\ Len(frames') = Len(frames) + 1 /\ Len(frames) \in Nat
            /\ InARow(path') /\ Len(path') = Len(path) + 1 /\ Len(path) \in Nat
        BY <1>3, <2>2, <3>1, RowGrows
      <4>2. frames' # <<>>
        BY <4>1, RowBounds
      <4> QED
        BY <1>3, <4>1, <4>2 DEF Stacked
    <3>2. CASE frames' = Front(frames) /\ path' = (IF path = <<>> THEN <<>> ELSE Front(path))
      <4>1. InARow(frames') /\ Len(frames') = Len(frames) - 1 /\ Len(frames) \in Nat \ {0}
        BY <1>1, <1>3, <3>2, RowShrinks
      <4>2. CASE path = <<>>
        <5>1. Len(path) = 0 /\ InARow(path')
          BY <1>3, <3>2, <4>2, RowBounds
        <5>2. Len(frames') = 0 /\ Len(path') = 0
          BY <1>3, <3>2, <4>1, <4>2, <5>1
        <5>3. frames' = <<>>
          BY <4>1, <5>2, RowBounds
        <5> QED
          BY <4>1, <5>1, <5>2, <5>3 DEF Stacked
      <4>3. CASE path # <<>>
        <5>1. InARow(path') /\ Len(path') = Len(path) - 1 /\ Len(path) \in Nat \ {0}
          BY <1>3, <3>2, <4>3, RowShrinks
        <5>2. frames' # <<>>
          BY <1>3, <4>1, <5>1, RowBounds
        <5> QED
          BY <1>3, <4>1, <5>1, <5>2 DEF Stacked
      <4> QED
        BY <4>2, <4>3
    <3> QED
      BY <2>1, <3>1, <3>2
  <2>4. WithinCaps'
    BY <1>1, <1>2, <1>5, <2>1 DEF SearchInv, WithinCaps
  <2>5. ChainTypes'
    BY <1>1, <1>2, <2>1 DEF SearchInv, ChainTypes
  <2> QED
    BY <1>1, <2>3, <2>4, <2>5 DEF SearchInv, Unarmed, StartedAsApproved
<1> QED
  BY <1>4, <1>5

\* What is armed is what was approved, or nothing.
LEMMA ChainApproved == SearchInv /\ Approves => SearchInv'
<1> SUFFICES ASSUME SearchInv, Approves PROVE SearchInv'
  OBVIOUS
<1>1. purpose = "list" /\ purpose' = "none" /\ UNCHANGED <<day, caps, searchVars, armedChain>>
  BY DEF Approves
<1>2. armedChain = NoTrade
  BY <1>1 DEF SearchInv, Unarmed
<1>3. ChainTypes' /\ Stacked' /\ WithinCaps'
  BY <1>1 DEF SearchInv, ChainTypes, Stacked, WithinCaps, searchVars
<1> QED
  BY <1>1, <1>2, <1>3 DEF SearchInv, Unarmed, StartedAsApproved

\* The daemon starts the chain only if exactly one of those it found is the
\* one that was approved, whatever the world is like by then.
LEMMA ChainStarted == SearchInv /\ StartsChain => SearchInv'
<1> SUFFICES ASSUME SearchInv, StartsChain PROVE SearchInv'
  OBVIOUS
<1> DEFINE same == {i \in DOMAIN found : SamePlan(found[i])}
<1>1. /\ purpose' = "none" /\ UNCHANGED <<day, caps, searchVars>>
      /\ approved' = (IF armedChain' = NoTrade THEN NoTrade ELSE approved)
      /\ \/ armedChain' = NoTrade
         \/ Cardinality(same) = 1 /\ armedChain' = found[CHOOSE i \in same : TRUE]
  BY DEF StartsChain
<1>2. ChainTypes' /\ Stacked' /\ WithinCaps'
  BY <1>1 DEF SearchInv, ChainTypes, Stacked, WithinCaps, searchVars
<1>3. armedChain' # NoTrade => armedChain' = approved'
  <2> SUFFICES ASSUME armedChain' # NoTrade PROVE armedChain' = approved
    BY <1>1
  <2>1. Cardinality(same) = 1 /\ armedChain' = found[CHOOSE i \in same : TRUE]
    BY <1>1
  <2>2. same # {}
    BY <2>1, FS_EmptySet
  <2>3. (CHOOSE i \in same : TRUE) \in same
    BY <2>2
  <2> QED
    BY <2>1, <2>3 DEF SamePlan
<1> QED
  BY <1>1, <1>2, <1>3 DEF SearchInv, Unarmed, StartedAsApproved

\* Another day changes what a search finds, not what was approved.
LEMMA ReportsChanged == SearchInv /\ ReportsChange => SearchInv'
<1> SUFFICES ASSUME SearchInv, ReportsChange PROVE SearchInv'
  OBVIOUS
<1>1. day' \in DOMAIN Days /\ UNCHANGED <<caps, purpose, searchVars, approved, armedChain>>
  BY DEF ReportsChange
<1> QED
  BY <1>1 DEF SearchInv, ChainTypes, Stacked, WithinCaps, Unarmed, StartedAsApproved, searchVars

\* Every step of a search keeps the invariant.
LEMMA ChainKept == SearchInv /\ [ChainNext]_chainVars => SearchInv'
<1> SUFFICES ASSUME SearchInv, [ChainNext]_chainVars PROVE SearchInv'
  OBVIOUS
<1>1. CASE UNCHANGED chainVars
  BY <1>1 DEF chainVars, searchVars, SearchInv, ChainTypes, Stacked, WithinCaps, Unarmed, StartedAsApproved
<1>2. CASE ChainNext
  BY <1>2, SearchBegun, FromStart, FrameVisited, ChainApproved, ChainStarted, ReportsChanged DEF ChainNext
<1> QED
  BY <1>1, <1>2

\* The stack of a search mirrors its path within the caps, and nothing is armed
\* while it searches.
THEOREM ChainInvariance == ChainSpec => []SearchInv
  BY ChainStarts, ChainKept, PTL DEF ChainSpec

\* Type correctness of the chain search (ChainTypeOK).
THEOREM ChainIsTyped == ChainSpec => []ChainTypeOK
<1>1. SearchInv => ChainTypeOK
  BY DEF SearchInv, ChainTypes, Stacked, WithinCaps, ChainTypeOK
<1> QED
  BY <1>1, ChainInvariance, PTL

\* What is started is the chain that was approved, however the reports changed
\* and however deep the second search went.
THEOREM StartsTheApproved == ChainSpec => []StartedAsApproved
<1>1. SearchInv => StartedAsApproved
  BY DEF SearchInv
<1> QED
  BY <1>1, ChainInvariance, PTL

\* R orders the elements of S one after the other; WithThoseBefore is an element with
\* those before it.
OrdersAll(R, S) ==
  /\ \A i, j, k \in S : <<i, j>> \in R /\ <<j, k>> \in R => <<i, k>> \in R
  /\ \A i, j \in S : i # j => (<<i, j>> \in R <=> <<j, i>> \notin R)
WithThoseBefore(R, S, i) == {j \in S : j = i \/ <<j, i>> \in R}

\* In an order of a finite set every place is taken, by one element.
LEMMA RankedPlaces ==
  ASSUME NEW R, NEW S, IsFiniteSet(S), OrdersAll(R, S)
  PROVE  /\ Cardinality(S) \in Nat
         /\ \A n \in 1..Cardinality(S) : \E i \in S : Cardinality(WithThoseBefore(R, S, i)) = n
         /\ \A i \in S : Cardinality(WithThoseBefore(R, S, i)) \in 1..Cardinality(S)
         /\ \A i, k \in S : i # k /\ <<i, k>> \in R => Cardinality(WithThoseBefore(R, S, i)) < Cardinality(WithThoseBefore(R, S, k))
<1> USE DEF OrdersAll, WithThoseBefore
<1> DEFINE c == Cardinality(S)
           upto(i) == {j \in S : j = i \/ <<j, i>> \in R}
           f == [i \in S |-> Cardinality(upto(i))]
<1>1. c \in Nat
  BY FS_CardinalityType
<1>2. \A i \in S : IsFiniteSet(upto(i)) /\ Cardinality(upto(i)) \in 1..c
  <2> TAKE i \in S
  <2>1. IsFiniteSet(upto(i)) /\ Cardinality(upto(i)) <= c
    BY FS_Subset
  <2>2. Cardinality(upto(i)) \in Nat
    BY <2>1, FS_CardinalityType
  <2>3. i \in upto(i)
    OBVIOUS
  <2>4. Cardinality(upto(i)) # 0
    BY <2>1, <2>3, FS_EmptySet
  <2> HIDE DEF c, upto
  <2> QED
    BY <1>1, <2>1, <2>2, <2>4
<1>3. ASSUME NEW i \in S, NEW k \in S, i # k, <<i, k>> \in R PROVE Cardinality(upto(i)) < Cardinality(upto(k))
  <2>1. upto(i) \subseteq upto(k)
    BY <1>3
  <2>2. k \in upto(k) /\ k \notin upto(i)
    BY <1>3
  <2>3. IsFiniteSet(upto(k)) /\ Cardinality(upto(k)) \in 1..c /\ Cardinality(upto(i)) \in 1..c
    BY <1>2
  <2> HIDE DEF upto, c
  <2>4. Cardinality(upto(i)) <= Cardinality(upto(k)) /\ Cardinality(upto(i)) # Cardinality(upto(k))
    BY <2>1, <2>2, <2>3, FS_Subset
  <2> QED
    BY <1>1, <2>3, <2>4
<1>4. f \in Injection(S, 1..c)
  <2>1. f \in [S -> 1..c]
    BY <1>2
  <2>2. ASSUME NEW i \in S, NEW k \in S, i # k PROVE f[i] # f[k]
    <3>1. <<i, k>> \in R \/ <<k, i>> \in R
      BY <2>2
    <3>2. Cardinality(upto(i)) < Cardinality(upto(k)) \/ Cardinality(upto(k)) < Cardinality(upto(i))
      BY <1>3, <2>2, <3>1
    <3>3. Cardinality(upto(i)) \in Int /\ Cardinality(upto(k)) \in Int
      BY <1>2
    <3> HIDE DEF upto
    <3> QED
      BY <3>2, <3>3
  <2> HIDE DEF f
  <2> QED
    BY <2>1, <2>2 DEF Injection, IsInjective
<1>5. f \in Surjection(S, 1..c)
  <2>1. IsFiniteSet(1..c) /\ Cardinality(1..c) = c
    BY <1>1, FS_Interval
  <2> HIDE DEF f
  <2> QED
    BY <1>4, <2>1, FS_Injection
<1>6. \A n \in 1..c : \E i \in S : Cardinality(upto(i)) = n
  <2> TAKE n \in 1..c
  <2>1. PICK i \in S : f[i] = n
    BY <1>5 DEF Surjection
  <2> QED
    BY <2>1
<1>7. \A i, k \in S : i # k /\ <<i, k>> \in R => Cardinality(upto(i)) < Cardinality(upto(k))
  BY <1>3
<1>8. \A i \in S : Cardinality(upto(i)) \in 1..c
  BY <1>2
<1> QED
  BY <1>1, <1>6, <1>7, <1>8, Zenon

\* Picked keeps what is at the places, all of it, once and in its order.
PicksAll(q, S) ==
  /\ InARow(Picked(q, S)) /\ Len(Picked(q, S)) = Cardinality(S) /\ Cardinality(S) \in Nat
  /\ DOMAIN Picked(q, S) = 1..Cardinality(S)
  /\ \E p \in [1..Cardinality(S) -> S] :
       /\ \A n \in 1..Cardinality(S) : Picked(q, S)[n] = q[p[n]]
       /\ \A n, m \in 1..Cardinality(S) : n < m => p[n] < p[m]
       /\ \A i \in S : \E n \in 1..Cardinality(S) : p[n] = i

\* Picked goes through the places in their order and misses none.
LEMMA PickedPlaces == ASSUME NEW q, NEW S, S \subseteq Nat, IsFiniteSet(S) PROVE PicksAll(q, S)
<1> DEFINE c == Cardinality(S)
           upto(i) == {j \in S : j <= i}
           R == {r \in S \X S : r[1] < r[2]}
           p == [n \in 1..c |-> CHOOSE i \in S : Cardinality(upto(i)) = n]
<1>1. \A i \in S : WithThoseBefore(R, S, i) = upto(i)
  <2> TAKE i \in S
  <2>1. \A j \in S : (j = i \/ <<j, i>> \in R) <=> j <= i
    OBVIOUS
  <2> QED
    BY <2>1, Zenon DEF WithThoseBefore
<1>2. OrdersAll(R, S) /\ \A i, j \in S : <<i, j>> \in R <=> i < j
  BY DEF OrdersAll
<1> HIDE DEF R
<1>3. /\ c \in Nat
      /\ \A n \in 1..c : \E i \in S : Cardinality(WithThoseBefore(R, S, i)) = n
      /\ \A i \in S : Cardinality(WithThoseBefore(R, S, i)) \in 1..c
      /\ \A i, k \in S : i # k /\ <<i, k>> \in R => Cardinality(WithThoseBefore(R, S, i)) < Cardinality(WithThoseBefore(R, S, k))
  BY <1>2, RankedPlaces
<1>4. /\ \A n \in 1..c : \E i \in S : Cardinality(upto(i)) = n
      /\ \A i \in S : Cardinality(upto(i)) \in 1..c
  <2>1. ASSUME NEW n \in 1..c PROVE \E i \in S : Cardinality(upto(i)) = n
    <3>1. PICK i \in S : Cardinality(WithThoseBefore(R, S, i)) = n
      BY <1>3
    <3>2. Cardinality(upto(i)) = n
      BY <1>1, <3>1
    <3> QED
      BY <3>2
  <2>2. ASSUME NEW i \in S PROVE Cardinality(upto(i)) \in 1..c
    BY <1>1, <1>3
  <2> QED
    BY <2>1, <2>2
<1>5. ASSUME NEW i \in S, NEW k \in S, i < k PROVE Cardinality(upto(i)) < Cardinality(upto(k))
  <2>1. i # k /\ <<i, k>> \in R
    BY <1>2, <1>5
  <2>2. Cardinality(WithThoseBefore(R, S, i)) < Cardinality(WithThoseBefore(R, S, k))
    BY <1>3, <2>1
  <2>3. upto(i) = WithThoseBefore(R, S, i) /\ upto(k) = WithThoseBefore(R, S, k)
    BY <1>1
  <2> HIDE DEF upto
  <2> QED
    BY <2>2, <2>3
<1>6. \A n \in 1..c : p[n] \in S /\ Cardinality(upto(p[n])) = n
  <2> HIDE DEF upto
  <2> QED
    BY <1>4
<1>7. Picked(q, S) = [n \in 1..c |-> q[p[n]]]
  BY DEF Picked
<1> HIDE DEF p, c
<1>8. p \in [1..c -> S]
  <2>1. p = [n \in 1..c |-> CHOOSE i \in S : Cardinality(upto(i)) = n]
    BY DEF p
  <2> QED
    BY <1>6, <2>1
<1>9. \A n \in 1..c : Picked(q, S)[n] = q[p[n]]
  BY <1>7
<1>10. ASSUME NEW n \in 1..c, NEW m \in 1..c, n < m PROVE p[n] < p[m]
  <2>1. p[n] \in S /\ p[m] \in S /\ Cardinality(upto(p[n])) = n /\ Cardinality(upto(p[m])) = m
    BY <1>6
  <2>2. p[n] \in Nat /\ p[m] \in Nat
    BY <2>1
  <2>3. p[m] < p[n] => m < n
    BY <1>5, <2>1
  <2>4. p[m] = p[n] => m = n
    BY <2>1
  <2> HIDE DEF upto
  <2> QED
    BY <1>3, <1>10, <2>2, <2>3, <2>4
<1>11. ASSUME NEW i \in S PROVE \E n \in 1..c : p[n] = i
  <2> DEFINE n == Cardinality(upto(i))
  <2>1. n \in 1..c
    BY <1>4
  <2>2. p[n] \in S /\ Cardinality(upto(p[n])) = n
    BY <1>6, <2>1
  <2>3. p[n] \in Nat /\ i \in Nat
    BY <2>2
  <2>4. ~(p[n] < i)
    <3>1. p[n] < i => Cardinality(upto(p[n])) < Cardinality(upto(i))
      BY <1>5, <2>2
    <3>2. Cardinality(upto(p[n])) = Cardinality(upto(i)) /\ Cardinality(upto(i)) \in Int
      BY <2>1, <2>2
    <3> HIDE DEF n, upto
    <3> QED
      BY <3>1, <3>2
  <2>5. ~(i < p[n])
    <3>1. i < p[n] => Cardinality(upto(i)) < Cardinality(upto(p[n]))
      BY <1>5, <2>2
    <3>2. Cardinality(upto(p[n])) = Cardinality(upto(i)) /\ Cardinality(upto(i)) \in Int
      BY <2>1, <2>2
    <3> HIDE DEF n, upto
    <3> QED
      BY <3>1, <3>2
  <2> HIDE DEF n
  <2>6. p[n] = i
    BY <2>3, <2>4, <2>5
  <2> QED
    BY <2>1, <2>6
<1>12. InARow(Picked(q, S)) /\ Len(Picked(q, S)) = c
  <2>1. Picked(q, S) = [n \in 1..c |-> Picked(q, S)[n]]
    BY <1>7
  <2> QED
    BY <1>3, <2>1, RowListed
<1>13. DOMAIN Picked(q, S) = 1..c
  BY <1>7
<1> QED
  BY <1>3, <1>8, <1>9, <1>10, <1>11, <1>12, <1>13 DEF c, PicksAll

\* The elements Picked keeps, and where two of them came from.
PicksOnly(q, S) ==
  /\ InARow(Picked(q, S)) /\ Len(Picked(q, S)) = Cardinality(S) /\ Range(Picked(q, S)) = {q[i] : i \in S}
  /\ \A n, m \in DOMAIN Picked(q, S) : n < m =>
       \E i, j \in S : i < j /\ Picked(q, S)[n] = q[i] /\ Picked(q, S)[m] = q[j]

\* Picked has the elements at the places and no others, in their order.
LEMMA PickedElements == ASSUME NEW q, NEW S, S \subseteq Nat, IsFiniteSet(S) PROVE PicksOnly(q, S)
<1>1. PicksAll(q, S)
  BY PickedPlaces
<1> DEFINE c == 1..Cardinality(S)
<1> HIDE DEF c
<1>2. PICK p \in [c -> S] :
        /\ \A n \in c : Picked(q, S)[n] = q[p[n]]
        /\ \A n, m \in c : n < m => p[n] < p[m]
        /\ \A i \in S : \E n \in c : p[n] = i
  BY <1>1, Zenon DEF c, PicksAll
<1>3. DOMAIN Picked(q, S) = c
  BY <1>1, Zenon DEF c, PicksAll
<1>4. ASSUME NEW x \in Range(Picked(q, S)) PROVE x \in {q[i] : i \in S}
  <2>1. PICK n \in DOMAIN Picked(q, S) : Picked(q, S)[n] = x
    BY DEF Range
  <2>2. n \in c /\ p[n] \in S /\ x = q[p[n]]
    BY <1>2, <1>3, <2>1
  <2> QED
    BY <2>2
<1>5. \A i \in S : q[i] \in Range(Picked(q, S))
  BY <1>2, <1>3 DEF Range
<1>6. ASSUME NEW n \in c, NEW m \in c, n < m
      PROVE  \E i, j \in S : i < j /\ Picked(q, S)[n] = q[i] /\ Picked(q, S)[m] = q[j]
  <2>1. p[n] \in S /\ p[m] \in S /\ p[n] < p[m]
    BY <1>2, <1>6
  <2>2. Picked(q, S)[n] = q[p[n]] /\ Picked(q, S)[m] = q[p[m]]
    BY <1>2
  <2> QED
    BY <2>1, <2>2
<1>7. InARow(Picked(q, S)) /\ Len(Picked(q, S)) = Cardinality(S)
  BY <1>1, Zenon DEF PicksAll
<1> QED
  BY <1>3, <1>4, <1>5, <1>6, <1>7 DEF PicksOnly

\* The kinds of good on file.
KindSet == {"ships", "hold", "scanner", "transwarp", "item"}
\* The five kinds of rows.
LEMMA KindsAre == ToSet(Kinds) = KindSet
<1>1. DOMAIN Kinds = 1..5 /\ Kinds[1] = "ships" /\ Kinds[2] = "hold" /\ Kinds[3] = "scanner" /\ Kinds[4] = "transwarp"
      /\ Kinds[5] = "item"
  BY DEF Kinds
<1>2. \A i \in DOMAIN Kinds : i = 1 \/ i = 2 \/ i = 3 \/ i = 4 \/ i = 5
  BY <1>1
<1>3. 1 \in DOMAIN Kinds /\ 2 \in DOMAIN Kinds /\ 3 \in DOMAIN Kinds /\ 4 \in DOMAIN Kinds /\ 5 \in DOMAIN Kinds
  BY <1>1
<1>4. ToSet(Kinds) \subseteq KindSet
  BY <1>1, <1>2 DEF ToSet, KindSet
<1>5. \A k \in KindSet : \E i \in DOMAIN Kinds : Kinds[i] = k
  BY <1>1, <1>3 DEF KindSet
<1> QED
  BY <1>4, <1>5 DEF ToSet

\* The elements of a list and of one set after another.
LEMMA RowsJoined ==
  ASSUME NEW q, NEW r, InARow(q), InARow(r)
  PROVE  InARow(q \o r) /\ Range(q \o r) = Range(q) \cup Range(r) /\ Len(q \o r) = Len(q) + Len(r)
<1> DEFINE S == Range(q) \cup Range(r)
<1>1. q \in Seq(S) /\ r \in Seq(S)
  <2>1. q \in Seq(Range(q)) /\ Range(q) \subseteq S /\ r \in Seq(Range(r)) /\ Range(r) \subseteq S
    BY DEF InARow
  <2> HIDE DEF S
  <2> QED
    BY <2>1, SeqOfMore
<1>2. /\ q \o r \in Seq(S) /\ Len(q \o r) = Len(q) + Len(r) /\ Len(q) \in Nat /\ Len(r) \in Nat
      /\ \A i \in 1..Len(q) : (q \o r)[i] = q[i]
      /\ \A i \in 1..Len(r) : (q \o r)[Len(q) + i] = r[i]
      /\ DOMAIN q = 1..Len(q) /\ DOMAIN r = 1..Len(r) /\ DOMAIN (q \o r) = 1..(Len(q) + Len(r))
  <2> HIDE DEF S
  <2> QED
    BY <1>1
<1>3. \A x \in Range(q) : x \in Range(q \o r)
  BY <1>2 DEF Range
<1>4. \A x \in Range(r) : x \in Range(q \o r)
  <2> SUFFICES ASSUME NEW i \in DOMAIN r PROVE r[i] \in Range(q \o r)
    BY DEF Range
  <2>1. Len(q) + i \in DOMAIN (q \o r) /\ (q \o r)[Len(q) + i] = r[i]
    BY <1>2
  <2> QED
    BY <2>1 DEF Range
<1>5. \A x \in Range(q \o r) : x \in S
  <2> SUFFICES ASSUME NEW i \in DOMAIN (q \o r) PROVE (q \o r)[i] \in S
    BY DEF Range
  <2> HIDE DEF S
  <2> QED
    BY <1>2
<1>6. InARow(q \o r)
  BY <1>2, RowMade
<1> QED
  BY <1>2, <1>3, <1>4, <1>5, <1>6

\* The lines of a screen are a list, and its numbers are numbers.
LEMMA ScreenLines ==
  ASSUME NEW s \in DOMAIN YardScreens
  PROVE  /\ YardScreens[s] \in ToSet(YardScreens) /\ InARow(YardScreens[s]) /\ s \in 1..Len(YardScreens) /\ Len(YardScreens) \in Nat
         /\ \A l \in Range(YardScreens[s]) : l.cost \in Int /\ l.holds \in Nat /\ l.warp \in Nat \ {0} /\ l.req \in Int
<1>1. YardScreens \in Seq(ToSet(YardScreens))
  BY OutfitAssumption
<1>2. YardScreens[s] \in ToSet(YardScreens)
  BY DEF ToSet
<1>3. YardScreens[s] \in Seq(ToSet(YardScreens[s])) /\ ToSet(YardScreens[s]) = Range(YardScreens[s])
  BY <1>2, OutfitAssumption DEF ToSet, Range
<1>4. \A l \in ToSet(YardScreens[s]) : l.cost \in Int /\ l.holds \in Nat /\ l.warp \in Nat \ {0} /\ l.req \in Int
  BY <1>2, OutfitAssumption
<1>5. s \in 1..Len(YardScreens) /\ Len(YardScreens) \in Nat
  BY <1>1
<1> QED
  BY <1>2, <1>3, <1>4, <1>5 DEF InARow

\* A row of a finished listing.
VouchedPlaces(q, k) ==
  {i \in DOMAIN q : q[i].is = "row" /\ q[i].kind = k /\ \E j \in Marks(q, "foot", k) : i < j}
Vouched(q, k) == {q[i] : i \in VouchedPlaces(q, k)}

\* Between header and footer stand lines of the screen, each above a footer.
LEMMA BracketedLines ==
  ASSUME NEW q, InARow(q), NEW k
  PROVE  /\ InARow(Bracketed(q, k))
         /\ \A n \in DOMAIN Bracketed(q, k) : \E i \in DOMAIN q : /\ Bracketed(q, k)[n] = q[i]
                                                                  /\ \E j \in Marks(q, "foot", k) : i < j
<1> DEFINE heads == Marks(q, "head", k)
           head == CHOOSE i \in heads : \A j \in heads : j <= i
           feet == {i \in Marks(q, "foot", k) : i > head}
           foot == CHOOSE i \in feet : \A j \in feet : i <= j
<1>1. DOMAIN q = 1..Len(q) /\ Len(q) \in Nat /\ q = [i \in 1..Len(q) |-> q[i]]
  BY DEF InARow
<1>2. Bracketed(q, k) = IF heads = {} \/ feet = {} THEN <<>> ELSE SubSeq(q, head + 1, foot - 1)
  BY DEF Bracketed
<1>3. CASE heads = {} \/ feet = {}
  <2>1. Bracketed(q, k) = <<>>
    BY <1>2, <1>3
  <2>2. <<>> \in Seq({}) /\ DOMAIN <<>> = {}
    OBVIOUS
  <2> QED
    BY <2>1, <2>2, RowMade
<1>4. CASE heads # {} /\ feet # {}
  <2>1. heads \subseteq 1..Len(q) /\ feet \subseteq 1..Len(q) /\ feet \subseteq Marks(q, "foot", k)
    BY <1>1 DEF Marks
  <2>2. head \in heads
    <3> HIDE DEF heads
    <3> QED
      BY <1>1, <1>4, <2>1, LastPlace
  <2>3. foot \in feet
    <3>1. feet \subseteq Nat
      BY <1>1, <2>1
    <3> HIDE DEF feet
    <3> QED
      BY <1>4, <3>1, FirstPlace
  <2>4. head < foot
    BY <2>3
  <2> DEFINE n == foot - 1 - head
  <2> HIDE DEF heads, head, feet, foot
  <2>5. head \in 1..Len(q) /\ foot \in 1..Len(q)
    BY <2>1, <2>2, <2>3
  <2>6. n \in Nat /\ \A i \in 1..n : head + i \in 1..Len(q) /\ head + i < foot
    BY <1>1, <2>4, <2>5
  <2>7. Bracketed(q, k) = [i \in 1..n |-> q[head + i]]
    <3>1. Bracketed(q, k) = SubSeq(q, head + 1, foot - 1)
      BY <1>2, <1>4
    <3>2. SubSeq(q, head + 1, foot - 1) = [i \in 1..((foot - 1) - (head + 1) + 1) |-> q[i + (head + 1) - 1]]
      BY <1>1, <2>5, <2>6
    <3>3. (foot - 1) - (head + 1) + 1 = n /\ \A i \in 1..n : i + (head + 1) - 1 = head + i
      BY <1>1, <2>5
    <3> HIDE DEF n
    <3> QED
      BY <3>1, <3>2, <3>3
  <2> HIDE DEF n
  <2>8. InARow(Bracketed(q, k))
    <3>1. Bracketed(q, k) = [i \in 1..n |-> Bracketed(q, k)[i]]
      BY <2>7
    <3> QED
      BY <2>6, <3>1, RowListed
  <2>9. ASSUME NEW i \in DOMAIN Bracketed(q, k)
        PROVE  \E m \in DOMAIN q : Bracketed(q, k)[i] = q[m] /\ \E j \in Marks(q, "foot", k) : m < j
    <3>1. i \in 1..n /\ Bracketed(q, k)[i] = q[head + i]
      BY <2>7
    <3>2. head + i \in DOMAIN q /\ head + i < foot /\ foot \in Marks(q, "foot", k)
      BY <1>1, <2>1, <2>3, <2>6, <3>1
    <3> QED
      BY <3>1, <3>2
  <2> QED
    BY <2>8, <2>9
<1> QED
  BY <1>3, <1>4

\* What a listing is read as: rows of that listing, finished.
LEMMA ParsedRows ==
  ASSUME NEW q, InARow(q), NEW k
  PROVE  /\ InARow(Parsed(q, k)) /\ Range(Parsed(q, k)) \subseteq Vouched(q, k)
         /\ k = "hold" => \A r, t \in Range(Parsed(q, k)) : r = t
<1> DEFINE lines == Bracketed(q, k)
           rows == {i \in DOMAIN lines : lines[i].is = "row" /\ lines[i].kind = k}
           S == IF k = "hold" THEN {i \in rows : \A j \in rows : j <= i} ELSE rows
<1>1. Parsed(q, k) = Picked(lines, S)
  BY DEF Parsed
<1>2. InARow(lines) /\ \A n \in DOMAIN lines : \E i \in DOMAIN q : lines[n] = q[i] /\ \E j \in Marks(q, "foot", k) : i < j
  BY BracketedLines
<1>3. S \subseteq rows /\ rows \subseteq DOMAIN lines /\ (k = "hold" => \A i, j \in S : j <= i)
  OBVIOUS
<1>4. \A i \in rows : lines[i] \in Vouched(q, k)
  <2> TAKE i \in rows
  <2>1. lines[i].is = "row" /\ lines[i].kind = k /\ i \in DOMAIN lines
    OBVIOUS
  <2> HIDE DEF lines, rows
  <2>2. PICK m \in DOMAIN q : lines[i] = q[m] /\ \E j \in Marks(q, "foot", k) : m < j
    BY <1>2, <2>1
  <2>3. m \in VouchedPlaces(q, k)
    BY <2>1, <2>2 DEF VouchedPlaces
  <2> QED
    BY <2>2, <2>3 DEF Vouched
<1>5. S \subseteq Nat /\ IsFiniteSet(S)
  <2>1. DOMAIN lines = 1..Len(lines) /\ Len(lines) \in Nat
    BY <1>2 DEF InARow
  <2> HIDE DEF S, lines, rows
  <2>2. IsFiniteSet(1..Len(lines)) /\ S \subseteq 1..Len(lines)
    BY <1>3, <2>1, FS_Interval
  <2>3. S \subseteq Nat
    BY <2>1, <2>2
  <2>4. IsFiniteSet(S)
    BY <2>2, FS_Subset
  <2> QED
    BY <2>3, <2>4
<1> HIDE DEF S, lines, rows
<1>6. InARow(Picked(lines, S)) /\ Range(Picked(lines, S)) = {lines[i] : i \in S}
  <2>1. PicksOnly(lines, S)
    BY <1>5, PickedElements
  <2> QED
    BY <2>1, Zenon DEF PicksOnly
<1>8. \A x \in Range(Picked(lines, S)) : \E i \in S : x = lines[i]
  BY <1>6
<1>9. k = "hold" => \A r, t \in Range(Parsed(q, k)) : r = t
  <2> SUFFICES ASSUME k = "hold", NEW r \in Range(Parsed(q, k)), NEW t \in Range(Parsed(q, k)) PROVE r = t
    OBVIOUS
  <2>1. PICK i \in S : r = lines[i]
    BY <1>1, <1>8
  <2>2. PICK j \in S : t = lines[j]
    BY <1>1, <1>8
  <2>3. i = j
    <3>1. i <= j /\ j <= i /\ i \in Nat /\ j \in Nat
      BY <1>3, <1>5
    <3> QED
      BY <3>1
  <2> QED
    BY <2>1, <2>2, <2>3
<1> QED
  BY <1>1, <1>3, <1>4, <1>6, <1>8, <1>9

\* What a screen's listings hold: rows of the five kinds, finished, and one
\* price of a hold.
LEMMA ListingRows ==
  ASSUME NEW q, InARow(q)
  PROVE  /\ InARow(Listing(q))
         /\ \A r \in Range(Listing(q)) : r.kind \in KindSet /\ r \in Vouched(q, r.kind)
         /\ \A r, t \in Range(Listing(q)) : r.kind = "hold" /\ t.kind = "hold" => r = t
<1>1. \A k \in KindSet : InARow(Parsed(q, k)) /\ Range(Parsed(q, k)) \subseteq Vouched(q, k)
  BY ParsedRows
<1>2. \A k : \A r \in Vouched(q, k) : r.kind = k
  BY DEF Vouched, VouchedPlaces
<1> DEFINE a == Parsed(q, "ships") \o Parsed(q, "hold")
           b == a \o Parsed(q, "scanner")
           c == b \o Parsed(q, "transwarp")
<1>3. "ships" \in KindSet /\ "hold" \in KindSet /\ "scanner" \in KindSet /\ "transwarp" \in KindSet /\ "item" \in KindSet
  BY DEF KindSet
<1>4. InARow(a) /\ Range(a) = Range(Parsed(q, "ships")) \cup Range(Parsed(q, "hold"))
  BY <1>1, <1>3, RowsJoined
<1>5. InARow(b) /\ Range(b) = Range(a) \cup Range(Parsed(q, "scanner"))
  <2> HIDE DEF a
  <2> QED
    BY <1>1, <1>3, <1>4, RowsJoined
<1>6. InARow(c) /\ Range(c) = Range(b) \cup Range(Parsed(q, "transwarp"))
  <2> HIDE DEF b
  <2> QED
    BY <1>1, <1>3, <1>5, RowsJoined
<1>7. InARow(Listing(q)) /\ Range(Listing(q)) = Range(c) \cup Range(Parsed(q, "item"))
  <2>1. Listing(q) = c \o Parsed(q, "item")
    BY DEF Listing
  <2> HIDE DEF c
  <2> QED
    BY <1>1, <1>3, <1>6, <2>1, RowsJoined
<1> HIDE DEF a, b, c
<1>8. \A r \in Range(Listing(q)) : \E k \in KindSet : r \in Range(Parsed(q, k))
  BY <1>3, <1>4, <1>5, <1>6, <1>7
<1>9. \A r \in Range(Listing(q)) : r.kind \in KindSet /\ r \in Range(Parsed(q, r.kind))
  BY <1>1, <1>2, <1>8
<1>10. \A r, t \in Range(Parsed(q, "hold")) : r = t
  BY ParsedRows
<1> QED
  BY <1>1, <1>7, <1>9, <1>10

\* The rows of a kind that any screen shows in a finished listing.
FileRows(k) == UNION {Vouched(YardScreens[s], k) : s \in DOMAIN YardScreens}

\* A row that may be on file is a row of a listing that was finished.
LEMMA FileRowIs ==
  ASSUME NEW k, NEW r \in FileRows(k)
  PROVE  /\ r.kind = k /\ r.cost \in Int /\ r.holds \in Nat /\ r.warp \in Nat \ {0} /\ r.req \in Int
         /\ \E s \in DOMAIN YardScreens : \E i \in DOMAIN YardScreens[s] :
              YardScreens[s][i] = r /\ \E j \in Marks(YardScreens[s], "foot", k) : i < j
<1>1. PICK s \in DOMAIN YardScreens : r \in Vouched(YardScreens[s], k)
  BY DEF FileRows
<1>2. PICK i \in VouchedPlaces(YardScreens[s], k) : r = YardScreens[s][i]
  BY <1>1 DEF Vouched
<1>3. i \in DOMAIN YardScreens[s] /\ r.kind = k /\ \E j \in Marks(YardScreens[s], "foot", k) : i < j
  BY <1>2 DEF VouchedPlaces
<1>4. r \in Range(YardScreens[s])
  BY <1>2, <1>3 DEF Range
<1> QED
  BY <1>2, <1>3, <1>4, ScreenLines

\* A file in order: of each kind rows of finished listings, each name once.
NamedOnce(q) == \A i, j \in DOMAIN q : i # j => q[i].name # q[j].name
FileOk(data) ==
  /\ data = [k \in KindSet |-> data[k]]
  /\ \A k \in KindSet : InARow(data[k]) /\ Range(data[k]) \subseteq FileRows(k) /\ NamedOnce(data[k])

\* Storing a row keeps the file in order; the row is on it, and nothing has
\* left it but what had its name, or the price it replaces.
LEMMA RowStored ==
  ASSUME NEW data, FileOk(data), NEW row, row.kind \in KindSet, row \in FileRows(row.kind)
  PROVE  /\ FileOk(Persisted(data, row)) /\ row \in Range(Persisted(data, row)[row.kind])
         /\ \A k \in KindSet : \A r \in Range(data[k]) :
              \/ r \in Range(Persisted(data, row)[k])
              \/ k = row.kind /\ (k \in {"hold", "transwarp"} \/ r.name = row.name)
<1> DEFINE old == data[row.kind]
           others == {i \in DOMAIN old : row.kind \notin {"hold", "transwarp"} /\ old[i].name # row.name}
           kept == Picked(old, others)
           new == Append(kept, row)
           file == Persisted(data, row)
<1>1. data = [k \in KindSet |-> data[k]]
  BY DEF FileOk
<1>2. InARow(old) /\ Range(old) \subseteq FileRows(row.kind) /\ NamedOnce(old)
  BY DEF FileOk
<1>3. file = [k \in KindSet |-> IF k = row.kind THEN new ELSE data[k]]
  <2>1. file = [data EXCEPT ![row.kind] = new]
    BY DEF Persisted
  <2> HIDE DEF new, file
  <2> QED
    BY <1>1, <2>1
<1>4. others \subseteq Nat /\ IsFiniteSet(others)
  <2>1. DOMAIN old = 1..Len(old) /\ Len(old) \in Nat
    BY <1>2 DEF InARow
  <2> HIDE DEF old
  <2>2. others \subseteq 1..Len(old)
    BY <2>1
  <2>3. IsFiniteSet(1..Len(old))
    BY <2>1, FS_Interval
  <2> HIDE DEF others
  <2>4. IsFiniteSet(others)
    BY <2>2, <2>3, FS_Subset
  <2> QED
    BY <2>1, <2>2, <2>4
<1>o. /\ others \subseteq DOMAIN old
      /\ \A i \in others : row.kind \notin {"hold", "transwarp"} /\ old[i].name # row.name
      /\ \A i \in DOMAIN old : row.kind \notin {"hold", "transwarp"} /\ old[i].name # row.name => i \in others
  OBVIOUS
<1> HIDE DEF others, old
<1>5. PicksOnly(old, others)
  BY <1>4, PickedElements
<1>6. /\ InARow(kept) /\ Range(kept) = {old[i] : i \in others}
      /\ \A n, m \in DOMAIN kept : n < m => \E i, j \in others : i < j /\ kept[n] = old[i] /\ kept[m] = old[j]
  BY <1>5, Zenon DEF PicksOnly
<1> HIDE DEF kept
<1>7. InARow(new) /\ Len(new) = Len(kept) + 1 /\ Len(kept) \in Nat
  BY <1>6, RowGrows
<1>8. DOMAIN kept = 1..Len(kept) /\ DOMAIN new = 1..(Len(kept) + 1) /\ new[Len(kept) + 1] = row
      /\ \A i \in 1..Len(kept) : new[i] = kept[i]
  <2>1. kept \in Seq(Range(kept) \cup {row})
    <3>1. kept \in Seq(Range(kept)) /\ Range(kept) \subseteq Range(kept) \cup {row}
      BY <1>6 DEF InARow
    <3> QED
      BY <3>1, SeqOfMore
  <2> QED
    BY <2>1
<1> HIDE DEF new
<1>9. Range(new) = Range(kept) \cup {row}
  <2>1. \A x \in Range(new) : x \in Range(kept) \cup {row}
    <3> SUFFICES ASSUME NEW i \in DOMAIN new PROVE new[i] \in Range(kept) \cup {row}
      BY DEF Range
    <3>1. i \in 1..Len(kept) \/ i = Len(kept) + 1
      BY <1>7, <1>8
    <3> QED
      BY <1>8, <3>1 DEF Range
  <2>2. \A x \in Range(kept) : x \in Range(new)
    <3> SUFFICES ASSUME NEW i \in DOMAIN kept PROVE kept[i] \in Range(new)
      BY DEF Range
    <3>1. i \in DOMAIN new /\ new[i] = kept[i]
      BY <1>7, <1>8
    <3> QED
      BY <3>1 DEF Range
  <2>3. row \in Range(new)
    <3>1. Len(kept) + 1 \in DOMAIN new
      BY <1>7, <1>8
    <3> QED
      BY <1>8, <3>1 DEF Range
  <2> QED
    BY <2>1, <2>2, <2>3
<1>10. Range(new) \subseteq FileRows(row.kind)
  <2>1. \A i \in others : old[i] \in Range(old)
    BY <1>o DEF Range
  <2> QED
    BY <1>2, <1>6, <1>9, <2>1
<1>11. NamedOnce(new)
  <2>1. ASSUME NEW n \in DOMAIN new, NEW m \in DOMAIN new, n < m PROVE new[n].name # new[m].name
    <3>1. n \in 1..Len(kept) /\ new[n] = kept[n] /\ n \in DOMAIN kept
      BY <1>7, <1>8, <2>1
    <3>2. CASE m = Len(kept) + 1
      <4>1. kept[n] \in Range(kept)
        BY <3>1 DEF Range
      <4>2. PICK i \in others : kept[n] = old[i]
        BY <1>6, <4>1
      <4> QED
        BY <1>8, <1>o, <3>1, <3>2, <4>2
    <3>3. CASE m # Len(kept) + 1
      <4>1. m \in DOMAIN kept /\ new[m] = kept[m]
        BY <1>7, <1>8, <3>3
      <4>2. PICK i \in others, j \in others : i < j /\ kept[n] = old[i] /\ kept[m] = old[j]
        BY <1>6, <2>1, <3>1, <4>1
      <4>3. i \in DOMAIN old /\ j \in DOMAIN old /\ i # j
        <5>1. i \in Nat /\ j \in Nat
          BY <1>4
        <5> QED
          BY <1>o, <4>2, <5>1
      <4> QED
        BY <1>2, <3>1, <4>1, <4>2, <4>3 DEF NamedOnce
    <3> QED
      BY <3>2, <3>3
  <2>2. \A n, m \in DOMAIN new : n # m => n < m \/ m < n
    BY <1>7, <1>8
  <2> QED
    BY <2>1, <2>2 DEF NamedOnce
<1>12. FileOk(file)
  <2>1. file = [k \in KindSet |-> file[k]]
    BY <1>3
  <2>2. ASSUME NEW k \in KindSet PROVE InARow(file[k]) /\ Range(file[k]) \subseteq FileRows(k) /\ NamedOnce(file[k])
    <3>1. CASE k = row.kind
      <4>1. file[k] = new
        BY <1>3, <3>1
      <4> QED
        BY <1>7, <1>10, <1>11, <3>1, <4>1
    <3>2. CASE k # row.kind
      <4>1. file[k] = data[k]
        BY <1>3, <3>2
      <4> QED
        BY <4>1 DEF FileOk
    <3> QED
      BY <3>1, <3>2
  <2> HIDE DEF file
  <2> QED
    BY <2>1, <2>2 DEF FileOk
<1>13. row \in Range(file[row.kind])
  BY <1>3, <1>9
<1>14. ASSUME NEW k \in KindSet, NEW r \in Range(data[k])
       PROVE  r \in Range(file[k]) \/ (k = row.kind /\ (k \in {"hold", "transwarp"} \/ r.name = row.name))
  <2>0. (k # row.kind => file[k] = data[k]) /\ (k = row.kind => file[k] = new)
    BY <1>3
  <2> HIDE DEF file
  <2>1. CASE k # row.kind
    BY <2>0, <2>1
  <2>2. CASE k = row.kind /\ k \notin {"hold", "transwarp"} /\ r.name # row.name
    <3>1. PICK i \in DOMAIN old : r = old[i]
      BY <2>2 DEF old, Range
    <3>2. i \in others
      BY <1>o, <2>2, <3>1
    <3>3. r \in Range(new)
      BY <1>6, <1>9, <3>1, <3>2
    <3> QED
      BY <2>0, <2>2, <3>3
  <2> QED
    BY <2>1, <2>2 DEF file
<1> QED
  BY <1>12, <1>13, <1>14

\* The first element of a list, and the others.
LEMMA RowHead ==
  ASSUME NEW q, InARow(q), q # <<>>
  PROVE  /\ Head(q) \in Range(q) /\ InARow(Tail(q)) /\ Len(Tail(q)) = Len(q) - 1 /\ Len(q) \in Nat \ {0}
         /\ Range(q) = {Head(q)} \cup Range(Tail(q))
<1>1. /\ q \in Seq(Range(q)) /\ Len(q) \in Nat /\ Len(q) # 0 /\ DOMAIN q = 1..Len(q) /\ Head(q) = q[1]
      /\ Tail(q) \in Seq(Range(q)) /\ Len(Tail(q)) = Len(q) - 1 /\ DOMAIN Tail(q) = 1..(Len(q) - 1)
      /\ \A i \in 1..(Len(q) - 1) : Tail(q)[i] = q[i + 1]
  BY DEF InARow
<1>2. InARow(Tail(q))
  BY <1>1, RowMade
<1>3. Head(q) \in Range(q)
  <2>1. 1 \in DOMAIN q
    BY <1>1
  <2> QED
    BY <1>1, <2>1 DEF Range
<1>4. \A x \in Range(Tail(q)) : x \in Range(q)
  <2> SUFFICES ASSUME NEW i \in DOMAIN Tail(q) PROVE Tail(q)[i] \in Range(q)
    BY DEF Range
  <2>1. i + 1 \in DOMAIN q /\ Tail(q)[i] = q[i + 1]
    BY <1>1
  <2> QED
    BY <2>1 DEF Range
<1>5. \A x \in Range(q) : x = Head(q) \/ x \in Range(Tail(q))
  <2> SUFFICES ASSUME NEW i \in DOMAIN q PROVE q[i] = Head(q) \/ q[i] \in Range(Tail(q))
    BY DEF Range
  <2>1. CASE i = 1
    BY <1>1, <2>1
  <2>2. CASE i # 1
    <3>1. i - 1 \in DOMAIN Tail(q) /\ Tail(q)[i - 1] = q[i]
      BY <1>1, <2>2
    <3> QED
      BY <3>1 DEF Range
  <2> QED
    BY <2>1, <2>2
<1> QED
  BY <1>1, <1>2, <1>3, <1>4, <1>5

\* A capture under way: rows of the screen's listing, no more of them than it
\* has.
PendingSound(st) ==
  \/ st = NoStore
  \/ /\ st = [screen |-> st.screen, rows |-> st.rows]
     /\ st.screen \in DOMAIN YardScreens /\ InARow(st.rows) /\ st.rows # <<>>
     /\ Range(st.rows) \subseteq Range(Listing(YardScreens[st.screen]))
     /\ Len(st.rows) <= Len(Listing(YardScreens[st.screen]))

\* A window that captured the listing of screen n last, and is to store st, is
\* yet to store r of the listing of screen s, or what it will store after it.
Owes(n, st, r, s) ==
  IF st = NoStore \/ st.rows = Listing(YardScreens[st.screen]) THEN ~SameScreen(n, s)
  ELSE ~SameScreen(st.screen, s) \/ r \in Range(st.rows)

YardTyped ==
  /\ onYard \in DOMAIN YardScreens /\ watched \in [Shells -> DOMAIN YardScreens]
  /\ noted \in [Shells -> 0..Len(YardScreens)]
CapturesSound == toStore = [w \in Shells |-> toStore[w]] /\ \A w \in Shells : PendingSound(toStore[w])
Quotes == [read : BOOLEAN, ships : Seq(FileRows("ships")), hold : Int, fighter : Int]
Purchases == [dock : Nat, empty : Int, price : Int, credits : Int, qty : Nat]
HoldRuns ==
  [state : {"none", "running", "ended"}, plan : Purchases, stop : BOOLEAN, outcome : {"none", "halted", "refused"}]
HoldsPlanned ==
  /\ holdPlan \in Purchases /\ (holdPlan # NoPurchase => PlanSound(holdPlan))
  /\ holdRun \in HoldRuns /\ (holdRun.plan # NoPurchase => PlanSound(holdRun.plan))
\* What a finished listing says is on file, or some window is yet to store it.
ListedOrOwed ==
  ~torn => \A s \in DOMAIN YardScreens : \A r \in Range(Listing(YardScreens[s])) : r.kind # "transwarp" =>
    r \in Range(gameData[r.kind]) \/ \E w \in Shells : Owes(noted[w], toStore[w], r, s)
OutfitInv == YardTyped /\ CapturesSound /\ FileOk(gameData) /\ quoted \in Quotes /\ HoldsPlanned /\ ListedOrOwed

-------------------------------------------------------------------------------

\* There is a first screen.
LEMMA FirstScreen == 1 \in DOMAIN YardScreens /\ Len(YardScreens) \in Nat /\ DOMAIN YardScreens = 1..Len(YardScreens)
<1>1. YardScreens \in Seq(ToSet(YardScreens)) /\ Len(YardScreens) > 0
  BY OutfitAssumption
<1> QED
  BY <1>1

\* The empty list.
LEMMA EmptyRow == InARow(<<>>) /\ Range(<<>>) = {} /\ Len(<<>>) = 0 /\ DOMAIN <<>> = {}
<1>1. DOMAIN <<>> = {} /\ <<>> \in Seq({}) /\ Len(<<>>) = 0
  OBVIOUS
<1> QED
  BY <1>1, RowMade DEF Range

\* No purchase is of the type of one.
LEMMA NoPurchaseIs == NoPurchase \in Purchases /\ NoRun \in HoldRuns /\ NoRun.plan = NoPurchase
<1>1. NoPurchase \in Purchases
  BY DEF NoPurchase, Purchases
<1> HIDE DEF NoPurchase, Purchases
<1>2. NoRun \in HoldRuns /\ NoRun.plan = NoPurchase
  BY <1>1 DEF NoRun, HoldRuns
<1> QED
  BY <1>1, <1>2

\* At the start nothing is captured and the file is empty.
LEMMA OutfitStarts == OutfitInit => OutfitInv
<1> SUFFICES ASSUME OutfitInit PROVE OutfitInv
  OBVIOUS
<1>1. /\ onYard = 1 /\ watched = [w \in Shells |-> 1] /\ noted = [w \in Shells |-> 0]
      /\ toStore = [w \in Shells |-> NoStore] /\ gameData = [k \in KindSet |-> <<>>]
      /\ quoted = [read |-> FALSE, ships |-> <<>>, hold |-> Unread, fighter |-> Unread]
      /\ holdPlan = NoPurchase /\ holdRun = NoRun
  BY KindsAre DEF OutfitInit
<1>2. YardTyped
  <2>1. 0 \in 0..Len(YardScreens)
    BY FirstScreen
  <2> QED
    BY <1>1, <2>1, FirstScreen DEF YardTyped
<1>3. CapturesSound
  BY <1>1 DEF CapturesSound, PendingSound
<1>4. FileOk(gameData)
  <2>1. gameData = [k \in KindSet |-> gameData[k]] /\ \A k \in KindSet : gameData[k] = <<>>
    BY <1>1
  <2>2. NamedOnce(<<>>)
    BY EmptyRow DEF NamedOnce
  <2> QED
    BY <2>1, <2>2, EmptyRow DEF FileOk
<1>5. quoted \in Quotes
  <2>1. Unread \in Int
    BY OutfitAssumption
  <2>2. <<>> \in Seq(FileRows("ships"))
    OBVIOUS
  <2> QED
    BY <1>1, <2>1, <2>2 DEF Quotes
<1>6. HoldsPlanned
  BY <1>1, NoPurchaseIs DEF HoldsPlanned
<1>7. ListedOrOwed
  <2>1. PICK w \in Shells : TRUE
    BY OutfitAssumption
  <2>2. noted[w] = 0 /\ toStore[w] = NoStore
    BY <1>1
  <2>3. \A r : \A s : Owes(noted[w], toStore[w], r, s)
    BY <2>2 DEF Owes, SameScreen
  <2> QED
    BY <2>3 DEF ListedOrOwed
<1> QED
  BY <1>2, <1>3, <1>4, <1>5, <1>6, <1>7 DEF OutfitInv

\* Another screen in the yard: a listing is owed by whoever has not seen it.
LEMMA YardShown == OutfitInv /\ YardShows => OutfitInv'
<1> SUFFICES ASSUME OutfitInv, YardShows PROVE OutfitInv'
  OBVIOUS
<1>1. onYard < Len(YardScreens) /\ onYard' = onYard + 1 /\ onYard \in DOMAIN YardScreens
      /\ UNCHANGED <<watched, noted, toStore, gameData, quoted, holdPlan, holdRun, torn>>
  BY DEF YardShows, OutfitInv, YardTyped
<1>2. onYard' \in DOMAIN YardScreens
  BY <1>1, FirstScreen
<1> QED
  BY <1>1, <1>2 DEF OutfitInv, YardTyped, CapturesSound, HoldsPlanned, ListedOrOwed

\* A feed that brings a screen stores nothing.
LEMMA FeedBrought == ASSUME OutfitInv, NEW w \in Shells, FeedBrings(w) PROVE OutfitInv'
<1>1. watched' = [watched EXCEPT ![w] = onYard] /\ UNCHANGED <<onYard, noted, toStore, gameData, quoted, holdPlan, holdRun, torn>>
  BY DEF FeedBrings
<1>2. watched' \in [Shells -> DOMAIN YardScreens]
  BY <1>1 DEF OutfitInv, YardTyped
<1> QED
  BY <1>1, <1>2 DEF OutfitInv, YardTyped, CapturesSound, HoldsPlanned, ListedOrOwed

\* A tick that takes a listing changes nothing of what is owed.
LEMMA Ticked == ASSUME OutfitInv, NEW w \in Shells, Ticks(w) PROVE OutfitInv'
<1> DEFINE a == watched[w]
           st == [screen |-> a, rows |-> Listing(YardScreens[a])]
<1>1. /\ toStore[w] = NoStore /\ Listing(YardScreens[a]) # <<>> /\ toStore' = [toStore EXCEPT ![w] = st]
      /\ UNCHANGED <<onYard, watched, noted, gameData, quoted, holdPlan, holdRun, torn>>
  BY DEF Ticks
<1>2. a \in DOMAIN YardScreens /\ toStore = [v \in Shells |-> toStore[v]] /\ \A v \in Shells : PendingSound(toStore[v])
  BY DEF OutfitInv, YardTyped, CapturesSound
<1>3. InARow(Listing(YardScreens[a]))
  BY <1>2, ScreenLines, ListingRows
<1>4. st.screen = a /\ st.rows = Listing(YardScreens[a]) /\ st = [screen |-> st.screen, rows |-> st.rows]
  OBVIOUS
<1>5. PendingSound(st)
  <2>1. Len(st.rows) \in Nat
    BY <1>3, <1>4, RowBounds
  <2>2. Len(st.rows) <= Len(Listing(YardScreens[a]))
    BY <1>4, <2>1
  <2> HIDE DEF st, a
  <2> QED
    BY <1>1, <1>2, <1>3, <1>4, <2>2 DEF PendingSound
<1> HIDE DEF st, a
<1>6. toStore' = [v \in Shells |-> IF v = w THEN st ELSE toStore[v]]
  BY <1>1, <1>2
<1>7. CapturesSound'
  BY <1>2, <1>5, <1>6 DEF CapturesSound
<1>8. \A r : \A s : \A v \in Shells : Owes(noted[v], toStore[v], r, s) => Owes(noted'[v], toStore'[v], r, s)
  <2> TAKE r
  <2> TAKE s
  <2> TAKE v \in Shells
  <2>1. CASE v # w
    BY <1>1, <1>6, <2>1
  <2>2. CASE v = w
    <3>1. noted'[v] = noted[v] /\ toStore'[v] = st /\ toStore[v] = NoStore
      BY <1>1, <1>6, <2>2
    <3> QED
      BY <1>4, <3>1 DEF Owes
  <2> QED
    BY <2>1, <2>2
<1>9. ListedOrOwed'
  BY <1>1, <1>8 DEF OutfitInv, ListedOrOwed
<1> QED
  BY <1>1, <1>7, <1>9 DEF OutfitInv, YardTyped, HoldsPlanned

\* A failed capture leaves the file behind only if it had begun.
LEMMA StoreFailed == ASSUME OutfitInv, NEW w \in Shells, StoreFails(w) PROVE OutfitInv'
<1> DEFINE st == toStore[w]
<1>1. /\ st # NoStore /\ toStore' = [toStore EXCEPT ![w] = NoStore]
      /\ torn' = (torn \/ st.rows # Listing(YardScreens[st.screen]))
      /\ UNCHANGED <<onYard, watched, noted, gameData, quoted, holdPlan, holdRun>>
  BY DEF StoreFails
<1>2. toStore = [v \in Shells |-> toStore[v]] /\ \A v \in Shells : PendingSound(toStore[v])
  BY DEF OutfitInv, CapturesSound
<1>3. toStore' = [v \in Shells |-> IF v = w THEN NoStore ELSE toStore[v]]
  BY <1>1, <1>2
<1>4. CapturesSound'
  BY <1>2, <1>3 DEF CapturesSound, PendingSound
<1>5. ListedOrOwed'
  <2> SUFFICES ASSUME ~torn', NEW s \in DOMAIN YardScreens, NEW r \in Range(Listing(YardScreens[s])), r.kind # "transwarp"
               PROVE  r \in Range(gameData[r.kind]) \/ \E v \in Shells : Owes(noted[v], toStore'[v], r, s)
    BY <1>1 DEF ListedOrOwed
  <2>1. ~torn /\ st.rows = Listing(YardScreens[st.screen])
    BY <1>1
  <2>2. r \in Range(gameData[r.kind]) \/ \E v \in Shells : Owes(noted[v], toStore[v], r, s)
    BY <2>1 DEF OutfitInv, ListedOrOwed
  <2>3. ASSUME NEW v \in Shells, Owes(noted[v], toStore[v], r, s) PROVE Owes(noted[v], toStore'[v], r, s)
    <3>1. CASE v # w
      BY <1>3, <2>3, <3>1
    <3>2. CASE v = w
      <4>1. toStore'[v] = NoStore /\ toStore[v].rows = Listing(YardScreens[toStore[v].screen])
        BY <1>3, <2>1, <3>2
      <4> QED
        BY <2>3, <4>1 DEF Owes
    <3> QED
      BY <3>1, <3>2
  <2> QED
    BY <2>2, <2>3
<1> QED
  BY <1>1, <1>4, <1>5 DEF OutfitInv, YardTyped, HoldsPlanned

\* A row stored: what another listing of the same good leaves the file owed,
\* and the window that stores it owes until it captures anew.
LEMMA RowIsStored == ASSUME OutfitInv, NEW w \in Shells, StoresRow(w) PROVE OutfitInv'
<1> DEFINE st == toStore[w]
           row == Head(st.rows)
           a == st.screen
           rest == Tail(st.rows)
           listing == Listing(YardScreens[a])
<1>1. /\ st # NoStore /\ gameData' = Persisted(gameData, row)
      /\ \/ Len(st.rows) > 1 /\ toStore' = [toStore EXCEPT ![w].rows = rest] /\ noted' = noted
         \/ /\ ~(Len(st.rows) > 1) /\ toStore' = [toStore EXCEPT ![w] = NoStore]
            /\ noted' = [noted EXCEPT ![w] = a]
      /\ UNCHANGED <<onYard, watched, quoted, holdPlan, holdRun, torn>>
  BY DEF StoresRow
<1>2. toStore = [v \in Shells |-> toStore[v]] /\ \A v \in Shells : PendingSound(toStore[v])
  BY DEF OutfitInv, CapturesSound
<1>3. /\ st = [screen |-> a, rows |-> st.rows] /\ a \in DOMAIN YardScreens /\ InARow(st.rows) /\ st.rows # <<>>
      /\ Range(st.rows) \subseteq Range(listing) /\ Len(st.rows) <= Len(listing)
  BY <1>1, <1>2 DEF PendingSound
<1>4. noted \in [Shells -> 0..Len(YardScreens)] /\ a \in 0..Len(YardScreens) /\ a # 0
  <2>1. a \in 1..Len(YardScreens) /\ Len(YardScreens) \in Nat
    BY <1>3, FirstScreen
  <2> HIDE DEF a
  <2> QED
    BY <2>1 DEF OutfitInv, YardTyped
<1>5. /\ row \in Range(st.rows) /\ InARow(rest) /\ Len(rest) = Len(st.rows) - 1 /\ Len(st.rows) \in Nat \ {0}
      /\ Range(st.rows) = {row} \cup Range(rest)
  BY <1>3, RowHead
<1>6. InARow(YardScreens[a]) /\ InARow(listing)
  BY <1>3, ScreenLines, ListingRows
<1>7. row \in Range(listing) /\ row.kind \in KindSet /\ row \in FileRows(row.kind)
  <2>1. row \in Range(listing)
    BY <1>3, <1>5
  <2>2. row.kind \in KindSet /\ row \in Vouched(YardScreens[a], row.kind)
    BY <1>6, <2>1, ListingRows
  <2> HIDE DEF row, a
  <2> QED
    BY <1>3, <2>1, <2>2 DEF FileRows
<1>8. FileOk(gameData)
  BY DEF OutfitInv
<1> HIDE DEF row, rest, a, listing, st
<1>9. FileOk(gameData') /\ row \in Range(gameData'[row.kind])
  BY <1>1, <1>7, <1>8, RowStored
<1>10. \A k \in KindSet : \A r \in Range(gameData[k]) :
         \/ r \in Range(gameData'[k])
         \/ k = row.kind /\ (k \in {"hold", "transwarp"} \/ r.name = row.name)
  BY <1>1, <1>7, <1>8, RowStored
<1>11. \/ /\ Len(st.rows) > 1 /\ noted' = noted
          /\ toStore' = [v \in Shells |-> IF v = w THEN [screen |-> a, rows |-> rest] ELSE toStore[v]]
       \/ /\ ~(Len(st.rows) > 1) /\ noted' = [noted EXCEPT ![w] = a]
          /\ toStore' = [v \in Shells |-> IF v = w THEN NoStore ELSE toStore[v]]
  <2>1. CASE Len(st.rows) > 1 /\ toStore' = [toStore EXCEPT ![w].rows = rest] /\ noted' = noted
    <3>1. [st EXCEPT !.rows = rest] = [screen |-> a, rows |-> rest]
      BY <1>3
    <3>2. toStore' = [v \in Shells |-> IF v = w THEN [st EXCEPT !.rows = rest] ELSE toStore[v]]
      BY <1>2, <2>1 DEF st
    <3> QED
      BY <2>1, <3>1, <3>2
  <2>2. CASE /\ ~(Len(st.rows) > 1) /\ toStore' = [toStore EXCEPT ![w] = NoStore]
             /\ noted' = [noted EXCEPT ![w] = a]
    <3>1. toStore' = [v \in Shells |-> IF v = w THEN NoStore ELSE toStore[v]]
      BY <1>2, <2>2
    <3> QED
      BY <2>2, <3>1
  <2> QED
    BY <1>1, <2>1, <2>2
<1>12. Len(st.rows) > 1 => PendingSound([screen |-> a, rows |-> rest])
  <2> SUFFICES ASSUME Len(st.rows) > 1 PROVE PendingSound([screen |-> a, rows |-> rest])
    OBVIOUS
  <2>1. Len(rest) # 0 /\ Len(rest) <= Len(listing)
    <3>1. Len(listing) \in Nat
      BY <1>6, RowBounds
    <3> DEFINE n == Len(st.rows)
               m == Len(rest)
               c == Len(listing)
    <3>2. n \in Nat \ {0} /\ m = n - 1 /\ n <= c /\ n > 1 /\ c \in Nat
      BY <1>3, <1>5, <3>1
    <3> HIDE DEF n, m, c
    <3>3. m # 0 /\ m <= c
      BY ONLY <3>2
    <3> QED
      BY <3>3 DEF m, c
  <2>2. rest # <<>>
    BY <1>5, <2>1, RowBounds
  <2>3. Range(rest) \subseteq Range(listing)
    BY <1>3, <1>5
  <2> QED
    BY <1>3, <1>5, <2>1, <2>2, <2>3 DEF PendingSound, listing
<1>13. CapturesSound'
  <2>1. PendingSound(NoStore)
    BY DEF PendingSound
  <2> QED
    BY <1>2, <1>11, <1>12, <2>1 DEF CapturesSound
<1>14. noted' \in [Shells -> 0..Len(YardScreens)]
  BY <1>4, <1>11
<1>15. ASSUME NEW s PROVE SameScreen(a, s) => YardScreens[a] = YardScreens[s]
  BY DEF SameScreen
\* What the window owes after storing the row.
<1>16. ASSUME NEW r, NEW s \in DOMAIN YardScreens, ~SameScreen(a, s) \/ r \in Range(rest)
       PROVE  Owes(noted'[w], toStore'[w], r, s)
  <2>1. CASE Len(st.rows) > 1
    <3>1. toStore'[w] = [screen |-> a, rows |-> rest]
      BY <1>11, <2>1
    <3>2. toStore'[w].screen = a /\ toStore'[w].rows = rest
      BY <3>1
    <3>3. rest # listing
      <4>1. Len(listing) \in Nat
        BY <1>6, RowBounds
      <4> QED
        BY <1>3, <1>5, <4>1
    <3>4. toStore'[w] # NoStore
      BY <1>4, <3>2 DEF NoStore
    <3> QED
      BY <1>16, <3>2, <3>3, <3>4 DEF Owes, listing
  <2>2. CASE ~(Len(st.rows) > 1)
    <3>1. noted'[w] = a /\ toStore'[w] = NoStore
      BY <1>4, <1>11, <2>2
    <3>2. Len(rest) = 0
      <4> DEFINE n == Len(st.rows)
                 m == Len(rest)
      <4>1. n \in Nat \ {0} /\ m = n - 1 /\ ~(n > 1)
        BY <1>5, <2>2
      <4> HIDE DEF n, m
      <4>2. m = 0
        BY ONLY <4>1
      <4> QED
        BY <4>2 DEF m
    <3>3. Range(rest) = {}
      <4>1. rest = <<>>
        BY <1>5, <3>2, RowBounds
      <4> QED
        BY <4>1, EmptyRow
    <3>4. ~SameScreen(a, s)
      BY <1>16, <3>3
    <3> QED
      BY <3>1, <3>4 DEF Owes
  <2> QED
    BY <2>1, <2>2
<1>17. ListedOrOwed'
  <2> SUFFICES ASSUME ~torn, NEW s \in DOMAIN YardScreens, NEW r \in Range(Listing(YardScreens[s])), r.kind # "transwarp",
                      r \notin Range(gameData'[r.kind])
               PROVE  \E v \in Shells : Owes(noted'[v], toStore'[v], r, s)
    BY <1>1 DEF ListedOrOwed
  <2>1. CASE ~SameScreen(a, s)
    BY <1>16, <2>1
  <2>2. CASE SameScreen(a, s)
    <3>1. r \in Range(listing) /\ r # row
      BY <1>9, <1>15, <2>2 DEF listing
    <3>2. r.kind \in KindSet
      BY <1>6, <3>1, ListingRows DEF listing
    <3>3. r \notin Range(gameData[r.kind])
      <4> SUFFICES ASSUME r \in Range(gameData[r.kind]) PROVE FALSE
        OBVIOUS
      <4>1. r.kind = row.kind /\ (r.kind \in {"hold", "transwarp"} \/ r.name = row.name)
        BY <1>10, <3>2
      <4>2. CASE r.kind = "hold"
        <5>1. r = row
          BY <1>6, <1>7, <3>1, <4>1, <4>2, ListingRows DEF listing
        <5> QED
          BY <3>1, <5>1
      <4>3. CASE r.name = row.name
        <5>1. YardScreens[a] \in ToSet(YardScreens)
          BY <1>3, ScreenLines
        <5>2. r \in ToSet(Listing(YardScreens[a])) /\ row \in ToSet(Listing(YardScreens[a]))
          BY <1>7, <3>1 DEF listing, ToSet, Range
        <5>3. r = row
          BY <4>1, <4>3, <5>1, <5>2, ListedOnce
        <5> QED
          BY <3>1, <5>3
      <4> QED
        BY <4>1, <4>2, <4>3
    <3>4. PICK v \in Shells : Owes(noted[v], toStore[v], r, s)
      BY <3>3 DEF OutfitInv, ListedOrOwed
    <3>5. CASE v # w
      <4>1. noted'[v] = noted[v] /\ toStore'[v] = toStore[v]
        BY <1>4, <1>11, <3>5
      <4> QED
        BY <3>4, <4>1
    <3>6. CASE v = w
      <4>1. r \in Range(st.rows)
        <5>1. CASE st.rows = listing
          BY <3>1, <5>1
        <5>2. CASE st.rows # listing
          <6>1. Owes(noted[w], st, r, s)
            BY <3>4, <3>6 DEF st
          <6>2. st.screen = a /\ st.rows # Listing(YardScreens[a])
            BY <5>2 DEF a, listing
          <6> QED
            BY <1>1, <2>2, <6>1, <6>2 DEF Owes
        <5> QED
          BY <5>1, <5>2
      <4>2. r \in Range(rest)
        BY <1>5, <3>1, <4>1
      <4> QED
        BY <1>16, <4>2
    <3> QED
      BY <3>5, <3>6
  <2> QED
    BY <2>1, <2>2
<1> QED
  BY <1>1, <1>9, <1>13, <1>14, <1>17 DEF OutfitInv, YardTyped, HoldsPlanned

\* The status is what the file says.
LEMMA Refreshed == OutfitInv /\ Refreshes => OutfitInv'
<1> SUFFICES ASSUME OutfitInv, Refreshes PROVE OutfitInv'
  OBVIOUS
<1> DEFINE price == IF gameData["hold"] = <<>> THEN Unread ELSE Last(gameData["hold"]).cost
<1>1. /\ quoted' = [quoted EXCEPT !.read = TRUE, !.ships = gameData["ships"], !.hold = price]
      /\ UNCHANGED <<onYard, watched, noted, toStore, gameData, holdPlan, holdRun, torn>>
  BY DEF Refreshes
<1>2. \A k \in KindSet : InARow(gameData[k]) /\ Range(gameData[k]) \subseteq FileRows(k)
  BY DEF OutfitInv, FileOk
<1>3. gameData["ships"] \in Seq(FileRows("ships"))
  <2>1. "ships" \in KindSet
    BY DEF KindSet
  <2>2. gameData["ships"] \in Seq(Range(gameData["ships"])) /\ Range(gameData["ships"]) \subseteq FileRows("ships")
    BY <1>2, <2>1 DEF InARow
  <2> QED
    BY <2>2, SeqOfMore
<1>4. price \in Int
  <2>1. CASE gameData["hold"] = <<>>
    BY <2>1, OutfitAssumption
  <2>2. CASE gameData["hold"] # <<>>
    <3>1. "hold" \in KindSet
      BY DEF KindSet
    <3>2. gameData["hold"] \in Seq(Range(gameData["hold"])) /\ Range(gameData["hold"]) \subseteq FileRows("hold")
      BY <1>2, <3>1 DEF InARow
    <3>3. Last(gameData["hold"]) \in Range(gameData["hold"])
      BY <2>2, <3>2 DEF Last
    <3>4. Last(gameData["hold"]).cost \in Int
      BY <3>2, <3>3, FileRowIs
    <3> QED
      BY <2>2, <3>4
  <2> QED
    BY <2>1, <2>2
<1> HIDE DEF price
<1>5. quoted' \in Quotes
  BY <1>1, <1>3, <1>4 DEF OutfitInv, Quotes
<1> QED
  BY <1>1, <1>5 DEF OutfitInv, YardTyped, CapturesSound, HoldsPlanned, ListedOrOwed

\* The price of a fighter is off the screen.
LEMMA FightersObserved == ASSUME OutfitInv, NEW w \in Shells, ObservesFighters(w) PROVE OutfitInv'
<1> DEFINE q == YardScreens[watched[w]]
           S == {i \in DOMAIN q : q[i].is = "fighters" /\ q[i].cost > 0}
<1>1. /\ FighterPrices(q) # <<>> /\ quoted' = [quoted EXCEPT !.fighter = Head(FighterPrices(q)).cost]
      /\ UNCHANGED <<onYard, watched, noted, toStore, gameData, holdPlan, holdRun, torn>>
  BY DEF ObservesFighters
<1>2. watched[w] \in DOMAIN YardScreens
  BY DEF OutfitInv, YardTyped
<1>3. InARow(q) /\ \A l \in Range(q) : l.cost \in Int
  BY <1>2, ScreenLines
<1>4. FighterPrices(q) = Picked(q, S)
  BY DEF FighterPrices
<1>5. S \subseteq Nat /\ IsFiniteSet(S) /\ S \subseteq DOMAIN q
  <2>1. DOMAIN q = 1..Len(q) /\ Len(q) \in Nat
    BY <1>3 DEF InARow
  <2> HIDE DEF q
  <2>2. S \subseteq 1..Len(q) /\ IsFiniteSet(1..Len(q))
    BY <2>1, FS_Interval
  <2> HIDE DEF S
  <2>3. IsFiniteSet(S)
    BY <2>2, FS_Subset
  <2> QED
    BY <2>1, <2>2, <2>3
<1> HIDE DEF S, q
<1>6. PicksOnly(q, S)
  BY <1>5, PickedElements
<1>7. InARow(Picked(q, S)) /\ Range(Picked(q, S)) = {q[i] : i \in S}
  BY <1>6, Zenon DEF PicksOnly
<1>8. Head(Picked(q, S)) \in Range(Picked(q, S))
  BY <1>1, <1>4, <1>7, RowHead
<1>9. Head(Picked(q, S)).cost \in Int
  <2>1. PICK i \in S : Head(Picked(q, S)) = q[i]
    BY <1>7, <1>8
  <2>2. q[i] \in Range(q)
    BY <1>5 DEF Range
  <2> QED
    BY <1>3, <2>1, <2>2
<1>10. quoted' \in Quotes
  BY <1>1, <1>4, <1>9 DEF OutfitInv, Quotes
<1> QED
  BY <1>1, <1>10 DEF OutfitInv, YardTyped, CapturesSound, HoldsPlanned, ListedOrOwed

\* A purchase is asked about with its evidence.
LEMMA HoldAsked == ASSUME OutfitInv, NEW st \in Situations, AsksHold(st) PROVE OutfitInv'
<1>1. /\ PlanSound(PlanNow(st)) /\ holdPlan' = PlanNow(st)
      /\ UNCHANGED <<onYard, watched, noted, toStore, gameData, quoted, holdRun, torn>>
  BY DEF AsksHold
<1>2. PlanNow(st) \in Purchases
  <2>1. st.credits \in Int /\ st.empty \in Int /\ st.dock \in Nat
    BY OutfitAssumption
  <2>2. quoted.hold \in Int
    BY DEF OutfitInv, Quotes
  <2> QED
    BY <2>1, <2>2 DEF PlanNow, Purchases
<1>3. HoldsPlanned'
  BY <1>1, <1>2 DEF OutfitInv, HoldsPlanned
<1> QED
  BY <1>1, <1>3 DEF OutfitInv, YardTyped, CapturesSound, ListedOrOwed

\* A confirmed purchase runs as it was asked about.
LEMMA HoldAnswered == OutfitInv /\ AnswersHold => OutfitInv'
<1> SUFFICES ASSUME OutfitInv, AnswersHold PROVE OutfitInv'
  OBVIOUS
<1> DEFINE run == [NoRun EXCEPT !.state = "running", !.plan = holdPlan]
<1>1. /\ holdPlan # NoPurchase /\ holdPlan' = NoPurchase
      /\ \/ holdRun' = holdRun
         \/ PlanSound(holdPlan) /\ holdRun' = run
      /\ UNCHANGED <<onYard, watched, noted, toStore, gameData, quoted, torn>>
  BY DEF AnswersHold, HoldGranted
<1>2. holdPlan \in Purchases
  BY DEF OutfitInv, HoldsPlanned
<1>3. run \in HoldRuns /\ run.plan = holdPlan
  BY <1>2 DEF NoRun, HoldRuns
<1> HIDE DEF run
<1>4. HoldsPlanned'
  BY <1>1, <1>3, NoPurchaseIs DEF OutfitInv, HoldsPlanned
<1> QED
  BY <1>1, <1>4 DEF OutfitInv, YardTyped, CapturesSound, ListedOrOwed

\* A stop changes no plan.
LEMMA HoldStopped == OutfitInv /\ StopsHold => OutfitInv'
<1> SUFFICES ASSUME OutfitInv, StopsHold PROVE OutfitInv'
  OBVIOUS
<1>1. /\ holdRun' = [holdRun EXCEPT !.stop = TRUE]
      /\ UNCHANGED <<onYard, watched, noted, toStore, gameData, quoted, holdPlan, torn>>
  BY DEF StopsHold
<1>2. holdRun' \in HoldRuns /\ holdRun'.plan = holdRun.plan
  BY <1>1 DEF OutfitInv, HoldsPlanned, HoldRuns
<1>3. HoldsPlanned'
  BY <1>1, <1>2 DEF OutfitInv, HoldsPlanned
<1> QED
  BY <1>1, <1>3 DEF OutfitInv, YardTyped, CapturesSound, ListedOrOwed

\* A purchase that ends leaves no plan behind.
LEMMA HoldRun == OutfitInv /\ RunsHold => OutfitInv'
<1> SUFFICES ASSUME OutfitInv, RunsHold PROVE OutfitInv'
  OBVIOUS
<1>1. /\ holdRun' = [NoRun EXCEPT !.state = "ended", !.outcome = HoldOutcome]
      /\ UNCHANGED <<onYard, watched, noted, toStore, gameData, quoted, holdPlan, torn>>
  BY DEF RunsHold
<1>2. holdRun' \in HoldRuns /\ holdRun'.plan = NoPurchase
  BY <1>1, NoPurchaseIs DEF NoRun, HoldRuns, HoldOutcome
<1>3. HoldsPlanned'
  BY <1>1, <1>2 DEF OutfitInv, HoldsPlanned
<1> QED
  BY <1>1, <1>3 DEF OutfitInv, YardTyped, CapturesSound, ListedOrOwed

\* Every step of the outfitting keeps the invariant.
LEMMA OutfitKept == OutfitInv /\ [OutfitNext]_outfitVars => OutfitInv'
<1> SUFFICES ASSUME OutfitInv, [OutfitNext]_outfitVars PROVE OutfitInv'
  OBVIOUS
<1>1. CASE UNCHANGED outfitVars
  BY <1>1 DEF outfitVars, OutfitInv, YardTyped, CapturesSound, HoldsPlanned, ListedOrOwed
<1>2. CASE OutfitNext
  BY <1>2, YardShown, FeedBrought, Ticked, RowIsStored, StoreFailed, FightersObserved, Refreshed, HoldAsked,
     HoldAnswered, HoldStopped, HoldRun DEF OutfitNext
<1> QED
  BY <1>1, <1>2

\* What is on file came from finished listings, one row to a name, and what is
\* listed is on file or owed by a window.
THEOREM OutfitInvariance == OutfitSpec => []OutfitInv
  BY OutfitStarts, OutfitKept, PTL DEF OutfitSpec

\* Type correctness of the captures and what is computed from them (OutfitTypeOK).
THEOREM OutfitIsTyped == OutfitSpec => []OutfitTypeOK
<1>1. OutfitInv => OutfitTypeOK
  <2> SUFFICES ASSUME OutfitInv PROVE OutfitTypeOK
    OBVIOUS
  <2>1. \A w \in Shells : (toStore[w].screen = 0) <=> (toStore[w].rows = <<>>)
    <3> TAKE w \in Shells
    <3>1. PendingSound(toStore[w])
      BY DEF OutfitInv, CapturesSound
    <3>2. CASE toStore[w] = NoStore
      BY <3>2 DEF NoStore
    <3>3. CASE toStore[w] # NoStore
      <4>1. toStore[w].screen \in 1..Len(YardScreens) /\ toStore[w].rows # <<>>
        BY <3>1, <3>3, FirstScreen DEF PendingSound
      <4> QED
        BY <4>1, FirstScreen
    <3> QED
      BY <3>2, <3>3
  <2>2. DOMAIN gameData = ToSet(Kinds)
    BY KindsAre DEF OutfitInv, FileOk
  <2> QED
    BY <2>1, <2>2 DEF OutfitInv, YardTyped, Quotes, HoldsPlanned, HoldRuns, OutfitTypeOK
<1> QED
  BY <1>1, OutfitInvariance, PTL

\* The file holds each good once, from a finished listing; when every window
\* has captured the listing on show it says what the listing says; a purchase
\* under way is covered, and fighters come out of what is left.
THEOREM PricesHold == OutfitSpec => [](FileSound /\ LatestListed /\ PurchaseCovered /\ FightersLast)
<1>1. OutfitInv => FileSound
  <2> SUFFICES ASSUME OutfitInv, NEW k \in KindSet
               PROVE  /\ \A i, j \in DOMAIN gameData[k] : i # j => gameData[k][i].name # gameData[k][j].name
                      /\ \A r \in ToSet(gameData[k]) : \E s \in DOMAIN YardScreens : \E i \in DOMAIN YardScreens[s] :
                           YardScreens[s][i] = r /\ \E j \in Marks(YardScreens[s], "foot", k) : i < j
    BY KindsAre, Zenon DEF FileSound
  <2>1. NamedOnce(gameData[k]) /\ Range(gameData[k]) \subseteq FileRows(k)
    BY DEF OutfitInv, FileOk
  <2>2. ToSet(gameData[k]) = Range(gameData[k])
    BY DEF ToSet, Range
  <2> QED
    BY <2>1, <2>2, FileRowIs DEF NamedOnce
<1>2. OutfitInv => LatestListed
  <2> SUFFICES ASSUME OutfitInv, ~torn, \A w \in Shells : SameScreen(noted[w], onYard) /\ toStore[w] = NoStore,
                      NEW r \in ToSet(Listing(YardScreens[onYard])), r.kind # "transwarp"
               PROVE  r \in ToSet(gameData[r.kind])
    BY DEF LatestListed
  <2>1. onYard \in DOMAIN YardScreens /\ r \in Range(Listing(YardScreens[onYard]))
    BY DEF OutfitInv, YardTyped, ToSet, Range
  <2>2. \A w \in Shells : ~Owes(noted[w], toStore[w], r, onYard)
    BY DEF Owes
  <2>3. r \in Range(gameData[r.kind])
    BY <2>1, <2>2 DEF OutfitInv, ListedOrOwed
  <2> QED
    BY <2>3 DEF ToSet, Range
<1>3. OutfitInv => PurchaseCovered
  <2> SUFFICES ASSUME OutfitInv, NEW p \in {holdPlan, holdRun.plan}, p # NoPurchase
               PROVE  p.qty * p.price <= p.credits /\ p.qty <= p.empty
    BY DEF PurchaseCovered
  <2>1. p \in Purchases /\ PlanSound(p)
    BY DEF OutfitInv, HoldsPlanned, HoldRuns
  <2>2. p.qty \in Int /\ p.price \in Int
    BY <2>1 DEF Purchases
  <2>3. p.qty * p.price = p.price * p.qty
    BY <2>2
  <2> QED
    BY <2>1, <2>3 DEF PlanSound
<1>4. OutfitInv => FightersLast
  <2> SUFFICES ASSUME OutfitInv, NEW st \in Situations, FightersAdvice(st) = "buy_fighters"
               PROVE  /\ st.credits - quoted.fighter * Stack >= st.float
                      /\ quoted.hold > 0 => st.credits - quoted.hold < st.float
    BY DEF FightersLast
  <2> DEFINE free == st.credits - st.float
             dear == quoted.fighter * Stack
  <2>1. quoted.hold \in Int /\ quoted.fighter \in Int /\ st.credits \in Int /\ st.float \in Int /\ Stack \in Int
    BY OutfitAssumption DEF OutfitInv, Quotes
  <2>2. /\ ~(st.credits = Unread \/ quoted.fighter = Unread)
        /\ ~(st.credits # Unread /\ quoted.fighter # Unread /\ free < 0)
        /\ ~(quoted.fighter # Unread /\ free >= 0 /\ free < dear)
        /\ ~(quoted.fighter # Unread /\ free >= dear /\ quoted.hold > 0 /\ quoted.hold <= free)
    BY DEF FightersAdvice
  <2>3. dear \in Int /\ free \in Int
    BY <2>1
  <2> HIDE DEF dear
  <2>4. free >= 0 /\ free >= dear /\ (quoted.hold > 0 => ~(quoted.hold <= free))
    BY <2>1, <2>2, <2>3
  <2>5. st.credits - dear >= st.float
    BY <2>1, <2>3, <2>4
  <2>6. quoted.hold > 0 => st.credits - quoted.hold < st.float
    BY <2>1, <2>4
  <2> QED
    BY <2>5, <2>6 DEF dear
<1> QED
  BY <1>1, <1>2, <1>3, <1>4, OutfitInvariance, PTL

\* What is picked by a condition on the elements of a list.
LEMMA PlacesOf == ASSUME NEW q, InARow(q), NEW S, S \subseteq DOMAIN q PROVE S \subseteq Nat /\ IsFiniteSet(S)
<1>1. DOMAIN q = 1..Len(q) /\ Len(q) \in Nat
  BY DEF InARow
<1>2. S \subseteq 1..Len(q) /\ IsFiniteSet(1..Len(q))
  BY <1>1, FS_Interval
<1>3. IsFiniteSet(S)
  BY <1>2, FS_Subset
<1> QED
  BY <1>1, <1>2, <1>3

\* What is picked are the elements at the places.
LEMMA PickedOf ==
  ASSUME NEW q, InARow(q), NEW S, S \subseteq DOMAIN q
  PROVE  InARow(Picked(q, S)) /\ Range(Picked(q, S)) = {q[i] : i \in S}
<1>1. S \subseteq Nat /\ IsFiniteSet(S)
  BY PlacesOf
<1>2. PicksOnly(q, S)
  BY <1>1, PickedElements
<1> QED
  BY <1>2, Zenon DEF PicksOnly

\* A list without elements is empty.
LEMMA RowEmpty == ASSUME NEW q, InARow(q) PROVE q = <<>> <=> Range(q) = {}
<1>1. CASE q = <<>>
  BY <1>1, EmptyRow
<1>2. CASE q # <<>>
  BY <1>2, RowHead
<1> QED
  BY <1>1, <1>2

\* An order by a preference, the first listed of equals: V is who is preferred.
ByPreference(V, S) == {r \in S \X S : r \in V \/ (<<r[2], r[1]>> \notin V /\ r[1] < r[2])}
Prefers(V, S) ==
  /\ \A i, j \in S : <<i, j>> \in V => <<j, i>> \notin V
  /\ \A i, j, k \in S : <<j, i>> \notin V /\ <<k, j>> \notin V => <<k, i>> \notin V

\* A preference that is passed on orders the places, equals by their place.
LEMMA PreferenceOrders == ASSUME NEW V, NEW S, S \subseteq Nat, Prefers(V, S) PROVE OrdersAll(ByPreference(V, S), S)
<1> DEFINE R == ByPreference(V, S)
<1>1. \A i, j \in S : <<i, j>> \in R <=> <<i, j>> \in V \/ (<<j, i>> \notin V /\ i < j)
  BY DEF ByPreference
<1>2. \A i, j \in S : <<i, j>> \in V => <<j, i>> \notin V
  BY DEF Prefers
<1>3. \A i, j, k \in S : <<j, i>> \notin V /\ <<k, j>> \notin V => <<k, i>> \notin V
  BY DEF Prefers
<1> HIDE DEF R
<1>4. ASSUME NEW i \in S, NEW j \in S, NEW k \in S, <<i, j>> \in R, <<j, k>> \in R PROVE <<i, k>> \in R
  <2>0. i \in Nat /\ j \in Nat /\ k \in Nat
    OBVIOUS
  <2>1. <<j, i>> \notin V /\ <<k, j>> \notin V
    BY <1>1, <1>2, <1>4
  <2>2. <<k, i>> \notin V
    BY <1>3, <2>1
  <2>3. CASE <<i, k>> \in V
    BY <1>1, <2>3
  <2>4. CASE <<i, k>> \notin V
    <3>1. <<j, k>> \notin V
      <4>1. <<k, i>> \notin V /\ <<i, k>> \notin V /\ <<j, i>> \notin V
        BY <2>1, <2>2, <2>4
      <4> QED
        BY <1>3, <4>1
    <3>2. <<i, j>> \notin V
      BY <1>3, <2>1, <2>4
    <3>3. i < j /\ j < k
      BY <1>1, <1>4, <3>1, <3>2
    <3>4. i < k
      BY <2>0, <3>3
    <3> QED
      BY <1>1, <2>2, <3>4
  <2> QED
    BY <2>3, <2>4
<1>5. ASSUME NEW i \in S, NEW j \in S, i # j PROVE <<i, j>> \in R <=> <<j, i>> \notin R
  <2>1. i < j \/ j < i
    BY <1>5
  <2>2. ~(i < j /\ j < i)
    OBVIOUS
  <2> QED
    BY <1>1, <1>2, <2>1, <2>2
<1> QED
  BY <1>4, <1>5 DEF OrdersAll, R

\* Something is preferred to nothing else: the first of the order.
LEMMA OrderBegins ==
  ASSUME NEW R, NEW S, IsFiniteSet(S), S # {}, OrdersAll(R, S)
  PROVE  \E i \in S : Cardinality(WithThoseBefore(R, S, i)) = 1 /\ \A j \in S \ {i} : <<i, j>> \in R /\ <<j, i>> \notin R
<1>1. Cardinality(S) \in Nat /\ Cardinality(S) # 0
  BY FS_CardinalityType, FS_EmptySet
<1>2. PICK i \in S : Cardinality(WithThoseBefore(R, S, i)) = 1
  <2>1. 1 \in 1..Cardinality(S)
    BY <1>1
  <2> QED
    BY <2>1, RankedPlaces
<1>3. IsFiniteSet(WithThoseBefore(R, S, i))
  <2>1. WithThoseBefore(R, S, i) \subseteq S
    BY DEF WithThoseBefore
  <2> QED
    BY <2>1, FS_Subset
<1>4. PICK x : WithThoseBefore(R, S, i) = {x}
  BY <1>2, <1>3, FS_Singleton
<1>5. \A j \in S \ {i} : <<j, i>> \notin R
  BY <1>4 DEF WithThoseBefore
<1>6. \A j \in S \ {i} : <<i, j>> \in R
  BY <1>5 DEF OrdersAll
<1> QED
  BY <1>2, <1>5, <1>6

\* A finite set of numbers has a greatest.
LEMMA GreatestOf ==
  ASSUME NEW S, S \subseteq Int, IsFiniteSet(S), S # {}
  PROVE  \E m \in S : \A k \in S : k <= m
<1> DEFINE R == {r \in S \X S : r[1] > r[2]}
<1>1. \A i, j \in S : <<i, j>> \in R <=> i > j
  OBVIOUS
<1>2. \A i \in S : i \in Int
  OBVIOUS
<1> HIDE DEF R
<1>3. OrdersAll(R, S)
  BY <1>1, <1>2 DEF OrdersAll
<1>4. PICK m \in S : \A j \in S \ {m} : <<m, j>> \in R
  BY <1>3, OrderBegins
<1>5. ASSUME NEW k \in S PROVE k <= m
  <2>0. k \in Int /\ m \in Int
    BY <1>2
  <2>1. CASE k = m
    BY <2>0, <2>1
  <2>2. CASE k # m
    <3>1. <<m, k>> \in R
      BY <1>4, <2>2
    <3>2. m > k
      BY <1>1, <3>1
    <3> QED
      BY <2>0, <3>2
  <2> QED
    BY <2>1, <2>2
<1> QED
  BY <1>5

-------------------------------------------------------------------------------

\* A ship of the catalogue.
ShipIs(s) == s.cost \in Int /\ s.holds \in Nat /\ s.warp \in Nat \ {0} /\ s.req \in Int

\* What is for sale are ships of the catalogue, and their figures are numbers.
LEMMA CatalogueShips ==
  quoted \in Quotes => /\ InARow(quoted.ships) /\ InARow(ForSale) /\ Range(ForSale) \subseteq Range(quoted.ships)
                       /\ \A s \in Range(quoted.ships) : ShipIs(s)
<1> SUFFICES ASSUME quoted \in Quotes
             PROVE  /\ InARow(quoted.ships) /\ InARow(ForSale) /\ Range(ForSale) \subseteq Range(quoted.ships)
                    /\ \A s \in Range(quoted.ships) : ShipIs(s)
  OBVIOUS
<1>1. quoted.ships \in Seq(FileRows("ships"))
  BY DEF Quotes
<1>2. InARow(quoted.ships)
  BY <1>1, RowMade
<1>3. \A s \in Range(quoted.ships) : s \in FileRows("ships")
  BY <1>1 DEF Range
<1> DEFINE q == quoted.ships
           S == {i \in DOMAIN q : q[i].cost > 0}
<1>4. ForSale = Picked(q, S) /\ S \subseteq DOMAIN q
  BY DEF ForSale
<1> HIDE DEF q, S
<1>5. InARow(Picked(q, S)) /\ Range(Picked(q, S)) = {q[i] : i \in S}
  BY <1>2, <1>4, PickedOf DEF q
<1>6. Range(ForSale) \subseteq Range(q)
  BY <1>4, <1>5 DEF Range
<1> QED
  BY <1>2, <1>3, <1>4, <1>5, <1>6, FileRowIs DEF ShipIs, q

\* The figures of a situation are numbers.
LEMMA FiguresKnown ==
  ASSUME quoted \in Quotes, NEW st \in Situations
  PROVE  /\ st.turns \in Int /\ st.margin \in Int /\ st.align \in Int /\ st.loopTurns \in Nat \ {0} /\ st.sheet \in Int
         /\ HoldsNow(st) \in Int /\ FillPrice \in Int /\ Unread \in Int
<1>1. st.turns \in Int /\ st.margin \in Int /\ st.align \in Int /\ st.loopTurns \in Nat \ {0} /\ st.sheet \in Int /\ Unread \in Int
  BY OutfitAssumption
<1>2. quoted.hold \in Int
  BY DEF Quotes
<1>3. FillPrice \in Int
  BY <1>2 DEF FillPrice
<1>4. OwnRows(st) # <<>> => Head(OwnRows(st)).holds \in Int
  <2> SUFFICES ASSUME OwnRows(st) # <<>> PROVE Head(OwnRows(st)).holds \in Int
    OBVIOUS
  <2> DEFINE q == quoted.ships
             S == {i \in DOMAIN q : MatchesType(q[i], st.type)}
  <2>1. OwnRows(st) = Picked(q, S) /\ S \subseteq DOMAIN q
    BY DEF OwnRows
  <2>2. InARow(q) /\ \A s \in Range(q) : ShipIs(s)
    BY CatalogueShips
  <2> HIDE DEF q, S
  <2>3. InARow(Picked(q, S)) /\ Range(Picked(q, S)) = {q[i] : i \in S}
    BY <2>1, <2>2, PickedOf
  <2>4. Head(OwnRows(st)) \in Range(Picked(q, S))
    BY <2>1, <2>3, RowHead
  <2>5. PICK i \in S : Head(OwnRows(st)) = q[i]
    BY <2>3, <2>4
  <2>6. q[i] \in Range(q)
    BY <2>1 DEF Range
  <2> QED
    BY <2>2, <2>5, <2>6 DEF ShipIs
<1>5. HoldsNow(st) \in Int
  BY <1>1, <1>4 DEF HoldsNow
<1> QED
  BY <1>1, <1>3, <1>5

\* The holds a loop feeds are a number.
LEMMA StockKnown == ASSUME quoted \in Quotes, NEW st \in Situations PROVE Stock(st) \in Int
<1> DEFINE ships == {r.holds : r \in ToSet(ForSale)}
           most == {HoldsNow(st), 1} \cup ships
<1>1. HoldsNow(st) \in Int
  BY FiguresKnown
<1>2. InARow(ForSale) /\ \A s \in Range(ForSale) : ShipIs(s)
  BY CatalogueShips
<1>3. most \subseteq Int
  BY <1>1, <1>2 DEF ShipIs, ToSet, Range
<1>4. IsFiniteSet(most)
  <2> DEFINE f == [i \in DOMAIN ForSale |-> ForSale[i].holds]
  <2>1. f \in Surjection(DOMAIN ForSale, ships)
    BY DEF Surjection, ToSet
  <2>2. IsFiniteSet(DOMAIN ForSale)
    BY <1>2, PlacesOf
  <2> HIDE DEF f, ships
  <2>3. IsFiniteSet(ships)
    BY <2>1, <2>2, FS_Surjection
  <2>4. IsFiniteSet(ships \cup {1}) /\ IsFiniteSet((ships \cup {1}) \cup {HoldsNow(st)})
    BY <2>3, FS_AddElement
  <2>5. (ships \cup {1}) \cup {HoldsNow(st)} = {HoldsNow(st), 1} \cup ships
    OBVIOUS
  <2> QED
    BY <2>4, <2>5
<1>5. HoldsNow(st) \in most
  OBVIOUS
<1>6. Stock(st) = IF st.links < LinksForShips THEN HoldsNow(st) ELSE CHOOSE h \in most : \A k \in most : k <= h
  BY DEF Stock
<1> HIDE DEF most
<1>7. (CHOOSE h \in most : \A k \in most : k <= h) \in most
  BY <1>3, <1>4, <1>5, GreatestOf
<1> QED
  BY <1>1, <1>3, <1>6, <1>7

\* What a ship brings in over what it costs, in either way of reckoning.
LEMMA Reckoned ==
  ASSUME NEW h \in Int, NEW n \in Int, NEW m \in Int, NEW t \in Int
  PROVE  t * (h - n) * m = h * m * t - n * m * t /\ t * (h - n) * m \in Int /\ h * m * t \in Int /\ n * m * t \in Int
BY SMT

\* The gates refuse what would not pay, and nothing else.
LEMMA GatesAreRight ==
  ASSUME quoted \in Quotes, NEW st \in Situations, NEW s, ShipIs(s)
  PROVE  /\ Refusal(st, s) = "none" <=> WouldPay(st, s)
         /\ Refusal(st, s) \in {"alignment_rank", "needs_chains", "no_gain", "roi_vs_budget", "none"}
<1> DEFINE n == HoldsNow(st)
           cost == Outlay(st, s) * st.loopTurns * s.warp
           gain == st.turns * Extra(st, s) * st.margin
<1>1. s.holds \in Int /\ n \in Int /\ Stock(st) \in Int /\ st.margin \in Int /\ st.turns \in Int /\ FillPrice \in Int
      /\ st.loopTurns \in Int /\ s.warp \in Int /\ s.cost \in Int
  BY FiguresKnown, StockKnown DEF ShipIs
<1>2. Extra(st, s) = s.holds - n /\ Extra(st, s) \in Int
  BY <1>1 DEF Extra
<1>3. cost \in Int
  <2>1. Extra(st, s) * FillPrice \in Int
    BY <1>1, <1>2
  <2>2. Outlay(st, s) \in Int
    BY <1>1, <2>1 DEF Outlay
  <2> HIDE DEF n
  <2> QED
    BY <1>1, <2>2
<1>4. gain = s.holds * st.margin * st.turns - n * st.margin * st.turns /\ gain \in Int
      /\ s.holds * st.margin * st.turns \in Int /\ n * st.margin * st.turns \in Int
  <2>1. gain = st.turns * (s.holds - n) * st.margin
    BY <1>2
  <2> HIDE DEF gain, n
  <2> QED
    BY <1>1, <2>1, Reckoned
<1>5. PaysBack(st, s) <=> Extra(st, s) > 0 /\ cost <= gain
  BY DEF PaysBack
<1>6. Earns(st, s.holds) = s.holds * st.margin * st.turns /\ Earns(st, n) = n * st.margin * st.turns
  BY DEF Earns
<1>7. (s.cost + (s.holds - HoldsNow(st)) * FillPrice) * st.loopTurns * s.warp = cost
  BY DEF Outlay, Extra
<1>8. WouldPay(st, s) <=> /\ Commissioned(st, s) /\ s.holds > n /\ s.holds <= Stock(st)
                          /\ Earns(st, s.holds) - cost >= Earns(st, n)
  BY <1>7 DEF WouldPay
<1>9. Refusal(st, s) = "none" <=>
        Commissioned(st, s) /\ s.holds <= Stock(st) /\ Extra(st, s) > 0 /\ PaysBack(st, s)
  <2>1. (s.holds > Stock(st) <=> ~(s.holds <= Stock(st))) /\ (Extra(st, s) <= 0 <=> ~(Extra(st, s) > 0))
    BY <1>1, <1>2
  <2> QED
    BY <2>1, Zenon DEF Refusal
<1>10. Refusal(st, s) \in {"alignment_rank", "needs_chains", "no_gain", "roi_vs_budget", "none"}
  BY DEF Refusal
<1> HIDE DEF n, cost, gain
<1>11. Extra(st, s) > 0 <=> s.holds > n
  BY <1>1, <1>2
<1>12. cost <= gain <=> Earns(st, s.holds) - cost >= Earns(st, n)
  <2> DEFINE x == s.holds * st.margin * st.turns
             y == n * st.margin * st.turns
  <2>1. x \in Int /\ y \in Int /\ gain = x - y /\ Earns(st, s.holds) = x /\ Earns(st, n) = y
    BY <1>4, <1>6
  <2> HIDE DEF x, y
  <2> QED
    BY <1>3, <2>1
<1> QED
  BY <1>5, <1>8, <1>9, <1>10, <1>11, <1>12

\* Of three ships, who carries no more a turn than the next no more than the
\* last.
LEMMA CarriesAlong ==
  ASSUME NEW a, NEW b, NEW c, ShipIs(a), ShipIs(b), ShipIs(c), ~Carries(b, a), ~Carries(c, b)
  PROVE  ~Carries(c, a)
<1>1. ASSUME NEW x \in Nat, NEW y \in Nat, NEW z \in Nat, NEW u \in Nat \ {0}, NEW v \in Nat \ {0}, NEW w \in Nat \ {0},
             y * u <= x * v, z * v <= y * w
      PROVE  z * u <= x * w
  <2>1. (z * v) * u <= (y * w) * u
    BY <1>1, SMT
  <2>2. (y * u) * w <= (x * v) * w
    BY <1>1, SMT
  <2>3. (y * w) * u = (y * u) * w /\ (z * v) * u = v * (z * u) /\ (x * v) * w = v * (x * w)
    BY SMT
  <2>4. (z * v) * u \in Int /\ (y * w) * u \in Int /\ (x * v) * w \in Int
    BY SMT
  <2>5. v * (z * u) <= v * (x * w)
    BY <2>1, <2>2, <2>3, <2>4
  <2> DEFINE p == z * u
             q == x * w
  <2>6. p \in Int /\ q \in Int /\ v * p <= v * q
    BY <2>5
  <2> HIDE DEF p, q
  <2>7. p <= q
    BY <2>6, SMT
  <2> QED
    BY <2>7 DEF p, q
<1>2. /\ a.holds \in Nat /\ b.holds \in Nat /\ c.holds \in Nat
      /\ a.warp \in Nat \ {0} /\ b.warp \in Nat \ {0} /\ c.warp \in Nat \ {0}
  BY DEF ShipIs
<1>3. b.holds * a.warp <= a.holds * b.warp /\ c.holds * b.warp <= b.holds * c.warp
  BY <1>2 DEF Carries
<1>4. c.holds * a.warp <= a.holds * c.warp
  BY <1>1, <1>2, <1>3
<1> QED
  BY <1>2, <1>4 DEF Carries

\* Who carries more is not carried more than.
LEMMA CarriesOneWay == ASSUME NEW a, NEW b, ShipIs(a), ShipIs(b), Carries(a, b) PROVE ~Carries(b, a)
<1> DEFINE x == a.holds * b.warp
           y == b.holds * a.warp
<1>1. x \in Int /\ y \in Int
  BY DEF ShipIs
<1>2. (Carries(a, b) <=> x > y) /\ (Carries(b, a) <=> y > x)
  BY DEF Carries
<1> HIDE DEF x, y
<1> QED
  BY <1>1, <1>2

\* Of ships in a row one is best, as choose_upgrade has it.
LEMMA OneIsBest ==
  ASSUME NEW W, InARow(W), W # <<>>, \A s \in Range(W) : ShipIs(s)
  PROVE  \E i \in DOMAIN W : /\ \A j \in DOMAIN W : ~Carries(W[j], W[i])
                             /\ \A j \in 1..(i - 1) : Carries(W[i], W[j])
<1> DEFINE D == DOMAIN W
           V == {r \in D \X D : Carries(W[r[1]], W[r[2]])}
           R == ByPreference(V, D)
<1>1. D = 1..Len(W) /\ Len(W) \in Nat /\ D \subseteq Nat /\ IsFiniteSet(D) /\ D # {}
  <2>1. D = 1..Len(W) /\ Len(W) \in Nat /\ Len(W) # 0
    BY RowHead DEF InARow
  <2>2. 1 \in D
    BY <2>1
  <2> QED
    BY <2>1, <2>2, PlacesOf
<1>2. \A i, j \in D : <<i, j>> \in V <=> Carries(W[i], W[j])
  OBVIOUS
<1>3. \A i \in D : ShipIs(W[i])
  BY DEF Range
<1>4. Prefers(V, D)
  <2> HIDE DEF V
  <2>1. ASSUME NEW i \in D, NEW j \in D, <<i, j>> \in V PROVE <<j, i>> \notin V
    BY <1>2, <1>3, <2>1, CarriesOneWay
  <2>2. ASSUME NEW i \in D, NEW j \in D, NEW k \in D, <<j, i>> \notin V, <<k, j>> \notin V PROVE <<k, i>> \notin V
    <3>1. ~Carries(W[j], W[i]) /\ ~Carries(W[k], W[j])
      BY <1>2, <2>2
    <3>2. ~Carries(W[k], W[i])
      BY <1>3, <3>1, CarriesAlong
    <3> QED
      BY <1>2, <3>2
  <2> HIDE DEF D
  <2> QED
    BY <2>1, <2>2 DEF Prefers
<1>5. \A i, j \in D : <<i, j>> \in R <=> <<i, j>> \in V \/ (<<j, i>> \notin V /\ i < j)
  BY DEF ByPreference
<1> HIDE DEF D, V, R
<1>6. OrdersAll(R, D)
  BY <1>1, <1>4, PreferenceOrders DEF R
<1>7. PICK i \in D : \A j \in D \ {i} : <<i, j>> \in R /\ <<j, i>> \notin R
  BY <1>1, <1>6, OrderBegins
<1>8. ASSUME NEW j \in D PROVE ~Carries(W[j], W[i])
  <2>1. CASE j = i
    BY <1>3, <2>1, CarriesOneWay
  <2>2. CASE j # i
    BY <1>2, <1>5, <1>7, <2>2
  <2> QED
    BY <2>1, <2>2
<1>9. ASSUME NEW j \in 1..(i - 1) PROVE Carries(W[i], W[j])
  <2>1. j \in D /\ j # i /\ ~(i < j)
    <3>1. i \in Nat /\ i <= Len(W) /\ j \in Nat /\ 1 <= j /\ j <= i - 1
      BY <1>1
    <3> QED
      BY <1>1, <3>1
  <2>2. <<i, j>> \in R
    BY <1>7, <2>1
  <2> QED
    BY <1>2, <1>5, <2>1, <2>2
<1> QED
  BY <1>8, <1>9 DEF D

\* What is worth buying is what is for sale and would pay.
LEMMA WorthIsWouldPay ==
  ASSUME quoted \in Quotes, NEW st \in Situations
  PROVE  InARow(WorthBuying(st)) /\ Range(WorthBuying(st)) = {s \in Range(ForSale) : WouldPay(st, s)}
<1> DEFINE q == ForSale
           S == {i \in DOMAIN q : Refusal(st, q[i]) = "none"}
<1>1. WorthBuying(st) = Picked(q, S) /\ S \subseteq DOMAIN q
  BY DEF WorthBuying
<1>2. InARow(q) /\ \A s \in Range(q) : ShipIs(s)
  BY CatalogueShips
<1>3. \A i \in DOMAIN q : q[i] \in Range(q) /\ (Refusal(st, q[i]) = "none" <=> WouldPay(st, q[i]))
  BY <1>2, GatesAreRight DEF Range
<1>4. \A i \in DOMAIN q : i \in S <=> WouldPay(st, q[i])
  BY <1>3
<1> HIDE DEF S, q
<1>5. InARow(Picked(q, S)) /\ Range(Picked(q, S)) = {q[i] : i \in S}
  BY <1>1, <1>2, PickedOf
<1>6. ASSUME NEW s \in Range(q), WouldPay(st, s) PROVE s \in {q[i] : i \in S}
  <2>1. PICK i \in DOMAIN q : q[i] = s
    BY DEF Range
  <2> QED
    BY <1>4, <1>6, <2>1
<1>7. ASSUME NEW s \in {q[i] : i \in S} PROVE s \in Range(q) /\ WouldPay(st, s)
  BY <1>1, <1>3, <1>4
<1>8. {q[i] : i \in S} = {s \in Range(q) : WouldPay(st, s)}
  BY <1>6, <1>7
<1> QED
  BY <1>1, <1>5, <1>8 DEF q

\* Without a ship worth buying the advice is one of the reasons.
LEMMA SomeReason ==
  ASSUME quoted \in Quotes, NEW st \in Situations, ForSale # <<>>, \A s \in Range(ForSale) : ~WouldPay(st, s)
  PROVE  HoldReason(st) \in {"roi_vs_budget", "needs_chains", "alignment_rank", "no_gain"}
<1> DEFINE good(k) == \E s \in ToSet(ForSale) : Refusal(st, s) = Reasons[k]
           K == {k \in 1..4 : good(k)}
<1>1. DOMAIN Reasons = 1..4 /\ \A k \in 1..4 : Reasons[k] \in {"roi_vs_budget", "needs_chains", "alignment_rank", "no_gain"}
  BY DEF Reasons
<1>2. \A x \in {"roi_vs_budget", "needs_chains", "alignment_rank", "no_gain"} : \E k \in 1..4 : Reasons[k] = x
  <2>1. Reasons[1] = "roi_vs_budget" /\ Reasons[2] = "needs_chains" /\ Reasons[3] = "alignment_rank" /\ Reasons[4] = "no_gain"
    BY DEF Reasons
  <2>2. 1 \in 1..4 /\ 2 \in 1..4 /\ 3 \in 1..4 /\ 4 \in 1..4
    OBVIOUS
  <2> QED
    BY <2>1, <2>2
<1>3. ToSet(ForSale) = Range(ForSale)
  BY DEF ToSet, Range
<1>4. K # {}
  <2>1. InARow(ForSale) /\ \A s \in Range(ForSale) : ShipIs(s)
    BY CatalogueShips
  <2>2. PICK s : s \in Range(ForSale)
    BY <2>1, RowEmpty
  <2>3. Refusal(st, s) \in {"roi_vs_budget", "needs_chains", "alignment_rank", "no_gain"}
    BY <2>1, <2>2, GatesAreRight
  <2>4. PICK k \in 1..4 : Reasons[k] = Refusal(st, s)
    BY <1>2, <2>3
  <2>5. good(k)
    BY <1>3, <2>2, <2>4
  <2> QED
    BY <2>5
<1>5. K \subseteq Nat
  OBVIOUS
<1>6. \A k \in 1..4 : k \in K <=> good(k)
  OBVIOUS
<1> HIDE DEF K
<1>7. PICK m \in K : \A j \in K : m <= j
  BY <1>4, <1>5, FirstPlace
<1>8. m \in 1..4 /\ good(m)
  BY <1>6, <1>7 DEF K
<1>9. \A j \in 1..(m - 1) : ~good(j)
  <2> TAKE j \in 1..(m - 1)
  <2>1. j \in 1..4 /\ ~(m <= j)
    BY <1>8
  <2> QED
    BY <1>6, <1>7, <2>1
<1>10. \E k \in DOMAIN Reasons : good(k) /\ \A j \in 1..(k - 1) : \A s \in ToSet(ForSale) : Refusal(st, s) # Reasons[j]
  BY <1>1, <1>8, <1>9
<1>11. HoldReason(st) = Reasons[CHOOSE k \in DOMAIN Reasons :
                          good(k) /\ \A j \in 1..(k - 1) : \A s \in ToSet(ForSale) : Refusal(st, s) # Reasons[j]]
  BY DEF HoldReason
<1> HIDE DEF good
<1>12. (CHOOSE k \in DOMAIN Reasons :
          good(k) /\ \A j \in 1..(k - 1) : \A s \in ToSet(ForSale) : Refusal(st, s) # Reasons[j]) \in DOMAIN Reasons
  BY <1>10
<1> QED
  BY <1>1, <1>11, <1>12

\* The advice pays, and none is given only if nothing does.
LEMMA AdviceIsRight == quoted \in Quotes => AdvicePays
<1> SUFFICES ASSUME quoted \in Quotes, NEW st \in Situations, AdviceKnown(st)
             PROVE  IF Advice(st).verdict = "buy"
                    THEN \E s \in ToSet(ForSale) : s.name = Advice(st).ship /\ WouldPay(st, s)
                                                   /\ \A t \in ToSet(ForSale) : WouldPay(st, t) => ~Carries(t, s)
                    ELSE \A s \in ToSet(ForSale) : ~WouldPay(st, s)
  BY Zenon DEF AdvicePays
<1> DEFINE W == WorthBuying(st)
<1>1. ToSet(ForSale) = Range(ForSale)
  BY DEF ToSet, Range
<1>2. InARow(W) /\ Range(W) = {s \in Range(ForSale) : WouldPay(st, s)}
  BY WorthIsWouldPay
<1>3. ForSale # <<>>
  BY DEF AdviceKnown
<1>4. CASE W = <<>>
  <2>1. Range(W) = {}
    BY <1>4, EmptyRow
  <2>2. \A s \in Range(ForSale) : ~WouldPay(st, s)
    BY <1>2, <2>1
  <2>3. Advice(st).verdict = HoldReason(st)
    BY <1>4 DEF Advice
  <2>4. Advice(st).verdict # "buy"
    BY <1>3, <2>2, <2>3, SomeReason
  <2> QED
    BY <1>1, <2>2, <2>4
<1>5. CASE W # <<>>
  <2> DEFINE b == BestShip(st)
  <2>1. Advice(st).verdict = "buy" /\ Advice(st).ship = W[b].name
    BY <1>5 DEF Advice
  <2>2. \A s \in Range(W) : ShipIs(s)
    BY <1>2, CatalogueShips
  <2>3. b = CHOOSE i \in DOMAIN W : /\ \A j \in DOMAIN W : ~Carries(W[j], W[i])
                                    /\ \A j \in 1..(i - 1) : Carries(W[i], W[j])
    BY DEF BestShip
  <2> HIDE DEF W, b
  <2>4. b \in DOMAIN W /\ \A j \in DOMAIN W : ~Carries(W[j], W[b])
    BY <1>2, <1>5, <2>2, <2>3, OneIsBest
  <2>5. W[b] \in Range(W)
    BY <2>4 DEF Range
  <2>6. ASSUME NEW t \in Range(ForSale), WouldPay(st, t) PROVE ~Carries(t, W[b])
    <3>1. t \in Range(W)
      BY <1>2, <2>6
    <3>2. PICK j \in DOMAIN W : W[j] = t
      BY <3>1 DEF Range
    <3> QED
      BY <2>4, <3>2
  <2>7. W[b] \in Range(ForSale) /\ WouldPay(st, W[b])
    BY <1>2, <2>5
  <2> QED
    BY <1>1, <2>1, <2>6, <2>7
<1> QED
  BY <1>4, <1>5

-------------------------------------------------------------------------------

\* The first of what is picked is what stands at the least of the places.
LEMMA HeadPicked ==
  ASSUME NEW q, NEW S, S \subseteq Nat, IsFiniteSet(S), S # {}
  PROVE  /\ \E m \in S : (\A j \in S : m <= j) /\ Head(Picked(q, S)) = q[m]
         /\ Picked(q, S) # <<>>
<1> DEFINE c == Cardinality(S)
<1>1. PicksAll(q, S)
  BY PickedPlaces
<1>2. c \in Nat /\ c # 0
  BY FS_CardinalityType, FS_EmptySet
<1>3. InARow(Picked(q, S)) /\ Len(Picked(q, S)) = c /\ DOMAIN Picked(q, S) = 1..c
  BY <1>1, Zenon DEF PicksAll
<1>4. PICK p \in [1..c -> S] :
        /\ \A n \in 1..c : Picked(q, S)[n] = q[p[n]]
        /\ \A n, m \in 1..c : n < m => p[n] < p[m]
        /\ \A i \in S : \E n \in 1..c : p[n] = i
  BY <1>1, Zenon DEF PicksAll
<1> HIDE DEF c
<1>5. 1 \in 1..c
  BY <1>2
<1>6. Head(Picked(q, S)) = q[p[1]] /\ Picked(q, S) # <<>>
  BY <1>2, <1>3, <1>4, <1>5, EmptyRow DEF InARow
<1>7. p[1] \in S
  BY <1>4, <1>5
<1>8. \A j \in S : p[1] <= j
  <2> TAKE j \in S
  <2>1. PICK n \in 1..c : p[n] = j
    BY <1>4
  <2>2. p[1] \in Nat /\ j \in Nat
    BY <1>7
  <2>3. CASE n = 1
    BY <2>1, <2>2, <2>3
  <2>4. CASE n # 1
    <3>1. 1 < n
      BY <2>4
    <3>2. p[1] < p[n]
      BY <1>4, <1>5, <3>1
    <3> QED
      BY <2>1, <2>2, <3>2
  <2> QED
    BY <2>3, <2>4
<1> QED
  BY <1>6, <1>7, <1>8

\* What may be done next.
RunChain == Candidate("run_chain", FALSE, 0, 2)
ExploresOn(st) == Candidate("explore", FALSE, Weight(st), 1)
Upgrades(st) == Candidate("upgrade", UpgradeGated(st), 0, 0)
CandidateSet(st) ==
  {c \in {RunChain, ExploresOn(st), Upgrades(st)} :
     \/ c = RunChain /\ Executable(st)
     \/ c = ExploresOn(st) /\ ExploreNeeded(st)
     \/ c = Upgrades(st) /\ DockKnown(st)}

\* What the candidates weigh, and which is gated.
LEMMA CandidateIs ==
  ASSUME NEW st \in Situations
  PROVE  /\ Weight(st) \in Nat /\ UpgradeGated(st) \in BOOLEAN
         /\ RunChain.kind = "run_chain" /\ ~RunChain.gated /\ RunChain.weight = 0 /\ RunChain.ev = 2
         /\ ExploresOn(st).kind = "explore" /\ ~ExploresOn(st).gated /\ ExploresOn(st).weight = Weight(st) /\ ExploresOn(st).ev = 1
         /\ Upgrades(st).kind = "upgrade" /\ Upgrades(st).gated = UpgradeGated(st) /\ Upgrades(st).weight = 0
         /\ Upgrades(st).ev = 0
<1>1. Weight(st) \in Nat
  BY DEF Weight
<1>2. UpgradeGated(st) \in BOOLEAN
  BY DEF UpgradeGated, VitalsKnown, ShipPricesMet, HoldPriceMet, Executable
<1> QED
  BY <1>1, <1>2 DEF RunChain, ExploresOn, Upgrades, Candidate

\* A list of one.
LEMMA OneInRow == ASSUME NEW x PROVE InARow(<<x>>) /\ Range(<<x>>) = {x}
<1>1. <<x>> \in Seq({x}) /\ DOMAIN <<x>> = {1} /\ <<x>>[1] = x
  OBVIOUS
<1>2. Range(<<x>>) = {x}
  BY <1>1 DEF Range
<1> QED
  BY <1>1, <1>2, RowMade

\* The candidates listed are those there are grounds for.
LEMMA CandidatesAre ==
  ASSUME NEW st \in Situations
  PROVE  InARow(Candidates(st)) /\ Range(Candidates(st)) = CandidateSet(st)
<1> DEFINE a == IF Executable(st) THEN <<RunChain>> ELSE <<>>
           b == IF ExploreNeeded(st) THEN <<ExploresOn(st)>> ELSE <<>>
           c == IF DockKnown(st) THEN <<Upgrades(st)>> ELSE <<>>
<1>1. Candidates(st) = a \o b \o c
  BY DEF Candidates, RunChain, ExploresOn, Upgrades
<1>2. InARow(a) /\ Range(a) = IF Executable(st) THEN {RunChain} ELSE {}
  BY OneInRow, EmptyRow
<1>3. InARow(b) /\ Range(b) = IF ExploreNeeded(st) THEN {ExploresOn(st)} ELSE {}
  BY OneInRow, EmptyRow
<1>4. InARow(c) /\ Range(c) = IF DockKnown(st) THEN {Upgrades(st)} ELSE {}
  BY OneInRow, EmptyRow
<1> HIDE DEF a, b, c
<1>5. InARow(a \o b) /\ Range(a \o b) = Range(a) \cup Range(b)
  BY <1>2, <1>3, RowsJoined
<1>6. InARow((a \o b) \o c) /\ Range((a \o b) \o c) = Range(a \o b) \cup Range(c)
  BY <1>4, <1>5, RowsJoined
<1>7. CandidateSet(st) = (Range(a) \cup Range(b)) \cup Range(c)
  BY <1>2, <1>3, <1>4, Zenon DEF CandidateSet
<1> QED
  BY <1>1, <1>5, <1>6, <1>7

\* What _rank_candidates compares of a candidate.
CandidateOk(c) == c.gated \in BOOLEAN /\ c.weight \in Nat /\ c.ev \in Nat

\* Ahead is one-way, and who is not ahead of the next is not ahead of the last.
LEMMA AheadOrders ==
  ASSUME NEW a, NEW b, NEW c, CandidateOk(a), CandidateOk(b), CandidateOk(c)
  PROVE  (Ahead(a, b) => ~Ahead(b, a)) /\ (~Ahead(b, a) /\ ~Ahead(c, b) => ~Ahead(c, a))
BY DEF Ahead, CandidateOk

\* The ranking puts each candidate in one place, those ahead of it before it.
LEMMA CandidatesRanked ==
  ASSUME NEW st \in Situations
  PROVE  /\ InARow(RankedCandidates(st)) /\ Range(RankedCandidates(st)) = CandidateSet(st)
         /\ \A m, n \in DOMAIN RankedCandidates(st) :
              Ahead(RankedCandidates(st)[m], RankedCandidates(st)[n]) => m < n
<1> DEFINE all == Candidates(st)
           D == DOMAIN all
           V == {r \in D \X D : Ahead(all[r[1]], all[r[2]])}
           R == ByPreference(V, D)
           place(i) == Cardinality({j \in D : j = i \/ Ahead(all[j], all[i]) \/ (~Ahead(all[i], all[j]) /\ j < i)})
           ranked == [n \in D |-> all[CHOOSE i \in D : place(i) = n]]
<1>1. InARow(all) /\ Range(all) = CandidateSet(st)
  BY CandidatesAre
<1>2. D = 1..Len(all) /\ Len(all) \in Nat /\ D \subseteq Nat /\ IsFiniteSet(D)
  BY <1>1, PlacesOf DEF InARow
<1>3. \A i \in D : CandidateOk(all[i])
  <2> TAKE i \in D
  <2>1. all[i] \in CandidateSet(st)
    BY <1>1 DEF Range
  <2>2. all[i] \in {RunChain, ExploresOn(st), Upgrades(st)}
    BY <2>1 DEF CandidateSet
  <2>3. CandidateOk(RunChain) /\ CandidateOk(ExploresOn(st)) /\ CandidateOk(Upgrades(st))
    <3>1. RunChain.gated \in BOOLEAN /\ ExploresOn(st).gated \in BOOLEAN /\ Upgrades(st).gated \in BOOLEAN
      BY CandidateIs DEF RunChain, ExploresOn, Upgrades, Candidate
    <3> QED
      BY <3>1, CandidateIs DEF CandidateOk
  <2> QED
    BY <2>2, <2>3
<1>4. RankedCandidates(st) = ranked
  BY DEF RankedCandidates
<1>5. \A i, j \in D : <<i, j>> \in V <=> Ahead(all[i], all[j])
  OBVIOUS
<1>6. \A i, j \in D : <<i, j>> \in R <=> <<i, j>> \in V \/ (<<j, i>> \notin V /\ i < j)
  BY DEF ByPreference
<1> HIDE DEF V, R, all, D
<1>7. Prefers(V, D)
  <2>1. \A i, j \in D : <<i, j>> \in V => <<j, i>> \notin V
    BY <1>3, <1>5, AheadOrders
  <2>2. \A i, j, k \in D : <<j, i>> \notin V /\ <<k, j>> \notin V => <<k, i>> \notin V
    BY <1>3, <1>5, AheadOrders
  <2> QED
    BY <2>1, <2>2 DEF Prefers
<1>8. OrdersAll(R, D)
  BY <1>2, <1>7, PreferenceOrders DEF R
<1>9. ASSUME NEW i \in D PROVE place(i) = Cardinality(WithThoseBefore(R, D, i))
  <2>1. \A j \in D : (j = i \/ <<j, i>> \in R) <=> (j = i \/ Ahead(all[j], all[i]) \/ (~Ahead(all[i], all[j]) /\ j < i))
    BY <1>5, <1>6
  <2>2. WithThoseBefore(R, D, i) = {j \in D : j = i \/ Ahead(all[j], all[i]) \/ (~Ahead(all[i], all[j]) /\ j < i)}
    BY <2>1 DEF WithThoseBefore
  <2> QED
    BY <2>2
<1> HIDE DEF place
<1>10. Cardinality(D) = Len(all)
  BY <1>2, FS_Interval
<1>11. /\ \A n \in D : \E i \in D : place(i) = n
       /\ \A i \in D : place(i) \in D
       /\ \A i, k \in D : i # k /\ <<i, k>> \in R => place(i) < place(k)
  <2>1. /\ \A n \in 1..Cardinality(D) : \E i \in D : Cardinality(WithThoseBefore(R, D, i)) = n
        /\ \A i \in D : Cardinality(WithThoseBefore(R, D, i)) \in 1..Cardinality(D)
        /\ \A i, k \in D : i # k /\ <<i, k>> \in R => Cardinality(WithThoseBefore(R, D, i)) < Cardinality(WithThoseBefore(R, D, k))
    BY <1>2, <1>8, RankedPlaces, SMTT(30)
  <2> QED
    BY <1>2, <1>9, <1>10, <2>1
<1>12. ASSUME NEW i \in D, NEW k \in D, place(i) = place(k) PROVE i = k
  <2> SUFFICES ASSUME i # k PROVE FALSE
    OBVIOUS
  <2>1. <<i, k>> \in R \/ <<k, i>> \in R
    BY <1>8 DEF OrdersAll
  <2>2. place(i) < place(k) \/ place(k) < place(i)
    BY <1>11, <2>1
  <2>3. place(i) \in Nat
    BY <1>2, <1>11
  <2> QED
    BY <1>12, <2>2, <2>3
<1>13. ASSUME NEW n \in D PROVE \E i \in D : place(i) = n /\ ranked[n] = all[i]
  <2>1. (CHOOSE i \in D : place(i) = n) \in D /\ place(CHOOSE i \in D : place(i) = n) = n
    BY <1>11
  <2> QED
    BY <2>1
<1>14. ASSUME NEW i \in D PROVE ranked[place(i)] = all[i]
  <2>1. place(i) \in D
    BY <1>11
  <2>2. PICK k \in D : place(k) = place(i) /\ ranked[place(i)] = all[k]
    BY <1>13, <2>1
  <2> QED
    BY <1>12, <2>2
<1>15. DOMAIN ranked = D
  OBVIOUS
<1> HIDE DEF ranked
<1>16. Range(ranked) = Range(all)
  <2>1. \A x \in Range(ranked) : x \in Range(all)
    BY <1>13, <1>15 DEF Range, D
  <2>2. \A x \in Range(all) : x \in Range(ranked)
    BY <1>11, <1>14, <1>15 DEF Range, D
  <2> QED
    BY <2>1, <2>2
<1>17. InARow(ranked)
  <2> DEFINE s == Len(all)
  <2>1. s \in Nat /\ D = 1..s
    BY <1>2
  <2> HIDE DEF s
  <2>2. ranked \in Seq(Range(ranked))
    <3>1. ranked \in [1..s -> Range(ranked)]
      BY <1>15, <2>1 DEF Range, ranked
    <3> QED
      BY <2>1, <3>1
  <2> QED
    BY <2>2, RowMade
<1>18. ASSUME NEW m \in D, NEW n \in D, Ahead(ranked[m], ranked[n]) PROVE m < n
  <2>1. PICK i \in D : place(i) = m /\ ranked[m] = all[i]
    BY <1>13
  <2>2. PICK k \in D : place(k) = n /\ ranked[n] = all[k]
    BY <1>13
  <2>3. <<i, k>> \in V /\ <<k, i>> \notin V
    BY <1>5, <1>7, <1>18, <2>1, <2>2 DEF Prefers
  <2>4. i # k /\ <<i, k>> \in R
    BY <1>6, <2>3
  <2> QED
    BY <1>11, <2>1, <2>2, <2>4
<1> QED
  BY <1>1, <1>4, <1>15, <1>16, <1>17, <1>18 DEF all

\* The first that is not gated, of those there are.
LEMMA FirstUngated ==
  ASSUME NEW st \in Situations
  PROVE  /\ UngatedCandidates(st) # <<>> /\ InARow(UngatedCandidates(st))
         /\ Range(UngatedCandidates(st)) = {c \in CandidateSet(st) : ~c.gated}
         /\ \A c \in CandidateSet(st) : ~c.gated => ~Ahead(c, Head(UngatedCandidates(st)))
<1> DEFINE q == RankedCandidates(st)
           S == {i \in DOMAIN q : ~q[i].gated}
<1>1. UngatedCandidates(st) = Picked(q, S) /\ S \subseteq DOMAIN q
  BY DEF UngatedCandidates
<1>2. \A i \in DOMAIN q : i \in S <=> ~q[i].gated
  OBVIOUS
<1> HIDE DEF q, S
<1>3. InARow(q) /\ Range(q) = CandidateSet(st) /\ \A m, n \in DOMAIN q : Ahead(q[m], q[n]) => m < n
  BY CandidatesRanked DEF q
<1>4. InARow(Picked(q, S)) /\ Range(Picked(q, S)) = {q[i] : i \in S}
  BY <1>1, <1>3, PickedOf
<1>5. \A c \in CandidateSet(st) : ~c.gated => \E i \in S : q[i] = c
  BY <1>2, <1>3 DEF Range
<1>6. {q[i] : i \in S} = {c \in CandidateSet(st) : ~c.gated}
  <2>1. \A i \in S : q[i] \in CandidateSet(st) /\ ~q[i].gated
    BY <1>1, <1>2, <1>3 DEF Range
  <2> QED
    BY <1>5, <2>1
<1>7. \E c \in CandidateSet(st) : ~c.gated
  <2>1. CASE Executable(st)
    <3>1. RunChain \in CandidateSet(st)
      BY <2>1 DEF CandidateSet
    <3> QED
      BY <3>1, CandidateIs
  <2>2. CASE ~Executable(st)
    <3>1. ExploresOn(st) \in CandidateSet(st)
      BY <2>2 DEF CandidateSet, ExploreNeeded
    <3> QED
      BY <3>1, CandidateIs
  <2> QED
    BY <2>1, <2>2
<1>8. S # {}
  BY <1>5, <1>7
<1>9. S \subseteq Nat /\ IsFiniteSet(S)
  BY <1>1, <1>3, PlacesOf
<1>10. Picked(q, S) # <<>> /\ \E m \in S : (\A j \in S : m <= j) /\ Head(Picked(q, S)) = q[m]
  BY <1>8, <1>9, HeadPicked
<1>11. PICK m \in S : (\A j \in S : m <= j) /\ Head(Picked(q, S)) = q[m]
  BY <1>10
<1>12. ASSUME NEW c \in CandidateSet(st), ~c.gated PROVE ~Ahead(c, Head(Picked(q, S)))
  <2> SUFFICES ASSUME Ahead(c, q[m]) PROVE FALSE
    BY <1>11
  <2>1. PICK i \in S : q[i] = c
    BY <1>5, <1>12
  <2>2. i \in DOMAIN q /\ m \in DOMAIN q
    BY <1>1
  <2>3. i < m
    BY <1>3, <2>1, <2>2
  <2>4. m <= i /\ m \in Nat /\ i \in Nat
    BY <1>9, <1>11
  <2> QED
    BY <2>3, <2>4
<1> QED
  BY <1>1, <1>4, <1>6, <1>10, <1>12

\* What O asks about is what the cockpit stars.
LEMMA OfferIsRight == OfferIsStarred
<1> SUFFICES ASSUME NEW st \in Situations
             PROVE  Offer(st) = Starred(st) /\ (Executable(st) /\ Weight(st) = 0 => Offer(st) = "run_chain")
  BY DEF OfferIsStarred
<1> DEFINE U == UngatedCandidates(st)
           h == Head(U)
<1>1. U # <<>> /\ InARow(U) /\ Range(U) = {c \in CandidateSet(st) : ~c.gated}
      /\ \A c \in CandidateSet(st) : ~c.gated => ~Ahead(c, h)
  BY FirstUngated
<1>2. Starred(st) = h.kind
  BY <1>1 DEF Starred
<1>3. Offer(st) = IF ~DockKnown(st) /\ \A c \in Range(U) : c.kind # "run_chain" THEN "explore" ELSE h.kind
  <2>1. ToSet(U) = Range(U)
    BY DEF ToSet, Range
  <2> QED
    BY <1>1, <2>1 DEF Offer
<1> HIDE DEF U
<1>4. h \in Range(U)
  BY <1>1, RowHead
<1> HIDE DEF h
<1>5. h \in CandidateSet(st) /\ ~h.gated
  BY <1>1, <1>4
<1>6. Offer(st) = Starred(st)
  <2>1. CASE ~DockKnown(st) /\ \A c \in Range(U) : c.kind # "run_chain"
    <3>1. h.kind # "run_chain"
      BY <1>4, <2>1
    <3>2. h = ExploresOn(st) \/ h = RunChain
      BY <1>5, <2>1 DEF CandidateSet
    <3> QED
      BY <1>2, <1>3, <2>1, <3>1, <3>2, CandidateIs
  <2>2. CASE ~(~DockKnown(st) /\ \A c \in Range(U) : c.kind # "run_chain")
    BY <1>2, <1>3, <2>2
  <2> QED
    BY <2>1, <2>2
<1>7. ASSUME Executable(st), Weight(st) = 0 PROVE h.kind = "run_chain"
  <2>1. RunChain \in CandidateSet(st) /\ ~RunChain.gated
    BY <1>7, CandidateIs DEF CandidateSet
  <2>2. ~Ahead(RunChain, h)
    BY <1>1, <2>1
  <2>3. h # Upgrades(st)
    <3>1. UpgradeGated(st)
      BY <1>7 DEF UpgradeGated
    <3> QED
      BY <1>5, <3>1, CandidateIs
  <2>4. h # ExploresOn(st)
    <3>1. Ahead(RunChain, ExploresOn(st))
      BY <1>7, CandidateIs DEF Ahead
    <3> QED
      BY <2>2, <3>1
  <2>5. h = RunChain
    BY <1>5, <2>3, <2>4 DEF CandidateSet
  <2> QED
    BY <2>5, CandidateIs
<1> QED
  BY <1>2, <1>6, <1>7

\* What the yard's prices are turned into is right: the file holds what the
\* listings say, the advice pays, the offer is the starred candidate, and what
\* is bought was covered.
THEOREM OutfitIsSound == OutfitSpec => []OutfitSound
<1>1. OutfitInv => quoted \in Quotes
  BY DEF OutfitInv
<1>2. OutfitInv => AdvicePays /\ OfferIsStarred
  BY <1>1, AdviceIsRight, OfferIsRight
<1>3. LatestListed /\ FileSound /\ AdvicePays /\ OfferIsStarred /\ FightersLast /\ PurchaseCovered => OutfitSound
  BY DEF OutfitSound
<1> QED
  BY <1>2, <1>3, OutfitInvariance, PricesHold, PTL
================================================================================

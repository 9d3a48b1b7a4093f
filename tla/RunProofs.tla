------------------------------- MODULE RunProofs -------------------------------
(***************************************************************************)
(* Proofs about the runs that type into the game on a promise made before  *)
(* they start, and about what goes between them: the loops, scripts and    *)
(* drivers, the login, the crawl, the wire's log and the ensures of several*)
(* windows.  Each section states the inductive invariant of one part, shows*)
(* that each of its actions keeps it, and closes with the theorems of that *)
(* part.                                                                   *)
(***************************************************************************)
EXTENDS Settle, Login, TradeRun, LoopPlayer, MenuMap, WireLog, SharedSession, ExploreRun, FiniteSetTheorems, SequenceTheorems, TLAPS

-----------------------------------------------------------------------------
(* A confirmed send *)

\* send_and_confirm has read the counter of the running wait; it has seen a
\* byte since the send.
SawByte == caller = "match pause" \/ caller = "idle pause" \/ caller = "next idle"
Waiting == caller = "matching" \/ caller = "first idle" \/ SawByte

\* Until a send goes out nothing is under way.  With nothing of an earlier send
\* under way every chunk is an answer, and so is every count past the one read
\* before the send; a wait that may yet confirm has seen one.
AllMine == \A i \in 1..Len(due) : due[i].mine = TRUE
Counted == caller # "idle" /\ rx > atSend => answered
CountersInv ==
  /\ rx \in Nat /\ atSend \in Nat /\ atCall \in Nat /\ rx >= atSend
  /\ Waiting => atCall >= atSend
  /\ SawByte => rx > atSend
ResultInv == result.confirmed => caller = "over" /\ rx > atSend
Shaped == profile = "positive_shape" => caller \notin {"first idle", "next idle", "idle pause"}
ConfirmInv ==
  /\ due \in Seq(Chunks)
  /\ caller = "idle" => due = <<>>
  /\ Shaped
  /\ CountersInv /\ ResultInv
  /\ ~crossed => AllMine /\ Counted

\* What the game has under way after a send is well-formed.
LEMMA UnderWay ==
  /\ \A stale \in Stale(MaxStale) : stale \in Seq(Chunks)
  /\ \A words \in Answers(MaxChunks) : words \in Seq(Chunks) /\ \A i \in 1..Len(words) : words[i].mine
<1>1. ASSUME NEW stale \in Stale(MaxStale) PROVE stale \in Seq(Chunks)
  <2>1. PICK k \in 0..MaxStale : stale \in [1..k -> {c \in Chunks : ~c.mine}]
    BY Zenon DEF Stale
  <2> QED
    BY <2>1, SettleAssumption
<1>2. ASSUME NEW words \in Answers(MaxChunks) PROVE words \in Seq(Chunks) /\ \A i \in 1..Len(words) : words[i].mine
  <2>1. PICK k \in 0..MaxChunks : words \in [1..k -> {c \in Chunks : c.mine}]
    BY Zenon DEF Answers
  <2> QED
    BY <2>1, SettleAssumption
<1> QED
  BY <1>1, <1>2

\* Nothing is confirmed before the first send.
LEMMA ConfirmBegins == SettleInit => ConfirmInv
  BY DEF SettleInit, ConfirmInv, CountersInv, ResultInv, AllMine, Counted, Shaped, NoResult, Waiting, SawByte

\* A step that counts nothing and starts no wait keeps the counters.
LEMMA CountersStay ==
  ASSUME CountersInv, UNCHANGED <<rx, atSend, atCall>>, Waiting' => Waiting, SawByte' => SawByte
  PROVE  CountersInv'
  BY DEF CountersInv

\* A step of the waiting caller that leaves the game alone keeps the invariant.
LEMMA CallerMoves ==
  ASSUME ConfirmInv, UNCHANGED <<due, rx, atSend, crossed, answered>>, CountersInv', ResultInv', Shaped',
         caller # "idle", caller' # "idle"
  PROVE  ConfirmInv'
  BY DEF ConfirmInv, Counted, AllMine

\* So does the end of a wait, confirmed or not.
LEMMA ConfirmEnds ==
  ASSUME ConfirmInv, caller # "idle", NEW why, NEW yes, Returns(why, yes), yes => SawByte
  PROVE  ConfirmInv'
<1>1. caller' = "over" /\ result'.confirmed = yes /\ UNCHANGED <<due, rx, atSend, atCall, crossed, answered, profile>>
  BY DEF Returns, waitVars, gameSide
<1>2. ~Waiting' /\ ~SawByte' /\ Shaped'
  BY <1>1 DEF Waiting, SawByte, Shaped
<1>3. CountersInv /\ CountersInv'
  BY <1>1, <1>2, CountersStay DEF ConfirmInv
<1>4. yes => rx' > atSend'
  BY <1>1, <1>3 DEF CountersInv
<1>5. ResultInv'
  BY <1>1, <1>4 DEF ResultInv
<1> QED
  BY <1>1, <1>2, <1>3, <1>5, CallerMoves

\* A step from one wait to another, which confirms nothing.
LEMMA ConfirmWaits ==
  ASSUME ConfirmInv, caller # "idle", caller' # "idle", caller # "over",
         UNCHANGED <<due, rx, atSend, atCall, crossed, answered, result>>,
         Waiting' => Waiting, SawByte' => SawByte \/ rx > atSend, Shaped'
  PROVE  ConfirmInv'
<1>1. CountersInv'
  BY DEF ConfirmInv, CountersInv
<1>2. ResultInv'
  BY DEF ConfirmInv, ResultInv
<1> QED
  BY <1>1, <1>2, CallerMoves

\* Every step of a send, of the wait after it and of the game keeps the invariant.
LEMMA ConfirmKept == ConfirmInv /\ [SettleNext]_settleVars => ConfirmInv'
<1> SUFFICES ASSUME ConfirmInv, [SettleNext]_settleVars PROVE ConfirmInv'
  OBVIOUS
<1>a. due \in Seq(Chunks) /\ (caller = "idle" => due = <<>>) /\ (~crossed => AllMine /\ Counted)
  BY DEF ConfirmInv
<1>b. CountersInv /\ ResultInv /\ Shaped
  BY DEF ConfirmInv
<1>c. rx \in Nat /\ atSend \in Nat /\ atCall \in Nat /\ rx >= atSend /\ (SawByte => rx > atSend)
  BY <1>b DEF CountersInv
<1>1. ASSUME NEW p \in Profiles, Calls(p) PROVE ConfirmInv'
  <2>1. PICK stale \in Stale(MaxStale) : due' = stale /\ crossed' = (stale # <<>>)
    BY <1>1 DEF Calls
  <2>2. due' \in Seq(Chunks) /\ (~crossed' => AllMine')
    <3>1. stale \in Seq(Chunks)
      BY UnderWay
    <3>2. due' = <<>> => AllMine'
      BY ONLY DEF AllMine
    <3> QED
      BY <2>1, <3>1, <3>2
  <2>3. caller = "idle" /\ caller' = "sending" /\ atSend' = rx /\ UNCHANGED <<rx, atCall, result>>
    BY <1>1 DEF Calls
  <2>4. ~Waiting' /\ ~SawByte' /\ Shaped'
    BY <2>3 DEF Waiting, SawByte, Shaped
  <2>5. CountersInv'
    BY <1>c, <2>3, <2>4 DEF CountersInv
  <2>6. ResultInv' /\ Counted'
    BY <1>b, <1>c, <2>3 DEF ResultInv, Counted
  <2> QED
    BY <2>2, <2>3, <2>4, <2>5, <2>6 DEF ConfirmInv
<1>2. CASE ChunkArrives
  <2>1. due' = Tail(due) /\ (answered' <=> answered \/ Head(due).mine) /\ due # <<>>
    BY <1>2 DEF ChunkArrives
  <2>2. UNCHANGED <<caller, atSend, atCall, crossed, result, profile>> /\ rx' = rx + 1 /\ caller # "idle"
    BY <1>a, <1>2 DEF ChunkArrives, waitVars
  <2>3. Waiting' = Waiting /\ SawByte' = SawByte /\ Shaped' = Shaped
    BY <2>2 DEF Waiting, SawByte, Shaped
  <2>4. CountersInv'
    BY <1>b, <2>2, <2>3 DEF CountersInv
  <2>5. ResultInv'
    BY <1>b, <1>c, <2>2 DEF ResultInv
  <2>6. due' \in Seq(Chunks) /\ (AllMine => AllMine' /\ answered')
    <3>1. Head(due) = due[1] /\ Len(due) \in Nat \ {0} /\ Tail(due) \in Seq(Chunks) /\ Len(Tail(due)) = Len(due) - 1
          /\ \A i \in 1..Len(Tail(due)) : Tail(due)[i] = due[i + 1]
      BY <1>a, <2>1
    <3>2. AllMine => Head(due).mine = TRUE
      BY <3>1 DEF AllMine
    <3>3. AllMine => AllMine'
      BY ONLY <3>1, <2>1 DEF AllMine
    <3> QED
      BY <2>1, <3>1, <3>2, <3>3
  <2> QED
    BY <1>a, <1>b, <2>2, <2>3, <2>4, <2>5, <2>6 DEF ConfirmInv, Counted
<1>3. CASE Sends
  <2>1. CASE Returns("raised", FALSE)
    BY <1>3, <2>1, ConfirmEnds DEF Sends
  <2>2. CASE ~Returns("raised", FALSE)
    <3>1. PICK words \in Answers(MaxChunks) : due' = due \o words
      BY <1>3, <2>2 DEF Sends
    <3>2. words \in Seq(Chunks) /\ \A i \in 1..Len(words) : words[i] \in Chunks /\ words[i].mine
      BY UnderWay
    <3>3. \A i \in 1..Len(words) : words[i].mine = TRUE
      BY <3>2 DEF Chunks
    <3>4. due' \in Seq(Chunks) /\ (AllMine => AllMine')
      BY ONLY <1>a, <3>1, <3>2, <3>3 DEF AllMine
    <3>5. caller = "sending" /\ caller' = "sent" /\ UNCHANGED <<rx, atSend, atCall, result, answered, crossed, profile>>
      BY <1>3, <2>2 DEF Sends, waitVars
    <3>6. ~Waiting' /\ ~SawByte' /\ Shaped'
      BY <3>5 DEF Waiting, SawByte, Shaped
    <3>7. CountersInv'
      BY <1>b, <3>5, <3>6, CountersStay
    <3>8. ResultInv' /\ (Counted => Counted')
      BY <1>b, <3>5 DEF ResultInv, Counted
    <3> QED
      BY <1>a, <3>4, <3>5, <3>6, <3>7, <3>8 DEF ConfirmInv
  <2> QED
    BY <2>1, <2>2
<1>4. CASE WaitBegins
  <2>1. CASE Returns("timeout", FALSE)
    BY <1>4, <2>1, ConfirmEnds DEF WaitBegins
  <2>2. CASE ~Returns("timeout", FALSE)
    <3>1. caller = "sent" /\ atCall' = rx /\ caller' = (IF profile = "positive_shape" THEN "matching" ELSE "first idle")
          /\ UNCHANGED <<profile, due, rx, atSend, crossed, answered, result>>
      BY <1>4, <2>2 DEF WaitBegins, gameSide
    <3>2. ~SawByte' /\ Shaped' /\ caller' # "idle"
      BY <3>1 DEF SawByte, Shaped
    <3>3. CountersInv'
      BY <1>c, <3>1, <3>2 DEF CountersInv
    <3>4. ResultInv'
      BY <1>b, <3>1 DEF ResultInv
    <3> QED
      BY <3>1, <3>2, <3>3, <3>4, CallerMoves
  <2> QED
    BY <2>1, <2>2
<1>5. CASE PollsPrompt
  <2>1. CASE Returns("timeout", FALSE)
    BY <1>5, <2>1, ConfirmEnds DEF PollsPrompt
  <2>2. CASE GoesTo("match pause") /\ rx > atSend
    <3>1. caller = "matching" /\ caller' = "match pause" /\ profile' = profile
          /\ UNCHANGED <<due, rx, atSend, atCall, crossed, answered, result>>
      BY <1>5, <2>2 DEF PollsPrompt, GoesTo, waitVars, gameSide
    <3>2. Waiting /\ Shaped'
      BY <3>1 DEF Waiting, Shaped
    <3> QED
      BY <2>2, <3>1, <3>2, ConfirmWaits
  <2>3. CASE GoesTo("sent")
    <3>1. caller = "matching" /\ caller' = "sent" /\ profile' = profile
          /\ UNCHANGED <<due, rx, atSend, atCall, crossed, answered, result>>
      BY <1>5, <2>3 DEF PollsPrompt, GoesTo, waitVars, gameSide
    <3>2. ~Waiting' /\ ~SawByte' /\ Shaped'
      BY <3>1 DEF Waiting, SawByte, Shaped
    <3> QED
      BY <3>1, <3>2, ConfirmWaits
  <2> QED
    BY <1>5, <2>1, <2>2, <2>3 DEF PollsPrompt
<1>6. CASE RematchesPrompt
  <2>1. caller = "match pause" /\ Returns("prompt", match) /\ SawByte
    BY <1>6 DEF RematchesPrompt, SawByte
  <2> QED
    BY <2>1, ConfirmEnds
<1>7. CASE PollsIdle
  <2>1. CASE Returns("timeout", FALSE)
    BY <1>7, <2>1, ConfirmEnds DEF PollsIdle
  <2>2. CASE ~Returns("timeout", FALSE)
    <3>1. ((caller = "first idle" /\ rx > atCall) \/ caller = "next idle") /\ caller' = "idle pause" /\ profile' = profile
          /\ UNCHANGED <<due, rx, atSend, atCall, crossed, answered, result>>
      BY <1>7, <2>2 DEF PollsIdle, gameSide
    <3>2. Waiting /\ (caller = "next idle" => SawByte) /\ Shaped'
      BY <1>b, <3>1 DEF Waiting, SawByte, Shaped
    <3>3. atCall >= atSend
      BY <1>b, <3>2 DEF CountersInv
    <3>4. SawByte \/ rx > atSend
      <4>1. CASE caller = "next idle"
        BY <3>2, <4>1
      <4>2. CASE rx > atCall
        BY ONLY <1>c, <3>3, <4>2
      <4> QED
        BY <3>1, <4>1, <4>2
    <3>5. caller # "idle" /\ caller' # "idle" /\ caller # "over"
      BY <3>1
    <3> QED
      BY <3>1, <3>2, <3>4, <3>5, ConfirmWaits
  <2> QED
    BY <2>1, <2>2
<1>8. CASE ChecksIdle
  <2>0. SawByte /\ Waiting /\ caller = "idle pause"
    BY <1>8 DEF ChecksIdle, SawByte, Waiting
  <2>1. ASSUME NEW why \in {"idle", "timeout"}, NEW yes \in BOOLEAN, Returns(why, yes) PROVE ConfirmInv'
    BY <2>0, <2>1, ConfirmEnds
  <2>2. CASE GoesTo("next idle") /\ profile = "warp_unstable"
    <3>1. caller' = "next idle" /\ profile' = profile
          /\ UNCHANGED <<due, rx, atSend, atCall, crossed, answered, result>>
      BY <2>2 DEF GoesTo, waitVars, gameSide
    <3>2. Shaped'
      BY <2>2, <3>1 DEF Shaped
    <3> QED
      BY <2>0, <3>1, <3>2, ConfirmWaits
  <2> QED
    BY <1>8, <2>1, <2>2 DEF ChecksIdle
<1>9. CASE DebouncePasses \/ TimeoutPasses \/ UNCHANGED settleVars
  <2>1. UNCHANGED <<profile, caller, due, rx, atSend, atCall, result, crossed, answered>>
    BY <1>9 DEF settleVars, DebouncePasses, TimeoutPasses, waitVars, gameSide
  <2>2. Waiting' = Waiting /\ SawByte' = SawByte /\ Shaped' = Shaped
    BY <2>1 DEF Waiting, SawByte, Shaped
  <2>3. CountersInv'
    BY <1>b, <2>1, <2>2, CountersStay
  <2>4. ResultInv' /\ (Counted => Counted') /\ (AllMine => AllMine')
    BY <1>b, <2>1 DEF ResultInv, Counted, AllMine
  <2> QED
    BY <1>a, <1>b, <2>1, <2>2, <2>3, <2>4 DEF ConfirmInv
<1> QED
  BY <1>1, <1>2, <1>3, <1>4, <1>5, <1>6, <1>7, <1>8, <1>9 DEF SettleNext, CallerStep

\* A send is confirmed only when the game has begun to answer it
\* (ConfirmedIsAnswered), however many chunks it may send.
THEOREM ConfirmsAnswers == SettleSpec => []ConfirmedIsAnswered
<1>1. ConfirmInv => ConfirmedIsAnswered
  BY DEF ConfirmInv, ConfirmedIsAnswered, ResultInv, Counted
<1> QED
  BY <1>1, ConfirmBegins, ConfirmKept, PTL DEF SettleSpec

\* The caller is told of a match only while the prompt is still on the screen
\* (ConfirmedStillMatches, which NothingTypedBlind checks).
THEOREM MatchesStill == SettleSpec => [][ConfirmedStillMatches]_settleVars
<1>1. ConfirmInv /\ [SettleNext]_settleVars => [ConfirmedStillMatches]_settleVars
  <2> SUFFICES ASSUME ConfirmInv, SettleNext, result' # result, result'.confirmed, profile = "positive_shape" PROVE match
    BY DEF ConfirmedStillMatches, settleVars
  <2>1. Shaped
    BY DEF ConfirmInv
  <2>2. ~ChecksIdle
    BY <2>1 DEF Shaped, ChecksIdle
  <2>3. \A why : ~Returns(why, FALSE)
    BY DEF Returns
  <2>4. RematchesPrompt
    BY <2>2, <2>3 DEF SettleNext, CallerStep, Calls, ChunkArrives, DebouncePasses, TimeoutPasses, Sends, WaitBegins,
       PollsPrompt, PollsIdle, GoesTo
  <2> QED
    BY <2>4 DEF RematchesPrompt, Returns
<1> QED
  BY <1>1, ConfirmBegins, ConfirmKept, PTL DEF SettleSpec

\* Every variable of the wait has its type.
LEMMA SettleTypesKept ==
  ASSUME SettleTypeOK, ConfirmInv', [SettleNext]_settleVars
  PROVE  SettleTypeOK'
<1>1. due' \in Seq(Chunks) /\ rx' \in Nat /\ atSend' \in Nat /\ atCall' \in Nat
  BY DEF ConfirmInv, CountersInv
<1>2. /\ profile \in Profiles /\ rx \in Nat /\ atIdle \in Nat /\ due \in Seq(Chunks)
      /\ match \in BOOLEAN /\ quiet \in BOOLEAN /\ expired \in BOOLEAN /\ answered \in BOOLEAN /\ crossed \in BOOLEAN
      /\ result.confirmed \in BOOLEAN
      /\ caller \in {"idle", "sending", "sent", "matching", "match pause", "first idle", "next idle", "idle pause", "over"}
  BY DEF SettleTypeOK
<1> DEFINE Rest == /\ profile' \in Profiles /\ atIdle' \in Nat
                   /\ match' \in BOOLEAN /\ quiet' \in BOOLEAN /\ expired' \in BOOLEAN /\ answered' \in BOOLEAN /\ crossed' \in BOOLEAN
                   /\ result'.confirmed \in BOOLEAN
                   /\ caller' \in {"idle", "sending", "sent", "matching", "match pause", "first idle", "next idle", "idle pause", "over"}
<1> SUFFICES Rest
  BY <1>1 DEF SettleTypeOK
<1>3. ASSUME NEW p \in Profiles, Calls(p) PROVE Rest
  BY <1>2, <1>3 DEF Calls
<1>4. CASE ChunkArrives
  <2>1. Head(due) \in Chunks
    <3>1. due \in Seq(Chunks) /\ due # <<>>
      BY <1>2, <1>4 DEF ChunkArrives
    <3> HIDE DEF Rest
    <3> QED BY ONLY <3>1
  <2>2. Head(due).matches \in BOOLEAN /\ Head(due).mine \in BOOLEAN
    BY <2>1 DEF Chunks
  <2> QED BY <1>2, <1>4, <2>2 DEF ChunkArrives, waitVars
<1>5. CASE DebouncePasses \/ TimeoutPasses \/ UNCHANGED settleVars
  BY <1>2, <1>5 DEF DebouncePasses, TimeoutPasses, settleVars, waitVars, gameSide
<1>6. ASSUME NEW why, NEW yes \in BOOLEAN, Returns(why, yes) PROVE Rest
  BY <1>2, <1>6 DEF Returns, waitVars, gameSide
<1>7. ASSUME NEW goal \in {"sent", "match pause", "next idle"}, GoesTo(goal) PROVE Rest
  BY <1>2, <1>7 DEF GoesTo, waitVars, gameSide
<1> HIDE DEF Rest
<1>8. CASE Sends
  <2>1. CASE Returns("raised", FALSE)
    BY <1>6, <2>1
  <2>2. CASE ~Returns("raised", FALSE)
    BY <1>2, <1>8, <2>2 DEF Sends, waitVars, Rest
  <2> QED BY <2>1, <2>2
<1>9. CASE WaitBegins
  <2>1. CASE Returns("timeout", FALSE)
    BY <1>6, <2>1
  <2>2. CASE ~Returns("timeout", FALSE)
    BY <1>2, <1>9, <2>2 DEF WaitBegins, gameSide, Rest
  <2> QED BY <2>1, <2>2
<1>10. CASE PollsPrompt
  BY <1>6, <1>7, <1>10 DEF PollsPrompt
<1>11. CASE RematchesPrompt
  BY <1>2, <1>6, <1>11 DEF RematchesPrompt
<1>12. CASE PollsIdle
  <2>1. CASE Returns("timeout", FALSE)
    BY <1>6, <2>1
  <2>2. CASE ~Returns("timeout", FALSE)
    BY <1>2, <1>12, <2>2 DEF PollsIdle, gameSide, Rest
  <2> QED BY <2>1, <2>2
<1>13. CASE ChecksIdle
  BY <1>6, <1>7, <1>13 DEF ChecksIdle
<1> QED BY <1>3, <1>4, <1>5, <1>8, <1>9, <1>10, <1>11, <1>12, <1>13 DEF SettleNext, CallerStep

\* SettleTypeOK, whatever the game sends.
LEMMA SettleTyped == SettleSpec => []SettleTypeOK
<1>1. SettleInit => SettleTypeOK
  <2>1. <<>> \in Seq(Chunks)
    OBVIOUS
  <2>2. NoResult.confirmed = FALSE /\ "stable_idle" \in Profiles
    BY DEF NoResult, Profiles
  <2> SUFFICES ASSUME SettleInit PROVE SettleTypeOK
    OBVIOUS
  <2>3. /\ profile \in Profiles /\ rx \in Nat /\ atSend \in Nat /\ atCall \in Nat /\ atIdle \in Nat
        /\ caller = "idle" /\ due = <<>> /\ result = NoResult
    BY <2>2 DEF SettleInit
  <2>4. match \in BOOLEAN /\ quiet \in BOOLEAN /\ expired \in BOOLEAN /\ answered \in BOOLEAN /\ crossed \in BOOLEAN
    BY DEF SettleInit
  <2>5. due \in Seq(Chunks) /\ result.confirmed \in BOOLEAN
    BY <2>1, <2>2, <2>3
  <2> QED BY <2>3, <2>4, <2>5 DEF SettleTypeOK
<1> QED BY <1>1, SettleTypesKept, ConfirmBegins, ConfirmKept, PTL DEF SettleSpec

-----------------------------------------------------------------------------
(* A login *)

Memories == [registering : {"unknown", "no", "yes"}, password : BOOLEAN, passwords : Nat, aliases : Nat,
             outer : BOOLEAN]

\* A returning account's password is marked as used when it is decided, before
\* it is typed; one that is being sent for a new account is stored already.
LoginTyped ==
  /\ memory \in Memories
  /\ typed \in [returning : Nat, registering : Nat]
OnceInv ==
  /\ ~memory.password => typed.returning = 0
  /\ typed.returning <= 1
  /\ login = "send" /\ input.secret /\ Returning => typed.returning = 0
  /\ login = "send" /\ input.secret => memory.password
StoredInv ==
  /\ login = "idle" => typed.registering = 0
  /\ typed.registering > 0 => stored
  /\ login = "send" /\ input.secret /\ ~Returning => stored
LoginInv == LoginTyped /\ OnceInv /\ StoredInv

\* What a login remembers after a send or a registration is well-formed.
LEMMA RememberedType ==
  ASSUME memory \in Memories, NEW d
  PROVE  /\ Remembered(d) \in Memories
         /\ d # "password" => Remembered(d).password = memory.password
         /\ d = "password" => (Remembered(d).registering # "yes" <=> Returning)
<1>1. /\ memory.registering \in {"unknown", "no", "yes"} /\ memory.password \in BOOLEAN
      /\ memory.passwords \in Nat /\ memory.aliases \in Nat /\ memory.outer \in BOOLEAN
  BY DEF Memories
<1>2. CASE d = "handle"
  BY <1>1, <1>2 DEF Remembered, Memories
<1>3. CASE d = "alias"
  <2> DEFINE n == memory.aliases + 1
  <2>1. Remembered(d) = [memory EXCEPT !.registering = "yes", !.aliases = n]
    BY <1>3 DEF Remembered
  <2>2. n \in Nat
    BY <1>1
  <2> HIDE DEF n
  <2> QED
    BY <1>1, <1>3, <2>1, <2>2 DEF Memories
<1>4. CASE d = "register"
  BY <1>1, <1>4 DEF Remembered, Memories
<1>5. CASE d = "password"
  <2> DEFINE n == memory.passwords + 1
             regs == IF memory.registering = "unknown" THEN "no" ELSE memory.registering
  <2>1. Remembered(d) = [memory EXCEPT !.password = TRUE, !.passwords = n, !.registering = regs]
    BY <1>5 DEF Remembered
  <2>2. n \in Nat /\ regs \in {"unknown", "no", "yes"} /\ (regs # "yes" <=> Returning)
    BY <1>1 DEF Returning
  <2> HIDE DEF n, regs
  <2> QED
    BY <1>1, <1>5, <2>1, <2>2 DEF Memories
<1>6. CASE d = "wait"
  BY <1>1, <1>6 DEF Remembered, Memories
<1>7. CASE d \notin {"handle", "alias", "register", "password", "wait"}
  BY <1>7 DEF Remembered
<1> QED
  BY <1>2, <1>3, <1>4, <1>5, <1>6, <1>7

\* A login begins with nothing typed and nothing stored by it.
LEMMA LoginStarts == LoginInit => LoginInv
  BY DEF LoginInit, LoginInv, LoginTyped, OnceInv, StoredInv, Fresh, NoInput, Memories, Returning

\* A step that types nothing and decides nothing.
LEMMA LoginIdles ==
  ASSUME LoginInv, UNCHANGED <<memory, typed, stored>>, login' # "send" \/ UNCHANGED <<login, input>>, login' # "idle" \/ login = "idle"
  PROVE  LoginInv'
  BY DEF LoginInv, LoginTyped, OnceInv, StoredInv, Returning

\* Every step of the login machine keeps the invariant.
LEMMA LoginKept == LoginInv /\ [LoginNext]_loginVars => LoginInv'
<1> SUFFICES ASSUME LoginInv, [LoginNext]_loginVars PROVE LoginInv'
  OBVIOUS
<1>1. CASE LoginBegins
  <2>1. UNCHANGED <<memory, typed, input>> /\ login = "idle" /\ login' = "look"
    BY <1>1 DEF LoginBegins
  <2> QED
    BY <2>1 DEF LoginInv, LoginTyped, OnceInv, StoredInv, Returning
<1>2. CASE Arrives
  BY <1>2, LoginIdles DEF Arrives
<1>3. ASSUME NEW why, Fails(why), UNCHANGED memory PROVE LoginInv'
  BY <1>3, LoginIdles DEF Fails
<1>4. CASE Decides
  <2>1. PICK d \in (IF Decision = "fight" THEN {"answer", "fight_halt"} ELSE {Decision}) :
       \/ d \in Errors /\ Fails(d) /\ UNCHANGED memory
       \/ /\ d \notin Errors \cup {"wait"}
          /\ login' = "send"
          /\ input' = [kind |-> d, secret |-> d = "password"]
          /\ memory' = Remembered(d) /\ SavesFirst(d)
          /\ UNCHANGED <<register, shown, round, stagnant, signature, typed, error>>
       \/ /\ d = "wait" /\ login' = "wait" /\ memory' = Remembered(d)
          /\ UNCHANGED <<register, shown, round, stagnant, signature, input, stored, typed, error>>
    BY <1>4, Zenon DEF Decides
  <2>2. CASE d \in Errors /\ Fails(d) /\ UNCHANGED memory
    BY <1>3, <2>2
  <2>3. memory \in Memories /\ LoginTyped /\ OnceInv /\ StoredInv
    BY DEF LoginInv, LoginTyped
  <2>4. CASE d = "wait" /\ login' = "wait" /\ memory' = Remembered(d) /\ UNCHANGED <<input, stored, typed>>
    BY <2>3, <2>4, RememberedType DEF LoginInv, LoginTyped, OnceInv, StoredInv
  <2>5. CASE /\ login' = "send"
             /\ input' = [kind |-> d, secret |-> d = "password"]
             /\ memory' = Remembered(d) /\ SavesFirst(d)
             /\ UNCHANGED typed
    <3>1. memory' \in Memories /\ (input'.secret <=> d = "password")
      BY <2>3, <2>5, RememberedType
    <3>2. d = "password" => typed.returning = 0 \/ ~Returning
      <4>1. SUFFICES ASSUME d = "password", Returning PROVE ~memory.password
        BY <2>3 DEF OnceInv
      <4>2. Decision = "password"
        BY <2>1, <4>1
      <4> QED
        BY <4>1, <4>2 DEF Decision
    <3>3. d # "password" => memory'.password = memory.password
      BY <2>3, <2>5, RememberedType
    <3>4. d = "password" => (Returning' <=> Returning)
      BY <2>3, <2>5, RememberedType DEF Returning
    <3>5. d = "password" => memory'.password
      BY <2>3, <2>5 DEF Remembered, Memories
    <3>6. OnceInv'
      BY <2>3, <2>5, <3>1, <3>2, <3>3, <3>4, <3>5 DEF OnceInv
    <3>7. StoredInv'
      BY <2>3, <2>5, <3>1, <3>4 DEF StoredInv, SavesFirst
    <3> QED
      BY <2>3, <2>5, <3>1, <3>6, <3>7 DEF LoginInv, LoginTyped
  <2> QED
    BY <2>1, <2>2, <2>4, <2>5
<1>5. CASE Waits
  <2>1. ASSUME NEW why, GivesUp(why) PROVE LoginInv'
    BY <1>3, <2>1 DEF GivesUp
  <2> QED
    BY <1>5, <2>1, LoginIdles DEF Waits
<1>6. CASE SendRaises \/ Exhausted
  BY <1>3, <1>6 DEF SendRaises, Exhausted, GivesUp
<1>7. CASE Confirmed \/ Unconfirmed
  <2>1. Types /\ login' # "send" /\ login' # "idle" /\ login = "send"
    BY <1>7 DEF Confirmed, Unconfirmed, Types
  <2>2. UNCHANGED <<memory, stored>> /\ LoginTyped /\ OnceInv /\ StoredInv
    BY <2>1 DEF Types, LoginInv
  <2>3. CASE ~input.secret
    BY <2>1, <2>2, <2>3 DEF Types, LoginInv, LoginTyped, OnceInv, StoredInv
  <2>4. CASE input.secret /\ Returning
    <3>1. typed' = [typed EXCEPT !.returning = @ + 1] /\ typed.returning = 0 /\ typed \in [returning : Nat, registering : Nat]
      BY <2>1, <2>2, <2>4 DEF Types, LoginTyped, OnceInv
    <3>2. typed'.returning = 1 /\ typed'.registering = typed.registering /\ typed' \in [returning : Nat, registering : Nat]
      BY <3>1
    <3>3. memory.password
      BY <2>1, <2>2, <2>4 DEF OnceInv
    <3> QED
      BY <2>1, <2>2, <3>2, <3>3 DEF LoginInv, LoginTyped, OnceInv, StoredInv
  <2>5. CASE input.secret /\ ~Returning
    <3>1. typed' = [typed EXCEPT !.registering = @ + 1] /\ stored /\ typed \in [returning : Nat, registering : Nat]
      BY <2>1, <2>2, <2>5 DEF Types, LoginTyped, StoredInv
    <3>2. typed'.returning = typed.returning /\ typed' \in [returning : Nat, registering : Nat]
      BY <3>1
    <3> QED
      BY <2>1, <2>2, <3>1, <3>2 DEF LoginInv, LoginTyped, OnceInv, StoredInv
  <2> QED
    BY <2>3, <2>4, <2>5
<1>8. CASE UNCHANGED loginVars
  BY <1>8, LoginIdles DEF loginVars
<1> QED
  BY <1>1, <1>2, <1>4, <1>5, <1>6, <1>7, <1>8 DEF LoginNext, LoginRound

\* A returning account's password is typed at most once and a new account's
\* password is stored before it is typed (PasswordsKept), whatever screens the
\* game shows and for however many rounds.
THEOREM PasswordsStay == LoginSpec => []PasswordsKept
<1>1. LoginInv => PasswordsKept
  BY DEF LoginInv, OnceInv, StoredInv, PasswordsKept, ReturningPasswordOnce, TypedPasswordIsStored
<1> QED
  BY <1>1, LoginStarts, LoginKept, PTL DEF LoginSpec

\* Past the game menu the session knows that its letter was answered, and a
\* letter on its way was decided on before that.
LetterInv ==
  /\ letter \in [sent : BOOLEAN, answered : BOOLEAN] /\ beyond \in BOOLEAN
  /\ beyond => letter.answered
  /\ login = "send" /\ input.kind = "letter" => ~beyond

\* The head of a round: the flags and what was seen move together, and a letter
\* is decided on only when they say that it is due.
LEMMA RoundHead ==
  ASSUME LetterInv, letter' = LetterNow, SeenBeyond
  PROVE  /\ letter' \in [sent : BOOLEAN, answered : BOOLEAN] /\ beyond' \in BOOLEAN
         /\ beyond' => letter'.answered
<1> DEFINE dueAgain == shown \in AnyMenus /\ letter.answered /\ stagnant >= 1
           rearmed == IF dueAgain THEN [sent |-> FALSE, answered |-> FALSE] ELSE letter
<1>1. rearmed \in [sent : BOOLEAN, answered : BOOLEAN]
  BY DEF LetterInv
<1>2. letter' = [rearmed EXCEPT !.answered = rearmed.answered \/ (rearmed.sent /\ shown \in PastGameSelect)]
  BY DEF LetterNow
<1>3. letter'.answered <=> rearmed.answered \/ (rearmed.sent /\ shown \in PastGameSelect)
  BY <1>1, <1>2
<1>4. letter' \in [sent : BOOLEAN, answered : BOOLEAN]
  BY <1>1, <1>2
<1>5. beyond' \in BOOLEAN
  BY DEF SeenBeyond
<1>6. beyond' => ~(shown \in AnyMenus /\ stagnant >= 1) /\ (beyond \/ (letter.sent /\ shown \in PastGameSelect))
  BY DEF SeenBeyond
<1>7. ASSUME beyond' PROVE rearmed = letter
  BY <1>6, <1>7
<1> QED
  BY <1>3, <1>4, <1>5, <1>6, <1>7 DEF LetterInv

\* Every round keeps the flags in step with what was seen.
LEMMA LetterKept == LetterInv /\ [LoginNext]_loginVars => LetterInv'
<1> SUFFICES ASSUME LetterInv, [LoginNext]_loginVars PROVE LetterInv'
  OBVIOUS
<1>1. CASE LoginBegins
  <2>1. /\ letter' \in [sent : BOOLEAN, answered : BOOLEAN] /\ beyond' = letter'.answered /\ login' = "look"
    BY <1>1 DEF LoginBegins
  <2>2. letter'.answered \in BOOLEAN
    BY <2>1
  <2> QED
    BY <2>1, <2>2 DEF LetterInv
<1>2. CASE Arrives
  <2>1. letter' = LetterNow /\ SeenBeyond /\ login' = "in"
    BY <1>2 DEF Arrives
  <2> QED
    BY <2>1, RoundHead DEF LetterInv
<1>3. CASE Decides
  <2>1. letter' = LetterNow /\ SeenBeyond
    BY <1>3 DEF Decides
  <2>2. ASSUME login' = "send", input'.kind = "letter" PROVE ~beyond'
    <3>1. PICK d \in (IF Decision = "fight" THEN {"answer", "fight_halt"} ELSE {Decision}) :
             input' = [kind |-> d, secret |-> d = "password"] \/ login' \in {"failed", "wait"}
      BY <1>3 DEF Decides, Fails
    <3>2. d = "letter"
      BY <2>2, <3>1
    <3>3. Decision = "letter"
      BY <3>1, <3>2
    <3>4. ~LetterNow.answered
      BY <3>3 DEF Decision, GameMenus, LoginScreens
    <3> QED
      BY <2>1, <3>4, RoundHead
  <2> QED
    BY <2>1, <2>2, RoundHead DEF LetterInv
<1>4. CASE Waits
  <2>1. UNCHANGED <<letter, beyond>> /\ login' \in {"look", "failed"}
    BY <1>4 DEF Waits, GivesUp, Fails
  <2> QED
    BY <2>1 DEF LetterInv
<1>5. CASE SendRaises \/ Exhausted
  <2>1. UNCHANGED <<letter, beyond>> /\ login' = "failed"
    BY <1>5 DEF SendRaises, Exhausted, GivesUp, Fails
  <2> QED
    BY <2>1 DEF LetterInv
<1>6. CASE Confirmed \/ Unconfirmed
  <2>1. Types /\ login' \in {"look", "failed"}
    BY <1>6 DEF Confirmed, Unconfirmed
  <2>2. letter' = [letter EXCEPT !.sent = letter.sent \/ shown \in GameMenus] /\ beyond' = (beyond /\ input.kind # "letter")
    BY <2>1 DEF Types
  <2>3. letter' \in [sent : BOOLEAN, answered : BOOLEAN] /\ letter'.answered = letter.answered
    BY <2>2 DEF LetterInv
  <2> QED
    BY <2>1, <2>2, <2>3 DEF LetterInv
<1>7. CASE UNCHANGED loginVars
  <2>1. UNCHANGED <<letter, beyond, login, input>>
    BY <1>7 DEF loginVars
  <2> QED
    BY <2>1 DEF LetterInv
<1> QED
  BY <1>1, <1>2, <1>3, <1>4, <1>5, <1>6, <1>7 DEF LoginNext, LoginRound

\* The game letter is not typed again at a single stale repaint of the menu,
\* whatever screens come in whatever order (LetterNotRepeated).
THEOREM LetterOnce == LoginSpec => [][LetterNotRepeated]_loginVars
<1>1. LoginInit => LetterInv
  <2> SUFFICES ASSUME LoginInit PROVE LetterInv
    OBVIOUS
  <2>1. login = "idle" /\ letter = [sent |-> FALSE, answered |-> FALSE] /\ beyond = FALSE
    BY DEF LoginInit
  <2> QED
    BY <2>1 DEF LetterInv
<1>2. LetterInv => LetterNotRepeated
  BY DEF LetterInv, LetterNotRepeated, Types
<1> QED
  BY <1>1, <1>2, LetterKept, PTL DEF LoginSpec

\* A round that has something to send or to wait for is one of MaxSteps; a login
\* that goes on has not met the same screen too often; the first password typed
\* is remembered.
LoginCounts ==
  /\ login \in {"wait", "send"} => round < MaxSteps
  /\ login # "failed" => stagnant < StagnantLimit
  /\ ~memory.password => memory.passwords = 0
LoginTypes ==
  /\ login \in {"idle", "look", "wait", "send", "in", "failed"}
  /\ register \in BOOLEAN /\ shown \in LoginScreens /\ round \in 0..MaxSteps /\ stagnant \in 0..StagnantLimit
  /\ memory \in [registering : {"unknown", "no", "yes"}, password : BOOLEAN,
                 passwords : 0..(MaxRetries + 1), aliases : 0..MaxRetries, outer : BOOLEAN]
  /\ letter.sent \in BOOLEAN /\ letter.answered \in BOOLEAN /\ letter \in [sent : BOOLEAN, answered : BOOLEAN]
  /\ stored \in BOOLEAN /\ beyond \in BOOLEAN

\* The counts of a login stay within their limits, and every variable has its type.
LEMMA LoginTypesKept ==
  ASSUME LoginTypes, LoginCounts, [LoginNext]_loginVars
  PROVE  LoginTypes' /\ LoginCounts'
<1> DEFINE Kept == [registering : {"unknown", "no", "yes"}, password : BOOLEAN,
                    passwords : 0..(MaxRetries + 1), aliases : 0..MaxRetries, outer : BOOLEAN]
           Letters == [sent : BOOLEAN, answered : BOOLEAN]
<1>1. /\ MaxSteps \in Nat /\ StagnantLimit \in Nat /\ MaxRetries \in Nat /\ MaxRetries >= 1 /\ StagnantLimit >= 1 /\ Target \in LoginScreens
  BY LoginAssumption DEF LoginScreens
<1>2. /\ login \in {"idle", "look", "wait", "send", "in", "failed"}
      /\ register \in BOOLEAN /\ shown \in LoginScreens /\ round \in 0..MaxSteps /\ stagnant \in 0..StagnantLimit
      /\ memory \in Kept /\ letter \in Letters /\ stored \in BOOLEAN /\ beyond \in BOOLEAN
  BY DEF LoginTypes
<1>3. /\ memory.passwords \in 0..(MaxRetries + 1) /\ memory.aliases \in 0..MaxRetries /\ memory.password \in BOOLEAN
      /\ memory.registering \in {"unknown", "no", "yes"}
  BY <1>2
<1>4. LetterNow \in Letters
  <2>1. [sent |-> FALSE, answered |-> FALSE] \in Letters
    OBVIOUS
  <2> DEFINE rearmed == IF shown \in AnyMenus /\ letter.answered /\ stagnant >= 1 THEN [sent |-> FALSE, answered |-> FALSE] ELSE letter
             yes == rearmed.answered \/ (rearmed.sent /\ shown \in PastGameSelect)
  <2>2. rearmed \in Letters
    BY <1>2, <2>1
  <2>3. LetterNow = [rearmed EXCEPT !.answered = yes]
    BY DEF LetterNow
  <2>4. yes \in BOOLEAN
    OBVIOUS
  <2> HIDE DEF rearmed, yes
  <2> QED BY <2>2, <2>3, <2>4
<1>5. SeenBeyond => beyond' \in BOOLEAN
  BY DEF SeenBeyond
<1> HIDE DEF Letters
<1> DEFINE Moved == LoginTypes' /\ LoginCounts'
<1>6. \A what : Stagnates(what) \in 0..(stagnant + 1)
  BY <1>1, <1>2 DEF Stagnates
<1>7. CASE LoginBegins
  BY <1>1, <1>2, <1>7 DEF LoginBegins, LoginTypes, LoginCounts, Letters
<1>8. ASSUME NEW why, Fails(why), memory' = memory, letter' \in Letters, beyond' \in BOOLEAN PROVE Moved
  BY <1>1, <1>2, <1>8 DEF Fails, LoginTypes, LoginCounts, Letters
<1>9. CASE Arrives
  <2>1. login' = "in" /\ letter' \in Letters /\ beyond' \in BOOLEAN /\ login # "failed"
        /\ UNCHANGED <<register, shown, round, memory, stagnant, stored>>
    BY <1>4, <1>5, <1>9 DEF Arrives
  <2> QED BY <1>1, <1>2, <2>1 DEF LoginTypes, LoginCounts, Letters
<1>10. CASE Decides
  <2>1. letter' \in Letters /\ beyond' \in BOOLEAN /\ login = "look" /\ round < MaxSteps
    BY <1>4, <1>5, <1>10 DEF Decides
  <2>2. PICK d \in (IF Decision = "fight" THEN {"answer", "fight_halt"} ELSE {Decision}) :
          \/ d \in Errors /\ Fails(d) /\ UNCHANGED memory
          \/ /\ d \notin Errors \cup {"wait"}
             /\ login' = "send" /\ memory' = Remembered(d) /\ SavesFirst(d)
             /\ UNCHANGED <<register, shown, round, stagnant>>
          \/ /\ d = "wait" /\ login' = "wait" /\ memory' = Remembered(d)
             /\ UNCHANGED <<register, shown, round, stagnant, stored>>
    BY <1>10 DEF Decides
  <2>3. d = "alias" => Decision = "alias" /\ shown = "login_alias"
    BY <2>2 DEF Decision, GameMenus
  <2>4. d = "alias" => memory.aliases < MaxRetries
    BY <1>1, <1>3, <2>2, <2>3 DEF Decision
  <2>5. d = "password" => Decision = "password" /\ shown = "login_password"
    BY <2>2 DEF Decision, GameMenus
  <2>6. d = "password" => memory.passwords < MaxRetries \/ ~memory.password
    BY <1>1, <1>3, <2>5 DEF Decision, GameMenus
  <2>7. d = "password" => memory.passwords <= MaxRetries
    BY <1>1, <1>3, <2>6 DEF LoginCounts
  <2>8. Remembered(d) \in Kept /\ (~Remembered(d).password => Remembered(d).passwords = 0)
    <3>1. CASE d = "handle"
      BY <1>2, <3>1 DEF Remembered, LoginCounts
    <3>2. CASE d = "alias"
      <4>1. memory.aliases + 1 \in 0..MaxRetries
        BY <1>1, <1>3, <2>4, <3>2
      <4>2. Remembered(d) = [memory EXCEPT !.registering = "yes", !.aliases = memory.aliases + 1]
        BY <3>2 DEF Remembered
      <4> QED BY <1>2, <4>1, <4>2 DEF LoginCounts
    <3>3. CASE d = "register"
      BY <1>2, <3>3 DEF Remembered, LoginCounts
    <3>4. CASE d = "password"
      <4>1. memory.passwords + 1 \in 0..(MaxRetries + 1)
        BY <1>1, <1>3, <2>7, <3>4
      <4>2. PICK who \in {"unknown", "no", "yes"} :
              Remembered(d) = [memory EXCEPT !.password = TRUE, !.passwords = memory.passwords + 1, !.registering = who]
        BY <1>3, <3>4 DEF Remembered
      <4> QED BY <1>2, <4>1, <4>2
    <3>5. CASE d = "wait"
      <4>2. PICK who \in {"unknown", "no", "yes"} : Remembered(d) = [memory EXCEPT !.registering = who]
        BY <1>3, <3>5 DEF Remembered
      <4> QED BY <1>2, <4>2 DEF LoginCounts
    <3>6. CASE d \notin {"handle", "alias", "register", "password", "wait"}
      BY <1>2, <3>6 DEF Remembered, LoginCounts
    <3> QED BY <3>1, <3>2, <3>3, <3>4, <3>5, <3>6
  <2>9. CASE d \in Errors /\ Fails(d) /\ UNCHANGED memory
    BY <1>8, <2>1, <2>9
  <2>10. CASE login' \in {"send", "wait"} /\ memory' = Remembered(d) /\ UNCHANGED <<register, shown, round, stagnant>> /\ stored' \in BOOLEAN
    BY <1>1, <1>2, <2>1, <2>8, <2>10 DEF LoginTypes, LoginCounts, Letters
  <2>11. SavesFirst(d) => stored' \in BOOLEAN
    BY <1>2 DEF SavesFirst
  <2> HIDE DEF Moved, Kept
  <2> QED BY <1>2, <2>2, <2>9, <2>10, <2>11
<1>11. ASSUME NEW why, GivesUp(why) PROVE Moved
  BY <1>2, <1>8, <1>11 DEF GivesUp
<1>12. CASE Waits
  <2>1. CASE Stagnates(<<shown, "wait">>) >= StagnantLimit
    BY <1>11, <1>12, <2>1 DEF Waits
  <2>2. CASE ~(Stagnates(<<shown, "wait">>) >= StagnantLimit)
    <3>1. /\ stagnant' = Stagnates(<<shown, "wait">>) /\ login = "wait" /\ login' = "look" /\ round' = round + 1 /\ shown' \in LoginScreens
          /\ UNCHANGED <<register, memory, letter, stored, beyond>>
      BY <1>12, <2>2 DEF Waits, NextRound
    <3>2. stagnant' \in Nat /\ stagnant' < StagnantLimit
      BY <1>1, <1>2, <1>6, <2>2, <3>1
    <3> QED BY <1>1, <1>2, <3>1, <3>2 DEF LoginTypes, LoginCounts, Letters
  <2> QED BY <2>1, <2>2
<1>13. CASE SendRaises \/ Exhausted
  BY <1>11, <1>13 DEF SendRaises, Exhausted
<1> DEFINE GoesOn == \/ login' = "look" /\ round' = NextRound /\ shown' \in LoginScreens /\ stagnant' < StagnantLimit
                     \/ login' = "failed" /\ UNCHANGED <<round, shown>>
<1>14. Types /\ stagnant' \in 0..StagnantLimit /\ GoesOn => Moved
  <2> SUFFICES ASSUME Types, stagnant' \in 0..StagnantLimit, GoesOn
               PROVE  Moved
    BY Zenon
  <2>1. login = "send" /\ letter' = [letter EXCEPT !.sent = letter.sent \/ shown \in GameMenus] /\ UNCHANGED <<register, memory, stored>>
        /\ beyond' = (beyond /\ input.kind # "letter")
    BY DEF Types
  <2>2. letter' \in Letters /\ beyond' \in BOOLEAN
    <3>1. (letter.sent \/ shown \in GameMenus) \in BOOLEAN
      OBVIOUS
    <3> HIDE DEF Moved
    <3> QED BY <1>2, <2>1, <3>1 DEF Letters
  <2>3. round < MaxSteps
    BY <2>1 DEF LoginCounts
  <2> QED BY <1>1, <1>2, <2>1, <2>2, <2>3 DEF LoginTypes, LoginCounts, Letters, NextRound
<1>15. CASE Confirmed
  <2>1. Types /\ stagnant' = 0 /\ login' = "look" /\ round' = NextRound /\ shown' \in LoginScreens
    BY <1>15 DEF Confirmed
  <2>2. stagnant' \in 0..StagnantLimit /\ GoesOn
    BY <1>1, <2>1
  <2> HIDE DEF Moved, GoesOn
  <2> QED BY <1>14, <2>1, <2>2 DEF Moved
<1>16. CASE Unconfirmed
  <2> DEFINE n == Stagnates(<<shown, "unconfirmed">>)
  <2>1. /\ Types /\ stagnant' = n
        /\ \/ login' = "failed" /\ UNCHANGED <<round, shown>>
           \/ n < StagnantLimit /\ login' = "look" /\ round' = NextRound /\ shown' \in LoginScreens
    BY <1>16 DEF Unconfirmed
  <2>2. login = "send"
    BY <2>1 DEF Types
  <2>3. stagnant < StagnantLimit
    BY <2>2 DEF LoginCounts
  <2>4. n \in 0..StagnantLimit
    BY <1>1, <1>2, <1>6, <2>3
  <2>5. stagnant' \in 0..StagnantLimit /\ GoesOn
    BY <2>1, <2>4
  <2> HIDE DEF Moved, n, GoesOn
  <2> QED BY <1>14, <2>1, <2>5 DEF Moved
<1>17. CASE UNCHANGED loginVars
  BY <1>17 DEF loginVars, LoginTypes, LoginCounts
<1> QED BY <1>7, <1>9, <1>10, <1>12, <1>13, <1>15, <1>16, <1>17 DEF LoginNext, LoginRound

\* LoginTypeOK, whatever the game shows: the rounds, the retries and the rounds
\* alike never pass their limits.
LEMMA LoginIsTyped == LoginSpec => []LoginTypeOK
<1>1. LoginInit => LoginTypes /\ LoginCounts
  <2>1. 0 \in 0..MaxSteps /\ 0 \in 0..StagnantLimit /\ 0 < StagnantLimit /\ 0 \in 0..(MaxRetries + 1) /\ 0 \in 0..MaxRetries
    BY LoginAssumption
  <2>2. Fresh \in [registering : {"unknown", "no", "yes"}, password : BOOLEAN,
                   passwords : 0..(MaxRetries + 1), aliases : 0..MaxRetries, outer : BOOLEAN] /\ Fresh.passwords = 0
    BY <2>1 DEF Fresh
  <2>3. [sent |-> FALSE, answered |-> FALSE] \in [sent : BOOLEAN, answered : BOOLEAN] /\ "unknown" \in LoginScreens
    BY DEF LoginScreens
  <2> QED BY <2>1, <2>2, <2>3 DEF LoginInit, LoginTypes, LoginCounts
<1>2. LoginTypes => LoginTypeOK
  BY DEF LoginTypes, LoginTypeOK
<1> QED BY <1>1, <1>2, LoginTypesKept, PTL DEF LoginSpec

-----------------------------------------------------------------------------
(* A trade run *)

\* The driver has docked and deals with the port.
AtPort == deal = "cascade" \/ deal = "offered" \/ deal = "accept" \/ deal = "dealt"
\* A warp has been sent, the last of its way or one before.
Warping == deal = "confirm" \/ deal = "crossing"
\* It hangs on the game's question, its turns not yet spent.
HopAsked == Warping /\ (counter = "confirm" \/ counter = "avoid")

\* Turns that n warps cost beyond the one each the driver counts.
Debt(n) == n * (PerWarp - 1)

TradeNumbers ==
  /\ credits \in Nat /\ snapCredits \in Nat /\ turns \in Nat /\ snapTurns \in Nat
  /\ budget \in Nat /\ offer \in Nat /\ hop \in 1..Hops /\ made \in 0..Longest
  /\ (deal = "warp" \/ deal = "crossing" => made < Longest) /\ (AtPort => made = 0)
  /\ mute \in BOOLEAN /\ strayed \in BOOLEAN /\ (leg = "buy" \/ leg = "sell")
\* The driver knows the credits, they stand above the floor, and above the
\* floor and the offer where it means to pay.
Money ==
  /\ credits >= Floor
  /\ deal # "idle" => snapCredits = credits
  /\ deal = "accept" /\ leg = "buy" => snapCredits >= Floor + offer
\* The budget exceeds the ship's turns by no more than the warps since the last
\* dock have cost beyond one turn each; a warp that is asked about has already
\* been taken off the budget, and the reserve holds after that too.
Tank ==
  /\ deal # "idle" => turns + Debt(Longest) >= Reserve
  /\ AtPort \/ deal = "pass" => snapTurns = turns
  /\ AtPort \/ deal = "hop" \/ deal = "dock" \/ deal = "warp" \/ Warping => budget <= turns + Debt(made)
  /\ HopAsked => budget + PerWarp <= turns + Debt(made) /\ budget >= Reserve
\* The ship is where the driver means to dock.
Place ==
  /\ AtPort \/ deal = "dock" => trader = Meant
  /\ deal = "hop" => trader = hop
  /\ deal = "warp" \/ Warping => leg = "sell"
  /\ deal = "confirm" /\ ~HopAsked => trader = Successor(hop)
Undeceived == ~mute /\ ~strayed
TradeInv == TradeNumbers /\ (Undeceived => Money /\ Tank /\ Place)

\* A way of more warps costs no less, and each adds the same.
LEMMA DebtAdds ==
  /\ \A n \in Nat : Debt(n) \in Nat /\ Debt(n + 1) = Debt(n) + PerWarp - 1
  /\ \A n \in 0..Longest : Debt(n) \in Nat /\ Debt(n) <= Debt(Longest)
  /\ PerWarp \in Nat /\ PerWarp >= 1 /\ Debt(0) = 0 /\ Longest \in Nat /\ Debt(Longest) \in Nat
<1>1. PerWarp \in Nat /\ PerWarp - 1 \in Nat /\ PerWarp >= 1 /\ Longest \in Nat
  BY TradeAssumption
<1> DEFINE more == PerWarp - 1
<1>2. more \in Nat
  BY <1>1
<1>3. \A n \in Nat : n * more \in Nat /\ (n + 1) * more = n * more + more
  <2> HIDE DEF more
  <2> QED BY <1>2
<1>4. \A n \in Nat : Debt(n) \in Nat /\ Debt(n + 1) = Debt(n) + PerWarp - 1
  BY <1>1, <1>3 DEF Debt
<1>5. ASSUME NEW n \in 0..Longest PROVE Debt(n) <= Debt(Longest)
  <2>1. n \in Nat /\ Longest - n \in Nat
    BY <1>1
  <2>2. n * more \in Nat /\ (Longest - n) * more \in Nat
    <3> HIDE DEF more
    <3> QED BY <1>2, <2>1
  <2>3. (Longest - n) * more = Longest * more - n * more
    <3> HIDE DEF more
    <3> QED BY <1>1, <1>2, <2>1
  <2>4. Longest * more \in Nat
    <3> HIDE DEF more
    <3> QED BY <1>1, <1>2
  <2>5. n * more <= Longest * more
    <3> DEFINE x == n * more
               y == (Longest - n) * more
               z == Longest * more
    <3>1. x \in Nat /\ y \in Nat /\ z \in Nat /\ y = z - x
      BY <2>2, <2>3, <2>4
    <3> HIDE DEF x, y, z
    <3>2. x <= z
      BY <3>1
    <3> QED BY <3>2 DEF x, z
  <2> QED BY <2>5 DEF Debt
<1>6. Debt(0) = 0
  BY <1>1 DEF Debt
<1>7. \A n \in 0..Longest : n \in Nat
  BY <1>1
<1> QED BY <1>1, <1>4, <1>5, <1>6, <1>7

\* A run begins with the approved amounts, at the first port.
LEMMA TradeBegins == TradeInit => TradeInv
<1> SUFFICES ASSUME TradeInit PROVE TradeInv
  OBVIOUS
<1>1. deal = "idle" /\ credits = Floor /\ ~AtPort /\ ~HopAsked
  BY DEF TradeInit, AtPort, HopAsked, Warping
<1>2. TradeNumbers
  <2>0. hop = 1 /\ mute = FALSE /\ strayed = FALSE
    BY DEF TradeInit
  <2>1. hop \in 1..Hops /\ credits \in Nat /\ made \in 0..Longest /\ made = 0
    BY <1>1, <2>0, TradeAssumption DEF TradeInit
  <2> QED
    BY <1>1, <2>0, <2>1 DEF TradeInit, TradeNumbers
<1>3. Money /\ Tank /\ Place
  BY <1>1, TradeAssumption DEF TradeInit, Money, Tank, Place, Warping
<1> QED
  BY <1>2, <1>3 DEF TradeInv

\* A run that has ended owes the driver nothing more.
LEMMA RunOver ==
  ASSUME TradeInv, deal # "idle", deal' = "over", UNCHANGED <<credits, snapCredits, turns, snapTurns, budget, offer, hop, leg, made>>,
         Undeceived' => Undeceived, mute' \in BOOLEAN, strayed' \in BOOLEAN
  PROVE  TradeInv'
<1>1. ~AtPort' /\ ~HopAsked' /\ ~Warping'
  BY DEF AtPort, HopAsked, Warping
<1>2. TradeNumbers'
  BY <1>1 DEF TradeInv, TradeNumbers
<1>3. SUFFICES ASSUME Undeceived' PROVE Money' /\ Tank' /\ Place'
  BY <1>2 DEF TradeInv
<1>4. Money /\ Tank
  BY <1>3 DEF TradeInv
<1>5. Money'
  BY <1>4 DEF Money
<1>6. Tank'
  BY <1>1, <1>4 DEF Tank
<1>7. Place'
  BY <1>1 DEF Place
<1> QED
  BY <1>5, <1>6, <1>7

\* A step that moves no money, fuel or ship keeps what was promised about them.
LEMMA HoldsKeeps ==
  ASSUME TradeInv, deal # "idle", NEW why, Holds(why)
  PROVE  TradeInv'
<1>1. UNCHANGED <<mute, strayed>> /\ deal' = "over" /\ UNCHANGED <<credits, snapCredits, turns, snapTurns, budget, offer, hop, leg, made>>
  BY DEF Holds, hopVars, marketVars, snapVars, pastVars
<1>2. (Undeceived' => Undeceived) /\ mute' \in BOOLEAN /\ strayed' \in BOOLEAN
  BY <1>1 DEF Undeceived, TradeInv, TradeNumbers
<1> QED
  BY <1>1, <1>2, RunOver

\* Every step of the driver and of the game keeps the invariant.
LEMMA TradeKept == TradeInv /\ [TradeNext]_tradeVars => TradeInv'
<1> SUFFICES ASSUME TradeInv, [TradeNext]_tradeVars PROVE TradeInv'
  OBVIOUS
<1> USE TradeAssumption
<1>a. TradeNumbers /\ (Undeceived => Money /\ Tank /\ Place)
  BY DEF TradeInv
<1>b. ASSUME TradeNumbers', Undeceived' => Undeceived, Undeceived => Money' /\ Tank' /\ Place' PROVE TradeInv'
  BY <1>b DEF TradeInv
<1>c. ASSUME UNCHANGED pastVars PROVE (Undeceived' <=> Undeceived) /\ mute' \in BOOLEAN /\ strayed' \in BOOLEAN
  BY <1>a, <1>c DEF pastVars, Undeceived, TradeNumbers
<1>1. ASSUME NEW n \in Passes, TradeStarts(n) PROVE TradeInv'
  <2>1. PICK c \in Floor..Wealth, t \in Tanks : credits' = c /\ turns' = t /\ snapCredits' = c /\ snapTurns' = t
    BY <1>1 DEF TradeStarts
  <2>2. c \in Nat /\ c >= Floor /\ t \in Nat /\ t >= Reserve
    BY <2>1
  <2>3. deal' = "pass" /\ UNCHANGED <<hop, leg, budget, made, offer, counter, trader, pastVars>>
    BY <1>1 DEF TradeStarts
  <2>4. ~AtPort' /\ ~HopAsked' /\ ~Warping'
    BY <2>3 DEF AtPort, HopAsked, Warping
  <2>5. TradeNumbers'
    BY <1>a, <1>c, <2>1, <2>2, <2>3, <2>4 DEF TradeNumbers
  <2>6. Money'
    BY <2>1, <2>2, <2>3 DEF Money
  <2>7. Tank'
    BY <2>1, <2>2, <2>3, <2>4, DebtAdds DEF Tank
  <2>8. Place'
    BY <2>3, <2>4 DEF Place
  <2> QED
    BY <1>b, <1>c, <2>3, <2>5, <2>6, <2>7, <2>8
<1>2. CASE PassStarts
  <2>1. CASE \E why : Holds(why)
    BY <1>2, <2>1, HoldsKeeps DEF PassStarts
  <2>2. CASE ~\E why : Holds(why)
    <3>1. /\ deal = "pass" /\ trader = 1 /\ deal' = "hop" /\ hop' = 1 /\ leg' = "buy" /\ budget' = snapTurns
          /\ UNCHANGED <<made, credits, snapCredits, turns, snapTurns, offer, trader, counter, pastVars>>
      BY <1>2, <2>2 DEF PassStarts, marketVars, snapVars
    <3>2. ~AtPort' /\ ~HopAsked' /\ ~Warping' /\ 1 \in 1..Hops
      BY <3>1 DEF AtPort, HopAsked, Warping
    <3>3. TradeNumbers'
      BY <1>a, <1>c, <3>1, <3>2 DEF TradeNumbers
    <3>4. Money => Money'
      BY <3>1 DEF Money
    <3>5. Tank => Tank'
      BY <1>a, <3>1, <3>2, DebtAdds DEF Tank, TradeNumbers
    <3>6. Place'
      BY <3>1, <3>2 DEF Place
    <3> QED
      BY <1>a, <1>b, <1>c, <3>1, <3>3, <3>4, <3>5, <3>6
  <2> QED
    BY <2>1, <2>2
<1>3. CASE HopStarts
  <2>1. CASE Holds("turn_floor")
    BY <1>3, <2>1, HoldsKeeps DEF HopStarts
  <2>2. CASE ~Holds("turn_floor")
    <3>1. /\ deal = "hop" /\ deal' = "dock" /\ leg' = "buy"
          /\ UNCHANGED <<hop, budget, made, credits, snapCredits, turns, snapTurns, offer, trader, counter, pastVars>>
      BY <1>3, <2>2 DEF HopStarts, marketVars, snapVars
    <3>2. ~AtPort' /\ ~HopAsked' /\ ~Warping'
      BY <3>1 DEF AtPort, HopAsked, Warping
    <3>3. TradeNumbers'
      BY <1>a, <1>c, <3>1, <3>2 DEF TradeNumbers
    <3>4. Money => Money'
      BY <3>1 DEF Money
    <3>5. Tank => Tank'
      BY <3>1, <3>2 DEF Tank
    <3>6. Place => Place'
      BY <3>1, <3>2 DEF Place, Meant
    <3> QED
      BY <1>a, <1>b, <1>c, <3>1, <3>3, <3>4, <3>5, <3>6
  <2> QED
    BY <2>1, <2>2
<1>4. CASE Refused
  BY <1>4, HoldsKeeps DEF Refused
<1>5. CASE Docks
  <2>1. CASE Holds("turn_floor")
    BY <1>5, <2>1, HoldsKeeps DEF Docks
  <2>2. CASE ~Holds("turn_floor")
    <3>1. /\ deal = "dock" /\ budget >= Reserve + 1 /\ made' = 0 /\ NotConfirmed("cascade")
          /\ UNCHANGED <<hop, leg, trader, credits, offer, snapCredits, strayed>>
      BY <1>a, <1>5, <2>2 DEF Docks, TradeNumbers
    <3>2. PICK knows \in BOOLEAN :
               /\ (turns > 0 /\ turns' = turns - 1) \/ (~knows /\ turns' = turns)
               /\ budget' = (IF knows THEN turns' ELSE budget - 1)
               /\ snapTurns' = (IF knows THEN turns' ELSE snapTurns)
               /\ mute' = (mute \/ ~knows)
      BY <1>5, <2>2 DEF Docks, Reconciled
    <3>3. (deal' = "cascade" \/ deal' = "over") /\ deal' # "idle" /\ ~HopAsked' /\ ~Warping'
      BY <3>1 DEF NotConfirmed, HopAsked, Warping
    <3>4. (Undeceived' => Undeceived /\ knows) /\ mute' \in BOOLEAN /\ strayed' \in BOOLEAN
      BY <1>a, <3>1, <3>2 DEF Undeceived, TradeNumbers
    <3>5. turns' \in Nat /\ budget - 1 \in Nat /\ budget' \in Nat /\ snapTurns' \in Nat /\ made' \in 0..Longest
      BY <1>a, <3>1, <3>2, DebtAdds DEF TradeNumbers
    <3>6. TradeNumbers'
      BY <1>a, <3>1, <3>3, <3>4, <3>5 DEF TradeNumbers
    <3>7. ASSUME Undeceived' PROVE Money' /\ Tank' /\ Place'
      <4>1. Money /\ Tank /\ Place /\ knows
        BY <1>a, <3>4, <3>7
      <4>2. Money'
        BY <3>1, <3>3, <4>1 DEF Money
      <4>3. budget' = turns' /\ snapTurns' = turns' /\ turns' = turns - 1
        BY <3>2, <4>1
      <4>4. turns' + Debt(Longest) >= Reserve
        <5>1. budget <= turns + Debt(made) /\ Debt(made) \in Nat /\ Debt(made) <= Debt(Longest) /\ Debt(Longest) \in Nat
          BY <1>a, <3>1, <4>1, DebtAdds DEF Tank, TradeNumbers
        <5> QED
          BY <1>a, <3>1, <4>3, <5>1 DEF TradeNumbers
      <4>5. Tank'
        BY <3>1, <3>3, <3>5, <4>3, <4>4, DebtAdds DEF Tank
      <4>6. AtPort' => deal' = "cascade"
        BY <3>3 DEF AtPort
      <4>7. Place'
        BY <3>1, <3>3, <4>1, <4>6 DEF Place, Meant
      <4> QED
        BY <4>2, <4>5, <4>7
    <3> QED
      BY <3>6, <3>7 DEF TradeInv
  <2> QED
    BY <2>1, <2>2
<1>6. CASE Orders
  <2>1. /\ deal = "cascade" /\ NotConfirmed("offered")
        /\ UNCHANGED <<hop, leg, budget, made, trader, credits, turns, snapCredits, snapTurns, pastVars>>
    BY <1>6 DEF Orders, hopVars, snapVars
  <2>2. offer' \in Nat
    <3>1. PICK live \in 1..Load : Quantity(live, snapCredits) > 0
            /\ \E total \in 1..(Dear * Quantity(live, snapCredits)) : offer' = total
      BY <1>6 DEF Orders
    <3> QED
      BY <3>1
  <2>3. (deal' = "offered" \/ deal' = "over") /\ ~HopAsked' /\ ~Warping' /\ AtPort
    BY <2>1 DEF NotConfirmed, HopAsked, Warping, AtPort
  <2>4. TradeNumbers'
    BY <1>a, <1>c, <2>1, <2>2, <2>3 DEF TradeNumbers
  <2>5. Money => Money'
    BY <2>1, <2>3 DEF Money
  <2>6. AtPort /\ deal # "idle"
    BY <2>1 DEF AtPort
  <2>7. Tank => Tank'
    BY <2>1, <2>3, <2>6 DEF Tank
  <2>8. Place => Place'
    BY <2>1, <2>3, <2>6 DEF Place, Meant
  <2> QED
    BY <1>a, <1>b, <1>c, <2>1, <2>4, <2>5, <2>7, <2>8
<1>7. CASE Declines \/ Depleted
  <2>1. CASE \E why : Holds(why)
    <3>1. deal # "idle"
      BY <1>7 DEF Declines, Depleted
    <3> QED
      BY <2>1, <3>1, HoldsKeeps
  <2>2. CASE ~\E why : Holds(why)
    <3>1. /\ deal = "cascade" /\ deal' = "warp" /\ leg' = "sell"
          /\ UNCHANGED <<hop, budget, made, credits, snapCredits, turns, snapTurns, offer, trader, pastVars>>
      BY <1>7, <2>2 DEF Declines, Depleted, snapVars
    <3>2. ~AtPort' /\ ~HopAsked' /\ ~Warping' /\ AtPort
      BY <3>1 DEF AtPort, HopAsked, Warping
    <3>3. TradeNumbers'
      BY <1>a, <1>c, <3>1, <3>2 DEF TradeNumbers
    <3>4. (Money => Money') /\ (Tank => Tank')
      BY <3>1, <3>2 DEF Money, Tank
    <3>5. Place'
      BY <3>1, <3>2 DEF Place
    <3> QED
      BY <1>a, <1>b, <1>c, <3>1, <3>3, <3>4, <3>5
  <2> QED
    BY <2>1, <2>2
<1>8. CASE Considers
  <2>1. CASE Holds("over_budget")
    BY <1>8, <2>1, HoldsKeeps DEF Considers
  <2>2. CASE ~Holds("over_budget")
    <3>1. /\ deal = "offered" /\ deal' = "accept" /\ ~OverBudget
          /\ UNCHANGED <<hop, leg, budget, made, trader, credits, turns, snapCredits, snapTurns, offer, counter, pastVars>>
      BY <1>8, <2>2 DEF Considers, hopVars, marketVars, snapVars
    <3>2. leg = "buy" => snapCredits >= Floor + offer
      BY <1>a, <3>1 DEF OverBudget, TradeNumbers
    <3>5. AtPort /\ AtPort' /\ ~HopAsked' /\ ~Warping'
      BY <3>1 DEF AtPort, HopAsked, Warping
    <3>3. TradeNumbers'
      BY <1>a, <1>c, <3>1, <3>5 DEF TradeNumbers
    <3>4. Money => Money'
      BY <3>1, <3>2 DEF Money
    <3>6. Tank => Tank'
      BY <3>1, <3>5 DEF Tank
    <3>7. Place => Place'
      BY <3>1, <3>5 DEF Place, Meant
    <3> QED
      BY <1>a, <1>b, <1>c, <3>1, <3>3, <3>4, <3>6, <3>7
  <2> QED
    BY <2>1, <2>2
<1>9. CASE Accepts
  <2>1. /\ deal = "accept" /\ NotConfirmed("dealt")
        /\ UNCHANGED <<hop, leg, budget, made, trader, turns, offer, snapTurns, strayed>>
    BY <1>9 DEF Accepts, hopVars
  <2>2. IF PortSells THEN credits >= offer /\ credits' = credits - offer
        ELSE credits' = Least(credits + offer, Wealth)
    BY <1>9 DEF Accepts
  <2>3. (snapCredits' = credits' /\ UNCHANGED mute) \/ (UNCHANGED snapCredits /\ mute' = TRUE)
    BY <1>9 DEF Accepts
  <2>4. credits' \in Nat
    BY <1>a, <2>2 DEF TradeNumbers, Least
  <2>8. (deal' = "dealt" \/ deal' = "over") /\ AtPort
    BY <2>1 DEF NotConfirmed, AtPort
  <2>5. TradeNumbers'
    BY <1>a, <2>1, <2>3, <2>4, <2>8 DEF TradeNumbers
  <2>6. Undeceived' => Undeceived /\ snapCredits' = credits'
    BY <2>1, <2>3 DEF Undeceived
  <2>7. ASSUME Undeceived' PROVE Money' /\ Tank' /\ Place'
    <3>1. Money /\ Tank /\ Place /\ snapCredits' = credits'
      BY <1>a, <2>6, <2>7
    <3>2. (deal' = "dealt" \/ deal' = "over") /\ ~HopAsked' /\ ~Warping' /\ AtPort
      BY <2>1 DEF NotConfirmed, HopAsked, Warping, AtPort
    <3>3. CASE PortSells
      <4>1. leg = "buy"
        <5>1. SUFFICES ASSUME leg = "sell" PROVE FALSE
          BY <1>a DEF TradeNumbers
        <5>2. trader = Successor(hop) /\ trader = hop
          BY <3>1, <3>2, <3>3, <5>1 DEF Place, Meant, PortSells
        <5> QED
          BY <1>a, <5>2 DEF Successor, TradeNumbers
      <4>2. credits' = credits - offer /\ credits >= Floor + offer
        BY <2>1, <2>2, <3>1, <3>3, <4>1 DEF Money
      <4>3. credits' >= Floor
        BY <1>a, <4>2 DEF TradeNumbers
      <4> QED
        BY <3>1, <3>2, <4>3, <2>1 DEF Money, Tank, Place, AtPort, Meant
    <3>4. CASE ~PortSells
      <4>1. credits' >= Floor
        BY <1>a, <2>2, <3>1, <3>4 DEF Least, Money, TradeNumbers
      <4> QED
        BY <3>1, <3>2, <4>1, <2>1 DEF Money, Tank, Place, AtPort, Meant
    <3> QED
      BY <3>3, <3>4
  <2> QED
    BY <2>5, <2>7 DEF TradeInv
<1>10. CASE Settles
  <2>0. deal = "dealt" /\ AtPort /\ deal # "idle"
    BY <1>10 DEF Settles, AtPort
  <2>1. CASE \E why : Holds(why)
    BY <2>0, <2>1, HoldsKeeps
  <2>2. CASE /\ leg = "buy" /\ deal' = "warp" /\ leg' = "sell"
             /\ UNCHANGED <<hop, budget, made, marketVars, snapVars, pastVars>>
    <3>1. UNCHANGED <<credits, snapCredits, turns, snapTurns, offer, trader, counter>>
      BY <2>2 DEF marketVars, snapVars
    <3>2. ~AtPort' /\ ~HopAsked' /\ ~Warping'
      BY <2>2 DEF AtPort, HopAsked, Warping
    <3>3. TradeNumbers'
      BY <1>a, <1>c, <2>0, <2>2, <3>1, <3>2 DEF TradeNumbers
    <3>4. (Money => Money') /\ (Tank => Tank')
      BY <2>0, <2>2, <3>1, <3>2 DEF Money, Tank
    <3>5. Place => Place'
      BY <2>0, <2>2, <3>1, <3>2 DEF Place, Meant
    <3> QED
      BY <1>a, <1>b, <1>c, <2>2, <3>3, <3>4, <3>5
  <2>3. CASE /\ leg = "sell" /\ hop < Hops /\ deal' = "hop" /\ hop' = hop + 1
             /\ UNCHANGED <<leg, budget, made, marketVars, snapVars, pastVars>>
    <3>1. UNCHANGED <<credits, snapCredits, turns, snapTurns, offer, trader, counter>>
      BY <2>3 DEF marketVars, snapVars
    <3>2. ~AtPort' /\ ~HopAsked' /\ ~Warping'
      BY <2>3 DEF AtPort, HopAsked, Warping
    <3>3. TradeNumbers'
      BY <1>a, <1>c, <2>0, <2>3, <3>1, <3>2 DEF TradeNumbers
    <3>4. (Money => Money') /\ (Tank => Tank')
      BY <2>0, <2>3, <3>1, <3>2 DEF Money, Tank
    <3>5. Successor(hop) = hop + 1
      BY <1>a, <2>3 DEF Successor, TradeNumbers
    <3>6. Place => Place'
      BY <2>0, <2>3, <3>1, <3>2, <3>5 DEF Place, Meant
    <3> QED
      BY <1>a, <1>b, <1>c, <2>3, <3>3, <3>4, <3>6
  <2>4. CASE deal' = "pass" /\ UNCHANGED <<hop, leg, budget, made, marketVars, snapVars, pastVars>>
    <3>1. UNCHANGED <<credits, snapCredits, turns, snapTurns, offer, trader, counter>>
      BY <2>4 DEF marketVars, snapVars
    <3>2. ~AtPort' /\ ~HopAsked' /\ ~Warping'
      BY <2>4 DEF AtPort, HopAsked, Warping
    <3>3. TradeNumbers'
      BY <1>a, <1>c, <2>4, <3>1, <3>2 DEF TradeNumbers
    <3>4. (Money => Money') /\ (Tank => Tank')
      BY <2>0, <2>4, <3>1, <3>2 DEF Money, Tank
    <3>6. Place'
      BY <2>4, <3>2 DEF Place
    <3> QED
      BY <1>a, <1>b, <1>c, <2>4, <3>3, <3>4, <3>6
  <2> QED
    BY <1>10, <2>1, <2>2, <2>3, <2>4 DEF Settles, AfterPass, hopVars
<1>11. ASSUME NEW last \in BOOLEAN, GameWarps(last)
       PROVE  /\ \/ /\ turns >= PerWarp /\ turns' = turns - PerWarp /\ (last => trader' = Successor(hop))
                    /\ counter' = "command" /\ UNCHANGED strayed
                 \/ UNCHANGED turns /\ strayed' = TRUE
              /\ turns' \in Nat /\ strayed' \in BOOLEAN
  <2>1. CASE /\ turns >= PerWarp /\ turns' = turns - PerWarp
             /\ trader' = (IF last THEN Successor(hop) ELSE Between)
             /\ counter' = "command" /\ UNCHANGED strayed
    <3>1. turns' \in Nat
      BY <1>a, <2>1, DebtAdds DEF TradeNumbers
    <3> QED
      BY <1>a, <2>1, <3>1 DEF TradeNumbers
  <2>2. CASE UNCHANGED <<trader, turns>> /\ strayed' = TRUE
    BY <1>a, <2>2 DEF TradeNumbers
  <2> QED
    BY <1>11, <2>1, <2>2 DEF GameWarps
<1>12. CASE Warps
  <2>1. CASE Holds("turn_floor")
    BY <1>12, <2>1, HoldsKeeps DEF Warps
  <2>2. CASE ~Holds("turn_floor")
    <3>1. /\ deal = "warp" /\ budget >= Reserve + 1 /\ budget' = budget - 1 /\ made' = made + 1
          /\ UNCHANGED <<hop, leg, credits, offer, snapCredits, snapTurns, mute>>
      BY <1>a, <1>12, <2>2 DEF Warps, WarpCost, snapVars, TradeNumbers
    <3>2. PICK last \in BOOLEAN :
            /\ last \/ made + 1 < Longest
            /\ \/ GameWarps(last)
               \/ UNCHANGED <<trader, turns, strayed>> /\ counter' \in {"confirm", "avoid"}
            /\ NotConfirmed(IF last THEN "confirm" ELSE "crossing")
      BY <1>12, <2>2 DEF Warps
    <3>3. /\ \/ last /\ deal' = "confirm"
             \/ ~last /\ deal' = "crossing"
             \/ deal' = "over"
          /\ ~AtPort'
      BY <3>2 DEF NotConfirmed, AtPort
    <3>4. turns' \in Nat /\ budget' \in Nat /\ strayed' \in BOOLEAN /\ made' \in 0..Longest
          /\ (~last => made' < Longest)
      <4>1. turns' \in Nat /\ strayed' \in BOOLEAN
        BY <1>a, <1>11, <3>2 DEF TradeNumbers
      <4>2. made < Longest /\ made \in Nat /\ Longest \in Nat
        BY <1>a, <3>1, DebtAdds DEF TradeNumbers
      <4> QED
        BY <1>a, <3>1, <3>2, <4>1, <4>2 DEF TradeNumbers
    <3>5. TradeNumbers'
      BY <1>a, <3>1, <3>3, <3>4 DEF TradeNumbers
    <3>6. Undeceived' => Undeceived
      BY <1>11, <3>1, <3>2 DEF Undeceived
    <3>7. ASSUME Undeceived' PROVE Money' /\ Tank' /\ Place'
      <4>1. Money /\ Tank /\ Place /\ budget <= turns + Debt(made) /\ leg = "sell"
        BY <1>a, <3>1, <3>6, <3>7 DEF Tank, Place
      <4>2. Money'
        BY <3>1, <3>3, <4>1 DEF Money
      <4>3. /\ Debt(made) \in Nat /\ Debt(made') = Debt(made) + PerWarp - 1 /\ Debt(made') \in Nat
            /\ Debt(made') <= Debt(Longest) /\ Debt(Longest) \in Nat /\ PerWarp \in Nat /\ PerWarp >= 1
        <5>1. made \in Nat
          BY <1>a, DebtAdds DEF TradeNumbers
        <5> QED
          BY <3>1, <3>4, <5>1, DebtAdds
      <4>4. CASE turns >= PerWarp /\ turns' = turns - PerWarp /\ (last => trader' = Successor(hop)) /\ counter' = "command"
        <5>1. ~HopAsked'
          BY <4>4 DEF HopAsked
        <5>2. budget' <= turns' + Debt(made') /\ turns' + Debt(Longest) >= Reserve
          BY <1>a, <3>1, <3>4, <4>1, <4>3, <4>4, TradeAssumption DEF TradeNumbers
        <5>3. Tank'
          BY <3>3, <5>1, <5>2 DEF Tank, Warping
        <5>4. Place'
          BY <3>1, <3>3, <4>1, <4>4, <5>1 DEF Place, Successor, Warping
        <5> QED
          BY <4>2, <5>3, <5>4
      <4>5. CASE UNCHANGED <<trader, turns, strayed>> /\ counter' \in {"confirm", "avoid"}
        <5>1. /\ budget' <= turns' + Debt(made') /\ turns' + Debt(Longest) >= Reserve
              /\ budget' + PerWarp <= turns' + Debt(made') /\ budget' >= Reserve
          BY <1>a, <3>1, <3>4, <4>1, <4>3, <4>5, TradeAssumption DEF TradeNumbers
        <5>2. Tank'
          BY <3>3, <5>1 DEF Tank, Warping
        <5>3. Warping' => HopAsked'
          BY <4>5 DEF HopAsked
        <5>4. Place'
          BY <3>1, <3>3, <4>1, <5>3 DEF Place, Warping
        <5> QED
          BY <4>2, <5>2, <5>4
      <4> QED
        BY <1>11, <3>2, <3>7, <4>4, <4>5 DEF Undeceived
    <3> QED
      BY <3>5, <3>7 DEF TradeInv
  <2> QED
    BY <2>1, <2>2
<1>16. CASE WarpAnswered
  <2> DEFINE last == deal = "confirm"
             next == IF last THEN "dock" ELSE "warp"
  <2>0. (deal = "confirm" \/ deal = "crossing") /\ Warping /\ ~AtPort /\ last \in BOOLEAN
    BY <1>16 DEF WarpAnswered, AtPort, Warping
  <2>1. CASE /\ counter \notin {"confirm", "avoid"}
             /\ deal' = next /\ UNCHANGED <<hopVars, marketVars, snapVars, pastVars>>
    <3>1. UNCHANGED <<hop, leg, budget, made, credits, snapCredits, turns, snapTurns, offer, trader, counter>> /\ ~HopAsked
      BY <2>1 DEF marketVars, snapVars, hopVars, HopAsked
    <3>2. /\ \/ deal = "confirm" /\ deal' = "dock"
             \/ deal = "crossing" /\ deal' = "warp"
          /\ ~AtPort' /\ ~HopAsked' /\ ~Warping'
      BY <2>0, <2>1 DEF AtPort, HopAsked, Warping
    <3>3. TradeNumbers'
      BY <1>a, <1>c, <2>1, <3>1, <3>2 DEF TradeNumbers
    <3>4. Money => Money'
      BY <3>1, <3>2 DEF Money
    <3>5. Tank => Tank'
      BY <2>0, <3>1, <3>2 DEF Tank
    <3>6. Place => Place'
      BY <2>0, <3>1, <3>2 DEF Place, Meant
    <3> QED
      BY <1>a, <1>b, <1>c, <2>1, <3>1, <3>3, <3>4, <3>5, <3>6
  <2>2. CASE /\ deal' = "over" /\ counter' = "command"
             /\ UNCHANGED <<hopVars, trader, credits, turns, offer, snapVars, pastVars>>
    BY <1>c, <2>0, <2>2, RunOver DEF hopVars, snapVars
  <2>3. CASE /\ counter = "confirm" /\ GameWarps(last) /\ NotConfirmed(next)
             /\ UNCHANGED <<hopVars, credits, offer, snapVars, mute>>
    <3>1. UNCHANGED <<hop, leg, budget, made, credits, snapCredits, snapTurns, offer>> /\ HopAsked
      BY <2>0, <2>3 DEF snapVars, hopVars, HopAsked
    <3>2. /\ ~AtPort' /\ ~HopAsked' /\ ~Warping'
          /\ \/ deal = "confirm" /\ deal' = "dock"
             \/ deal = "crossing" /\ deal' = "warp"
             \/ deal' = "over"
      BY <2>0, <2>3 DEF AtPort, HopAsked, Warping, NotConfirmed
    <3>3. /\ \/ /\ turns >= PerWarp /\ turns' = turns - PerWarp /\ (last => trader' = Successor(hop)) /\ UNCHANGED strayed
             \/ UNCHANGED turns /\ strayed' = TRUE
          /\ turns' \in Nat /\ strayed' \in BOOLEAN
      <4> HIDE DEF last
      <4> QED BY <1>11, <2>0, <2>3
    <3>4. TradeNumbers'
      BY <1>a, <2>3, <3>1, <3>2, <3>3 DEF TradeNumbers
    <3>5. Undeceived' => Undeceived /\ turns >= PerWarp /\ turns' = turns - PerWarp /\ (deal = "confirm" => trader' = Successor(hop))
      BY <2>3, <3>3 DEF Undeceived
    <3>6. ASSUME Undeceived' PROVE Money' /\ Tank' /\ Place'
      <4>1. Money /\ Tank /\ Place /\ turns' = turns - PerWarp /\ turns >= PerWarp
            /\ (deal = "confirm" => trader' = Successor(hop))
        BY <1>a, <3>5, <3>6
      <4>2. budget + PerWarp <= turns + Debt(made) /\ budget >= Reserve /\ leg = "sell"
        BY <2>0, <3>1, <4>1 DEF Tank, Place
      <4>3. Debt(made) \in Nat /\ Debt(made) <= Debt(Longest) /\ Debt(Longest) \in Nat /\ PerWarp \in Nat
        BY <1>a, DebtAdds DEF TradeNumbers
      <4>4. budget' <= turns' + Debt(made) /\ turns' + Debt(Longest) >= Reserve
        BY <1>a, <3>1, <4>1, <4>2, <4>3, TradeAssumption DEF TradeNumbers
      <4>5. Tank'
        BY <3>1, <3>2, <4>4 DEF Tank
      <4>6. Money'
        BY <2>0, <3>1, <3>2, <4>1 DEF Money
      <4>7. Place'
        BY <3>1, <3>2, <4>1, <4>2 DEF Place, Meant
      <4> QED
        BY <4>5, <4>6, <4>7
    <3> QED
      BY <3>4, <3>6 DEF TradeInv
  <2> QED
    BY <1>16, <2>1, <2>2, <2>3 DEF WarpAnswered
<1>13. CASE DriverRaises
  BY <1>13, HoldsKeeps DEF DriverRaises
<1>14. CASE TradeStopped \/ TradePreempted \/ UNCHANGED tradeVars
  <2>1. UNCHANGED <<deal, hop, leg, budget, made, credits, snapCredits, turns, snapTurns, offer, trader, counter, pastVars>>
    BY <1>14 DEF TradeStopped, TradePreempted, tradeVars, hopVars, marketVars, snapVars
  <2>2. AtPort' = AtPort /\ HopAsked' = HopAsked /\ Warping' = Warping /\ Meant' = Meant
    BY <2>1 DEF AtPort, HopAsked, Warping, Meant
  <2>3. TradeNumbers'
    BY <1>a, <1>c, <2>1, <2>2 DEF TradeNumbers
  <2>4. (Money => Money') /\ (Tank => Tank') /\ (Place => Place')
    BY <2>1, <2>2 DEF Money, Tank, Place
  <2> QED
    BY <1>a, <1>b, <1>c, <2>1, <2>3, <2>4
<1>15. CASE HumanPlays
  <2>1. strayed' = TRUE /\ UNCHANGED <<deal, hop, leg, budget, made, credits, snapCredits, turns, snapTurns, offer, mute>>
    BY <1>15 DEF HumanPlays, hopVars, snapVars
  <2> QED
    BY <1>a, <2>1 DEF TradeInv, TradeNumbers, Undeceived, AtPort
<1> QED
  BY <1>1, <1>2, <1>3, <1>4, <1>5, <1>6, <1>7, <1>8, <1>9, <1>10, <1>12, <1>16, <1>13, <1>14, <1>15 DEF TradeNext, DriverStep

\* No trade run takes the player's credits below the floor, nor the ship further
\* below the turn reserve than the warps between two ports cost over one turn
\* each (RailsKept), whatever the length of the chain, the prices, the wealth
\* and the ship, as long as the game hides nothing from the driver.
THEOREM RailsHold == TradeSpec => []RailsKept
<1>1. TradeInv => RailsKept
  <2>1. TradeInv => CashFloorKept
    BY DEF TradeInv, Money, Undeceived, CashFloorKept
  <2>2. TradeInv => TurnReserveKept
    BY DEF TradeInv, Tank, Undeceived, TurnReserveKept, Uncounted, Debt
  <2> QED
    BY <2>1, <2>2 DEF RailsKept
<1> QED
  BY <1>1, TradeBegins, TradeKept, PTL DEF TradeSpec

\* A run under way has a pass to make; the credits are bounded by what the game
\* holds, and its total by what fits the ship.
TradeCounts == /\ TradeTypeOK
               /\ deal # "idle" => passes >= 1

\* Every variable of a trade run has its type.
LEMMA TradeTypesKept ==
  ASSUME TradeCounts, TradeNumbers, TradeNumbers', [TradeNext]_tradeVars
  PROVE  TradeCounts'
<1> DEFINE Places == {"idle", "pass", "hop", "dock", "cascade", "offered", "accept", "dealt", "warp", "confirm", "crossing", "over"}
           Counters == {"command", "quantity", "offer", "confirm", "avoid", "other"}
           Fits == /\ deal' \in Places /\ passes' \in Nat /\ passes' >= 1 /\ paid' \in Nat /\ offer' \in 0..(Dear * Load)
                   /\ armed' \in BOOLEAN /\ aborting' \in BOOLEAN /\ trader' \in 0..Hops /\ credits' \in 0..Wealth
                   /\ counter' \in Counters
<1>1. /\ credits' \in Nat /\ turns' \in Nat /\ budget' \in Nat /\ hop' \in 1..Hops /\ made' \in 0..Longest
      /\ mute' \in BOOLEAN /\ strayed' \in BOOLEAN /\ (leg' = "buy" \/ leg' = "sell")
  BY DEF TradeNumbers
<1>2. Fits => TradeCounts'
  BY <1>1 DEF TradeCounts, TradeTypeOK
<1>3. /\ deal \in Places /\ passes \in Nat /\ hop \in 1..Hops /\ leg \in {"buy", "sell"} /\ budget \in Nat /\ paid \in Nat /\ made \in 0..Longest
      /\ offer \in 0..(Dear * Load) /\ armed \in BOOLEAN /\ aborting \in BOOLEAN /\ trader \in 0..Hops
      /\ credits \in 0..Wealth /\ counter \in Counters /\ (deal # "idle" => passes >= 1)
  BY DEF TradeCounts, TradeTypeOK
<1>4. /\ Hops \in Nat /\ Hops >= 2 /\ Longest \in Nat /\ Passes \subseteq Nat \ {0} /\ Floor \in Nat /\ Load \in Nat /\ Dear \in Nat
      /\ Wealth \in Nat /\ Load * Dear \in Nat /\ Dear * Load \in Nat
  BY TradeAssumption
<1>5. offer \in Nat
  BY <1>3, <1>4
<1>6. Successor(hop) \in 1..Hops
  BY <1>3, <1>4 DEF Successor
<1>14. Successor(hop) \in 0..Hops /\ Between \in 0..Hops
  BY <1>4, <1>6 DEF Between
<1> HIDE DEF Places, Counters
<1>7. {"idle", "pass", "hop", "dock", "cascade", "offered", "accept", "dealt", "warp", "confirm", "crossing", "over"} \subseteq Places
  BY DEF Places
<1>8. {"command", "quantity", "offer", "confirm", "avoid", "other"} \subseteq Counters
  BY DEF Counters
<1>9. ASSUME NEW n \in Passes, TradeStarts(n) PROVE Fits
  <2>1. credits' \in Floor..Wealth /\ n \in Nat /\ n >= 1
    BY <1>4, <1>9 DEF TradeStarts
  <2> QED BY <1>3, <1>4, <1>7, <1>9, <2>1 DEF TradeStarts
<1>10. ASSUME NEW why, Holds(why), deal # "idle" PROVE Fits
  BY <1>3, <1>7, <1>10 DEF Holds, hopVars, marketVars, snapVars, pastVars
<1>11. ASSUME NEW next \in Places, NotConfirmed(next) PROVE deal' \in Places /\ armed' \in BOOLEAN
  BY <1>3, <1>7, <1>11 DEF NotConfirmed
<1>12. CASE deal = "idle"
  <2>1. (\E n \in Passes : TradeStarts(n)) \/ TradePreempted \/ UNCHANGED tradeVars
    BY <1>12 DEF TradeNext, DriverStep, PassStarts, HopStarts, Refused, Docks, Orders, Declines, Depleted, Considers, Accepts, Settles,
                 Warps, WarpAnswered, DriverRaises, TradeStopped, HumanPlays
  <2>2. CASE TradePreempted
    <3>1. armed' = FALSE /\ UNCHANGED <<deal, passes, paid, aborting, trader, credits, counter, offer>>
      BY <2>2 DEF TradePreempted, hopVars, marketVars
    <3> HIDE DEF Fits
    <3>2. deal' \in {"idle", "pass", "hop", "dock", "cascade", "offered", "accept", "dealt", "warp", "confirm", "crossing", "over"}
      BY <1>12, <3>1
    <3>3. counter' \in {"command", "quantity", "offer", "confirm", "avoid", "other"}
      BY <1>3, <3>1 DEF Counters
    <3> QED BY <1>1, <1>3, <1>12, <3>1, <3>2, <3>3 DEF TradeCounts, TradeTypeOK
  <2>3. CASE UNCHANGED tradeVars
    BY <2>3 DEF tradeVars, hopVars, marketVars, snapVars, tradeRunVars, pastVars, TradeCounts, TradeTypeOK
  <2> HIDE DEF Fits
  <2> QED BY <1>2, <1>9, <2>1, <2>2, <2>3
<1>13. ASSUME deal # "idle" PROVE Fits
  <2>0. passes >= 1
    BY <1>3, <1>13
  <2>1. CASE \E why : Holds(why)
    BY <1>10, <1>13, <2>1
  <2>2. ASSUME ~\E why : Holds(why) PROVE Fits
    <3> DEFINE still == UNCHANGED <<paid, aborting, trader, credits, offer>>
    <3>1. CASE PassStarts \/ HopStarts \/ Considers
      BY <1>3, <1>7, <2>0, <2>2, <3>1 DEF PassStarts, HopStarts, Considers, hopVars, marketVars, snapVars, tradeRunVars, pastVars
    <3>2. CASE Docks
      BY <1>3, <1>7, <1>8, <1>11, <2>0, <2>2, <3>2 DEF Docks
    <3>3. CASE Orders
      <4>1. offer' \in 0..(Dear * Load)
        <5>1. PICK live \in 1..Load : \E total \in 1..(Dear * Quantity(live, snapCredits)) : offer' = total
          BY <3>3 DEF Orders
        <5>2. live \in Nat /\ live <= Load /\ snapCredits \in Nat
          BY <1>4 DEF TradeNumbers
        <5>3. Affordable(snapCredits) \in Nat
          BY <1>4, <5>2 DEF Affordable
        <5>4. Quantity(live, snapCredits) \in Nat /\ Quantity(live, snapCredits) <= Load
          BY <1>4, <5>2, <5>3 DEF Quantity, Least
        <5>5. \A q \in Nat : q <= Load => Dear * q \in Nat /\ Dear * q <= Dear * Load
          <6> SUFFICES ASSUME NEW q \in Nat, q <= Load PROVE Dear * q \in Nat /\ Dear * q <= Dear * Load
            OBVIOUS
          <6>1. Load - q \in Nat
            BY <1>4
          <6>2. Dear * q \in Nat /\ Dear * (Load - q) \in Nat
            BY <1>4, <6>1
          <6>3. Dear * (Load - q) = Dear * Load - Dear * q
            BY <1>4
          <6> QED BY <1>4, <6>2, <6>3
        <5>6. Dear * Quantity(live, snapCredits) \in Nat /\ Dear * Quantity(live, snapCredits) <= Dear * Load
          BY <5>4, <5>5
        <5> HIDE DEF Fits
        <5> QED BY <1>4, <5>1, <5>6
      <4>2. deal' \in Places /\ armed' \in BOOLEAN /\ counter' \in Counters
        BY <1>7, <1>8, <1>11, <3>3 DEF Orders
      <4> QED BY <1>3, <2>0, <3>3, <4>1, <4>2 DEF Orders, hopVars, snapVars, pastVars
    <3>4. CASE Accepts
      <4>1. credits' \in 0..Wealth
        BY <1>1, <1>3, <1>4, <1>5, <3>4 DEF Accepts, Least
      <4>2. deal' \in Places /\ armed' \in BOOLEAN /\ counter' \in Counters
        BY <1>7, <1>8, <1>11, <3>4 DEF Accepts
      <4> QED BY <1>3, <2>0, <3>4, <4>1, <4>2 DEF Accepts, hopVars
    <3>5. CASE Settles
      <4>1. CASE AfterPass
        <5>1. passes # 1 /\ deal' = "pass" /\ passes' = passes - 1
              /\ UNCHANGED <<hop, leg, budget, paid, marketVars, snapVars, tradeRunVars, pastVars>>
          BY <2>2, <4>1 DEF AfterPass
        <5>2. passes' \in Nat /\ passes' >= 1
          BY <1>3, <2>0, <5>1
        <5> QED BY <1>3, <1>7, <5>1, <5>2 DEF marketVars, snapVars, tradeRunVars, pastVars
      <4>2. CASE ~AfterPass
        BY <1>3, <1>5, <1>7, <2>0, <2>2, <3>5, <4>2 DEF Settles, marketVars, snapVars, tradeRunVars, pastVars
      <4> QED BY <4>1, <4>2
    <3>0. ASSUME NEW last \in BOOLEAN, GameWarps(last) PROVE counter' \in Counters /\ trader' \in 0..Hops
      BY <1>3, <1>8, <1>14, <3>0 DEF GameWarps
    <3>6. CASE Warps
      <4>0. PICK last \in BOOLEAN :
              /\ \/ GameWarps(last)
                 \/ UNCHANGED <<trader, turns, strayed>> /\ counter' \in {"confirm", "avoid"}
              /\ NotConfirmed(IF last THEN "confirm" ELSE "crossing")
        BY <2>2, <3>6 DEF Warps
      <4>1. deal' \in Places /\ armed' \in BOOLEAN
        BY <1>7, <1>11, <4>0
      <4>2. counter' \in Counters /\ trader' \in 0..Hops
        BY <1>3, <1>8, <3>0, <4>0
      <4> QED BY <1>3, <2>0, <2>2, <3>6, <4>1, <4>2 DEF Warps, snapVars
    <3>7. CASE WarpAnswered
      <4> DEFINE last == deal = "confirm"
                 next == IF last THEN "dock" ELSE "warp"
      <4>0. next \in Places
        BY <1>7
      <4>1. CASE GameWarps(last) /\ NotConfirmed(next) /\ UNCHANGED <<hopVars, aborting, credits, offer, snapVars, mute>>
        <5>1. deal' \in Places /\ armed' \in BOOLEAN
          <6> HIDE DEF next
          <6> QED BY <1>11, <4>0, <4>1
        <5>2. counter' \in Counters /\ trader' \in 0..Hops
          BY <3>0, <4>1
        <5> QED BY <1>3, <2>0, <4>1, <5>1, <5>2 DEF hopVars
      <4>2. CASE ~GameWarps(last)
        <5>1. deal' \in Places
          BY <1>7, <3>7, <4>0, <4>2 DEF WarpAnswered
        <5> QED BY <1>3, <1>8, <2>0, <3>7, <4>2, <5>1 DEF WarpAnswered, hopVars, marketVars, snapVars, tradeRunVars, pastVars
      <4> QED BY <1>3, <1>7, <1>8, <2>0, <3>7, <4>1, <4>2 DEF WarpAnswered, hopVars, marketVars, snapVars, tradeRunVars, pastVars
    <3>8. CASE TradeStopped \/ TradePreempted \/ HumanPlays \/ UNCHANGED tradeVars
      BY <1>3, <1>4, <1>8, <2>0, <3>8 DEF TradeStopped, TradePreempted, HumanPlays, tradeVars, hopVars, marketVars, snapVars, tradeRunVars, pastVars
    <3>10. CASE Declines
      BY <1>3, <1>7, <1>8, <2>0, <2>2, <3>10 DEF Declines, snapVars, tradeRunVars, pastVars
    <3>9. ~Refused /\ ~Depleted /\ ~DriverRaises /\ (\A n \in Passes : ~TradeStarts(n))
      BY <1>13, <2>2 DEF Refused, Depleted, DriverRaises, TradeStarts
    <3> HIDE DEF Fits
    <3> QED BY <3>1, <3>2, <3>3, <3>4, <3>5, <3>6, <3>7, <3>8, <3>9, <3>10 DEF TradeNext, DriverStep
  <2> HIDE DEF Fits
  <2> QED BY <2>1, <2>2
<1> QED BY <1>2, <1>12, <1>13

\* TradeTypeOK, on every ring of ports and with every wealth.
LEMMA TradeIsTyped == TradeSpec => []TradeTypeOK
<1>1. TradeInit => TradeCounts
  <2>1. /\ 0 \in 0..Wealth /\ Floor \in 0..Wealth /\ 1 \in 1..Hops /\ 1 \in 0..Hops /\ 0 \in 0..Longest /\ Dear * Load \in Nat
    BY TradeAssumption
  <2>2. 0 \in 0..(Dear * Load)
    BY <2>1
  <2> SUFFICES ASSUME TradeInit PROVE TradeCounts
    OBVIOUS
  <2>3. /\ deal = "idle" /\ passes = 0 /\ hop = 1 /\ leg = "buy" /\ budget = 0 /\ paid = 0 /\ made = 0 /\ trader = 1
        /\ credits = Floor /\ turns = 0 /\ counter = "command" /\ offer = 0
    BY DEF TradeInit
  <2>4. armed \in BOOLEAN /\ aborting \in BOOLEAN /\ mute \in BOOLEAN /\ strayed \in BOOLEAN
    BY DEF TradeInit
  <2>5. TradeTypeOK
    BY <2>1, <2>2, <2>3, <2>4 DEF TradeTypeOK
  <2> QED BY <2>3, <2>5 DEF TradeCounts
<1>2. TradeInv => TradeNumbers
  BY DEF TradeInv
<1>3. TradeCounts => TradeTypeOK
  BY DEF TradeCounts
<1> QED BY <1>1, <1>2, <1>3, TradeBegins, TradeKept, TradeTypesKept, PTL DEF TradeSpec

-----------------------------------------------------------------------------
(* A macro run *)

\* The first refusal of a boundary exists whenever there is one, so a boundary
\* that is clear found no refusal at all.
LEMMA ClearIsClear ==
  ASSUME order.armed \subseteq Gauges, NEW klass, NEW sector, NEW stranded, NEW snaps, Judge(klass, sector, stranded, snaps) = "clear"
  PROVE  /\ Gate(klass) = "clear"
         /\ \A g \in order.armed : Ladder(g, snaps[g]) = "clear"
<1> DEFINE last == IF at = 0 THEN Anchor(sector) ELSE IF klass # "expected" THEN "post_class" ELSE "clear"
           verdicts == <<Gate(klass), Hazard(klass, stranded), Rail("credits", snaps),
                         Rail("turns", snaps), Rail("profit", snaps), last>>
           bad == {i \in DOMAIN verdicts : verdicts[i] # "clear"}
<1>1. Judge(klass, sector, stranded, snaps) = IF bad = {} THEN "clear" ELSE verdicts[CHOOSE i \in bad : \A j \in bad : i <= j]
  BY DEF Judge
<1>2. DOMAIN verdicts = 1..6
  OBVIOUS
<1>3. bad \subseteq 1..6
  BY <1>2
<1>4. bad # {} => \E i \in bad : \A j \in bad : i <= j
  <2> HIDE DEF bad
  <2>1. \A i \in bad : i = 1 \/ i = 2 \/ i = 3 \/ i = 4 \/ i = 5 \/ i = 6
    BY <1>3
  <2>2. CASE 1 \in bad
    BY <2>1, <2>2
  <2>3. CASE 1 \notin bad /\ 2 \in bad
    BY <2>1, <2>3
  <2>4. CASE 1 \notin bad /\ 2 \notin bad /\ 3 \in bad
    BY <2>1, <2>4
  <2>5. CASE 1 \notin bad /\ 2 \notin bad /\ 3 \notin bad /\ 4 \in bad
    BY <2>1, <2>5
  <2>6. CASE 1 \notin bad /\ 2 \notin bad /\ 3 \notin bad /\ 4 \notin bad /\ 5 \in bad
    BY <2>1, <2>6
  <2>7. CASE 1 \notin bad /\ 2 \notin bad /\ 3 \notin bad /\ 4 \notin bad /\ 5 \notin bad
    BY <2>1, <2>7
  <2> QED
    BY <2>2, <2>3, <2>4, <2>5, <2>6, <2>7
<1>5. bad = {}
  <2>1. SUFFICES ASSUME bad # {} PROVE FALSE
    OBVIOUS
  <2>2. PICK i \in bad : i = CHOOSE k \in bad : \A j \in bad : k <= j
    <3> HIDE DEF bad
    <3> QED
      BY <1>4, <2>1
  <2>3. verdicts[i] = "clear"
    <3> HIDE DEF bad, verdicts
    <3> QED
      BY <1>1, <2>1, <2>2
  <2> QED
    BY <2>3
<1>6. \A i \in 1..6 : verdicts[i] = "clear"
  <2> HIDE DEF verdicts
  <2> QED
    BY <1>2, <1>5
<1>7. Gate(klass) = "clear" /\ Rail("credits", snaps) = "clear" /\ Rail("turns", snaps) = "clear" /\ Rail("profit", snaps) = "clear"
  BY <1>6
<1>8. \A g \in order.armed : Ladder(g, snaps[g]) = "clear"
  BY <1>7 DEF Rail, Gauges
<1> QED
  BY <1>7, <1>8

Inside == player = "settle" \/ player = "look" \/ player = "press" \/ player = "confirm"
PlayerNumbers ==
  /\ at \in Nat /\ cycle \in Nat /\ sends \in Nat /\ pressed \in Nat /\ late \in Nat
  /\ order.cycles \in Nat \ {0} /\ order.armed \subseteq Gauges
\* Nothing is pressed late before the stop, and a run that has pressed late
\* is not about to press again.
LateInv ==
  /\ ~stop \/ player = "idle" => late = 0
  /\ player = "press" => late = 0
  /\ late <= 1
\* The wire has seen every step of the finished passes and the steps of this
\* one; a pass that goes on has not finished yet.
CountInv ==
  /\ player = "idle" => sends = 0 /\ pressed = 0 /\ cycle = 0
  /\ player = "pass" => pressed = sends /\ sends = cycle * Steps /\ cycle < order.cycles
  /\ Inside => /\ pressed = sends + at /\ sends + Steps = cycle * Steps
               /\ cycle <= order.cycles /\ at <= Steps
  /\ player = "press" => at < Steps
  /\ ReportTruthful
RunInv == PlayerNumbers /\ LateInv /\ CountInv

\* The player begins idle, with nothing typed.
LEMMA PlayBegins == PlayerInit => RunInv
<1> SUFFICES ASSUME PlayerInit PROVE RunInv
  OBVIOUS
<1>1. /\ player = "idle" /\ at = 0 /\ cycle = 0 /\ sends = 0 /\ pressed = 0 /\ late = 0
      /\ order.cycles = 1 /\ order.armed = {}
  BY DEF PlayerInit, NoOrder
<1>2. ~Inside
  BY <1>1 DEF Inside
<1>3. PlayerNumbers
  BY <1>1 DEF PlayerNumbers
<1>4. LateInv
  BY <1>1 DEF LateInv
<1>5. CountInv
  BY <1>1, <1>2 DEF CountInv, ReportTruthful
<1> QED
  BY <1>3, <1>4, <1>5 DEF RunInv

\* The end of a run: its report is honest, or it carries an error.
LEMMA RunCloses ==
  ASSUME RunInv, player' = "over", UNCHANGED <<at, cycle, stop, order, pressed, late>>, sends' \in Nat,
         report'.error \/ (report'.sends = pressed /\ (report'.outcome = "completed" => pressed = order.cycles * Steps))
  PROVE  RunInv'
<1>1. ~Inside'
  BY DEF Inside
<1>2. PlayerNumbers'
  BY DEF RunInv, PlayerNumbers
<1>3. LateInv'
  BY DEF RunInv, LateInv
<1>4. ReportTruthful'
  BY DEF ReportTruthful
<1>5. CountInv'
  BY <1>1, <1>4 DEF CountInv
<1> QED
  BY <1>2, <1>3, <1>5 DEF RunInv

\* A halt counts what the finished passes and this one sent.
LEMMA RunHalts ==
  ASSUME RunInv, Inside, NEW why, Halts(why)
  PROVE  RunInv'
<1>1. player' = "over" /\ UNCHANGED <<at, cycle, sends, stop, order, pressed, late>>
      /\ report' = [outcome |-> "halted", reason |-> why, sends |-> sends + at, error |-> FALSE]
  BY DEF Halts, Ends, playerOrderVars
<1>2. pressed = sends + at /\ sends \in Nat
  BY DEF RunInv, CountInv, PlayerNumbers
<1> QED
  BY <1>1, <1>2, RunCloses

\* A step inside a pass that neither sends nor ends it.
LEMMA RunGoesOn ==
  ASSUME RunInv, Inside, Inside', UNCHANGED <<at, cycle, sends, order, pressed, late, stop>>,
         player' = "press" => at < Steps /\ late = 0
  PROVE  RunInv'
<1>1. PlayerNumbers'
  BY DEF RunInv, PlayerNumbers
<1>3. player' # "idle" /\ player' # "pass" /\ player' # "over"
  BY DEF Inside
<1>2. LateInv'
  BY <1>3 DEF RunInv, LateInv
<1>4. CountInv'
  BY <1>3 DEF RunInv, CountInv, ReportTruthful
<1> QED
  BY <1>1, <1>2, <1>4 DEF RunInv

\* A step beside the run's thread.
LEMMA RunWatches ==
  ASSUME RunInv, UNCHANGED <<player, at, cycle, sends, order, pressed, late, report>>,
         stop => stop'
  PROVE  RunInv'
<1>1. Inside' = Inside
  BY DEF Inside
<1>2. PlayerNumbers'
  BY DEF RunInv, PlayerNumbers
<1>3. LateInv'
  BY DEF RunInv, LateInv
<1>4. CountInv'
  BY <1>1 DEF RunInv, CountInv, ReportTruthful
<1> QED
  BY <1>2, <1>3, <1>4 DEF RunInv

\* Every step of a run keeps its count.
LEMMA RunKept == RunInv /\ [PlayerNext]_playerVars => RunInv'
<1> SUFFICES ASSUME RunInv, [PlayerNext]_playerVars PROVE RunInv'
  OBVIOUS
<1> USE PlayerAssumption
<1>a. PlayerNumbers /\ LateInv /\ CountInv
  BY DEF RunInv
<1>1. ASSUME NEW n \in Requests, NEW wants \in ArmedSets, Starts(n, wants) PROVE RunInv'
  <2>1. PICK anchored \in BOOLEAN, bound \in BOOLEAN : order' = [cycles |-> Cycles(n), armed |-> wants, anchored |-> anchored, bound |-> bound]
    BY <1>1, Zenon DEF Starts
  <2>2. player = "idle" /\ n > 0 /\ player' = "pass" /\ stop' = FALSE /\ UNCHANGED <<at, cycle, sends, pressed, late>>
    BY <1>1 DEF Starts, passVars
  <2>3. order'.cycles = Cycles(n) /\ order'.armed = wants
    BY <2>1
  <2>4. Cycles(n) \in Nat \ {0} /\ wants \subseteq Gauges
    BY <2>2 DEF Cycles
  <2>5. sends = 0 /\ pressed = 0 /\ cycle = 0
    BY <1>a, <2>2 DEF CountInv
  <2>6. late = 0
    BY <1>a, <2>2 DEF LateInv
  <2>7. ~Inside'
    BY <2>2 DEF Inside
  <2>8. PlayerNumbers'
    BY <1>a, <2>2, <2>3, <2>4 DEF PlayerNumbers
  <2>9. LateInv'
    BY <2>2, <2>6 DEF LateInv
  <2>10. CountInv'
    BY <2>2, <2>3, <2>4, <2>5, <2>7 DEF CountInv, ReportTruthful
  <2> QED
    BY <2>8, <2>9, <2>10 DEF RunInv
<1>2. CASE PassBegins
  <2>1. CASE Ends("halted", "operator_stop", sends, FALSE)
    <3>1. player = "pass" /\ player' = "over" /\ UNCHANGED <<at, cycle, sends, stop, order, pressed, late>>
          /\ report' = [outcome |-> "halted", reason |-> "operator_stop", sends |-> sends, error |-> FALSE]
      BY <1>2, <2>1 DEF PassBegins, Ends, playerOrderVars
    <3>2. pressed = sends /\ sends \in Nat
      BY <1>a, <3>1 DEF CountInv, PlayerNumbers
    <3> QED
      BY <3>1, <3>2, RunCloses
  <2>2. CASE ~Ends("halted", "operator_stop", sends, FALSE)
    <3>1. player = "pass" /\ player' = "settle" /\ cycle' = cycle + 1 /\ at' = 0 /\ ~stop
          /\ UNCHANGED <<order, sends, stop, pressed, late>>
      BY <1>2, <2>2 DEF PassBegins, playerOrderVars
    <3>2. pressed = sends /\ sends = cycle * Steps /\ cycle < order.cycles
      BY <1>a, <3>1 DEF CountInv
    <3>3. (cycle + 1) * Steps = cycle * Steps + Steps
      BY <1>a DEF PlayerNumbers
    <3>4. PlayerNumbers'
      BY <1>a, <3>1 DEF PlayerNumbers
    <3>5. LateInv'
      BY <1>a, <3>1 DEF LateInv
    <3>6. CountInv'
      <4>1. pressed' = sends' + at' /\ cycle' <= order'.cycles /\ at' <= Steps
        BY <1>a, <3>1, <3>2 DEF PlayerNumbers
      <4>2. sends' + Steps = cycle' * Steps
        BY <3>1, <3>2, <3>3
      <4> QED
        BY <3>1, <4>1, <4>2 DEF CountInv, ReportTruthful
    <3> QED
      BY <3>4, <3>5, <3>6 DEF RunInv
  <2> QED
    BY <2>1, <2>2
<1>3. CASE PassRaises
  <2>1. PICK how, why, n : Ends(how, why, n, TRUE)
    BY <1>3 DEF PassRaises
  <2>2. player' = "over" /\ UNCHANGED <<at, cycle, sends, stop, order, pressed, late>> /\ report'.error
    BY <2>1 DEF Ends, playerOrderVars
  <2>3. sends \in Nat
    BY <1>a DEF PlayerNumbers
  <2> QED
    BY <2>2, <2>3, RunCloses
<1>4. CASE SettleEnds
  <2>0. Inside
    BY <1>4 DEF SettleEnds, Inside
  <2>1. CASE Halts("settle_failed")
    BY <2>0, <2>1, RunHalts
  <2>2. CASE ~Halts("settle_failed")
    <3>1. player' = "look" /\ UNCHANGED <<at, cycle, sends, order, pressed, late, stop>>
      BY <1>4, <2>2 DEF SettleEnds, playerOrderVars, passVars
    <3>2. Inside' /\ player' # "press"
      BY <3>1 DEF Inside
    <3> QED
      BY <2>0, <3>1, <3>2, RunGoesOn
  <2> QED
    BY <2>1, <2>2
<1>5. CASE Looks
  <2>1. PICK klass \in Classes, sector \in Sectors, stranded \in BOOLEAN, fed \in SUBSET order.armed :
       LET verdict == Judge(klass, sector, stranded, Snapshots(fed))
       IN IF verdict # "clear"
             THEN BoundaryRefused(verdict)
             ELSE IF at < Steps
             THEN player' = "press" /\ UNCHANGED <<held, report, sends>>
             ELSE IF cycle < order.cycles
             THEN player' = "pass" /\ sends' = sends + at /\ UNCHANGED <<held, report>>
             ELSE /\ player' = "over" /\ held' = FALSE /\ sends' = sends + at
                  /\ report' = [outcome |-> "completed", reason |-> "none",
                                sends |-> sends + at, error |-> FALSE]
    BY <1>5, Zenon DEF Looks
  <2> DEFINE verdict == Judge(klass, sector, stranded, Snapshots(fed))
  <2>2. player = "look" /\ UNCHANGED <<order, at, cycle, stop, pressed, late>>
    BY <1>5 DEF Looks, playerOrderVars
  <2>3. Inside
    BY <2>2 DEF Inside
  <2>4. pressed = sends + at /\ sends + Steps = cycle * Steps /\ cycle <= order.cycles /\ at <= Steps
    BY <1>a, <2>3 DEF CountInv
  <2>5. verdict = "clear" => late = 0
    <3>1. SUFFICES ASSUME verdict = "clear" PROVE ~stop
      BY <1>a DEF LateInv
    <3>2. Gate(klass) = "clear"
      BY <1>a, <3>1, ClearIsClear DEF PlayerNumbers
    <3> QED
      BY <3>2 DEF Gate
  <2> HIDE DEF verdict
  <2>6. CASE verdict # "clear"
    <3>1. player' = "over" /\ UNCHANGED sends
          /\ report' = [outcome |-> "halted", reason |-> verdict, sends |-> sends + at, error |-> FALSE]
      BY <2>1, <2>6 DEF BoundaryRefused, verdict
    <3>2. sends' \in Nat
      BY <1>a, <3>1 DEF PlayerNumbers
    <3> QED
      BY <2>2, <2>4, <3>1, <3>2, RunCloses
  <2>7. CASE verdict = "clear" /\ at < Steps
    <3>1. player' = "press" /\ UNCHANGED sends
      BY <2>1, <2>7 DEF verdict
    <3>2. Inside'
      BY <3>1 DEF Inside
    <3> QED
      BY <2>2, <2>3, <2>5, <2>7, <3>1, <3>2, RunGoesOn
  <2>8. CASE verdict = "clear" /\ ~(at < Steps)
    <3>1. at = Steps /\ pressed = sends + at /\ sends + at = cycle * Steps /\ sends + at \in Nat
      BY <1>a, <2>4, <2>8 DEF PlayerNumbers
    <3>2. CASE cycle < order.cycles
      <4>1. player' = "pass" /\ sends' = sends + at
        BY <2>1, <2>8, <3>2 DEF verdict
      <4>2. ~Inside'
        BY <4>1 DEF Inside
      <4>3. PlayerNumbers'
        BY <1>a, <2>2, <3>1, <4>1 DEF PlayerNumbers
      <4>4. LateInv'
        BY <1>a, <2>2, <4>1 DEF LateInv
      <4>5. CountInv'
        BY <2>2, <3>1, <3>2, <4>1, <4>2 DEF CountInv, ReportTruthful
      <4> QED
        BY <4>3, <4>4, <4>5 DEF RunInv
    <3>3. CASE ~(cycle < order.cycles)
      <4>1. player' = "over" /\ sends' = sends + at
            /\ report' = [outcome |-> "completed", reason |-> "none", sends |-> sends + at, error |-> FALSE]
        BY <2>1, <2>8, <3>3 DEF verdict
      <4>2. cycle = order.cycles
        BY <1>a, <2>4, <3>3 DEF PlayerNumbers
      <4> QED
        BY <2>2, <3>1, <4>1, <4>2, RunCloses
    <3> QED
      BY <3>2, <3>3
  <2> QED
    BY <2>6, <2>7, <2>8
<1>6. CASE Presses
  <2>1. player = "press" /\ player' = "confirm" /\ at' = at + 1 /\ pressed' = pressed + 1
        /\ late' = (IF stop THEN late + 1 ELSE late) /\ UNCHANGED <<order, cycle, sends, stop, report>>
    BY <1>6 DEF Presses, playerOrderVars
  <2>2. Inside /\ Inside'
    BY <2>1 DEF Inside
  <2>3. pressed = sends + at /\ sends + Steps = cycle * Steps /\ cycle <= order.cycles /\ at < Steps /\ late = 0
    BY <1>a, <2>1, <2>2 DEF CountInv, LateInv
  <2>4. PlayerNumbers'
    BY <1>a, <2>1 DEF PlayerNumbers
  <2>5. LateInv'
    BY <2>1, <2>3 DEF LateInv
  <2>6. pressed' = sends' + at' /\ at' <= Steps
    BY <1>a, <2>1, <2>3 DEF PlayerNumbers
  <2>7. CountInv'
    BY <2>1, <2>3, <2>6 DEF CountInv, ReportTruthful
  <2> QED
    BY <2>4, <2>5, <2>7 DEF RunInv
<1>7. CASE Confirms
  <2>0. Inside
    BY <1>7 DEF Confirms, Inside
  <2>1. CASE Halts("confirm_failed")
    BY <2>0, <2>1, RunHalts
  <2>2. CASE ~Halts("confirm_failed")
    <3>1. player' = "settle" /\ UNCHANGED <<at, cycle, sends, order, pressed, late, stop>>
      BY <1>7, <2>2 DEF Confirms, playerOrderVars, passVars
    <3>2. Inside' /\ player' # "press"
      BY <3>1 DEF Inside
    <3> QED
      BY <2>0, <3>1, <3>2, RunGoesOn
  <2> QED
    BY <2>1, <2>2
<1>8. ASSUME NEW wish \in {"stop", "pause"}, StandsDown(wish) PROVE RunInv'
  <2>1. UNCHANGED <<player, at, cycle, sends, order, pressed, late, report>>
    BY <1>8 DEF StandsDown, passVars
  <2>2. stop' = (stop \/ player \notin {"idle", "over"})
    BY <1>8 DEF StandsDown
  <2> QED
    BY <2>1, <2>2, RunWatches
<1>9. CASE HumanTakesSeat \/ HumanSpends \/ Ages \/ UNCHANGED playerVars
  <2>1. UNCHANGED <<player, at, cycle, sends, order, pressed, late, report, stop>>
    BY <1>9 DEF HumanTakesSeat, HumanSpends, Ages, playerVars, passVars, playerOrderVars
  <2> QED
    BY <2>1, RunWatches
<1> QED
  BY <1>1, <1>2, <1>3, <1>4, <1>5, <1>6, <1>7, <1>8, <1>9 DEF PlayerNext, ThreadStep

\* A run sends at most once after it was stopped, and its report counts every
\* send (RunAccounted), for any macro, any ceiling and any number of cycles.
THEOREM RunsReport == PlayerSpec => []RunAccounted
<1>1. RunInv => RunAccounted
  BY DEF RunInv, LateInv, CountInv, RunAccounted, StopWithinOneStep
<1> QED
  BY <1>1, PlayBegins, RunKept, PTL DEF PlayerSpec

\* The gauges the game has shown since they moved are known as they are, and
\* where the run is about to press they are clear of their rails.
ToldAndClear == \A g \in order.armed : told[g] => ~Passed(g, real[g])
SnapsInv ==
  /\ order.armed \subseteq Gauges
  /\ told \in [order.armed -> BOOLEAN]
  /\ seen \in [order.armed -> [known : BOOLEAN, fresh : BOOLEAN, value : 0..Top]]
  /\ real \in [order.armed -> 0..Top]
  /\ \A g \in order.armed : told[g] => seen[g].value = real[g]
  /\ player = "press" => ToldAndClear

\* What the game moved it has not shown yet, and what it did not move stays.
LEMMA GaugesMove ==
  ASSUME SnapsInv, GameMoves, UNCHANGED <<order, seen>>, player' = "press" => player = "press"
  PROVE  SnapsInv'
<1>1. PICK v \in [order.armed -> 0..Top] :
        real' = v /\ told' = [g \in order.armed |-> told[g] /\ v[g] = real[g]]
  BY Zenon DEF GameMoves
<1>2. \A g \in order.armed : told'[g] => told[g] /\ real'[g] = real[g]
  BY <1>1
<1>3. told' \in [order.armed -> BOOLEAN]
  BY <1>1
<1>4. \A g \in order.armed : told'[g] => seen'[g].value = real'[g]
  BY <1>2 DEF SnapsInv
<1>5. player' = "press" => ToldAndClear'
  <2>1. SUFFICES ASSUME player' = "press", NEW g \in order.armed, told'[g] PROVE ~Passed(g, real'[g])
    BY DEF ToldAndClear
  <2> QED
    BY <1>2, <2>1 DEF SnapsInv, ToldAndClear
<1> QED
  BY <1>1, <1>3, <1>4, <1>5 DEF SnapsInv

\* A step that leaves the gauges alone keeps what is known of them, unless it
\* reaches the press.
LEMMA GaugesStay ==
  ASSUME SnapsInv, UNCHANGED <<order, seen, told, real>>, player' = "press" => player = "press"
  PROVE  SnapsInv'
  BY DEF SnapsInv, ToldAndClear

\* Every step of a run and of the game keeps what the run knows of its gauges.
LEMMA GaugesKept == SnapsInv /\ [PlayerNext]_playerVars => SnapsInv'
<1> SUFFICES ASSUME SnapsInv, [PlayerNext]_playerVars PROVE SnapsInv'
  OBVIOUS
<1> USE PlayerAssumption
<1>1. ASSUME NEW n \in Requests, NEW wants \in ArmedSets, Starts(n, wants) PROVE SnapsInv'
  <2>1. PICK anchored \in BOOLEAN, bound \in BOOLEAN, v \in [wants -> 0..Top] :
          order' = [cycles |-> Cycles(n), armed |-> wants, anchored |-> anchored, bound |-> bound] /\ real' = v
    BY <1>1, Zenon DEF Starts
  <2>2. seen' = [g \in wants |-> NotSeen] /\ told' = [g \in wants |-> FALSE] /\ player' = "pass"
    BY <1>1 DEF Starts
  <2>3. order'.armed = wants /\ wants \subseteq Gauges
    BY <2>1
  <2>4. NotSeen \in [known : BOOLEAN, fresh : BOOLEAN, value : 0..Top]
    BY DEF NotSeen
  <2> QED
    BY <2>1, <2>2, <2>3, <2>4 DEF SnapsInv
<1>2. CASE Looks
  <2>1. PICK klass \in Classes, sector \in Sectors, stranded \in BOOLEAN, fed \in SUBSET order.armed :
       /\ seen' = Snapshots(fed) /\ told' = [g \in order.armed |-> told[g] \/ g \in fed]
       /\ Judge(klass, sector, stranded, Snapshots(fed)) # "clear" => player' = "over"
    BY <1>2 DEF Looks, BoundaryRefused
  <2>2. UNCHANGED <<order, real>>
    BY <1>2 DEF Looks, playerOrderVars
  <2>3. \A g \in order.armed : seen'[g] = IF g \in fed THEN [known |-> TRUE, fresh |-> TRUE, value |-> real[g]] ELSE seen[g]
    BY <2>1 DEF Snapshots
  <2>4. seen' \in [order.armed -> [known : BOOLEAN, fresh : BOOLEAN, value : 0..Top]]
    <3>1. ASSUME NEW g \in order.armed PROVE seen'[g] \in [known : BOOLEAN, fresh : BOOLEAN, value : 0..Top]
      <4>1. real[g] \in 0..Top /\ seen[g] \in [known : BOOLEAN, fresh : BOOLEAN, value : 0..Top]
        BY DEF SnapsInv
      <4>2. CASE g \in fed
        <5>1. seen'[g] = [known |-> TRUE, fresh |-> TRUE, value |-> real[g]]
          BY <2>3, <4>2
        <5> QED
          BY ONLY <4>1, <5>1
      <4>3. CASE g \notin fed
        BY <2>3, <4>1, <4>3
      <4> QED
        BY <4>2, <4>3
    <3> QED
      BY <2>1, <3>1 DEF Snapshots
  <2>5. told' \in [order.armed -> BOOLEAN]
    BY <2>1 DEF SnapsInv
  <2>6. \A g \in order.armed : told'[g] => seen'[g].value = real[g]
    <3>1. SUFFICES ASSUME NEW g \in order.armed, told'[g] PROVE seen'[g].value = real[g]
      OBVIOUS
    <3>2. CASE g \in fed
      <4>1. seen'[g] = [known |-> TRUE, fresh |-> TRUE, value |-> real[g]]
        BY <2>3, <3>2
      <4> QED
        BY ONLY <4>1
    <3>3. CASE g \notin fed
      <4>1. told[g] /\ seen'[g] = seen[g]
        BY <2>1, <2>3, <3>1, <3>3
      <4> QED
        BY <4>1 DEF SnapsInv
    <3> QED
      BY <3>2, <3>3
  <2>7. player' = "press" => ToldAndClear'
    <3>1. SUFFICES ASSUME player' = "press", NEW g \in order.armed, told'[g] PROVE ~Passed(g, real[g])
      BY <2>2 DEF ToldAndClear
    <3>2. Ladder(g, seen'[g]) = "clear"
      BY <2>1, <3>1, ClearIsClear DEF SnapsInv
    <3>3. ~Passed(g, seen'[g].value)
      BY <3>2 DEF Ladder
    <3> QED
      BY <2>6, <3>1, <3>3
  <2> QED
    BY <2>2, <2>4, <2>5, <2>6, <2>7 DEF SnapsInv
<1>3. CASE Presses
  BY <1>3, GaugesMove DEF Presses, playerOrderVars
<1>4. CASE HumanSpends
  BY <1>4, GaugesMove DEF HumanSpends, playerOrderVars
<1>5. CASE Ages
  <2>1. PICK g \in order.armed : seen' = [seen EXCEPT ![g].fresh = FALSE]
    BY <1>5 DEF Ages
  <2>2. UNCHANGED <<order, player, told, real>>
    BY <1>5 DEF Ages, playerOrderVars, playerGameVars
  <2>3. \A h \in order.armed : seen'[h] \in [known : BOOLEAN, fresh : BOOLEAN, value : 0..Top] /\ seen'[h].value = seen[h].value
    BY <2>1 DEF SnapsInv
  <2>4. seen' \in [order.armed -> [known : BOOLEAN, fresh : BOOLEAN, value : 0..Top]]
    BY <2>1, <2>3 DEF SnapsInv
  <2> QED
    BY <2>2, <2>3, <2>4 DEF SnapsInv, ToldAndClear
<1>6. CASE PassBegins \/ PassRaises \/ SettleEnds \/ Confirms
  BY <1>6, GaugesStay DEF PassBegins, PassRaises, SettleEnds, Confirms, Halts, Ends, playerOrderVars, playerGameVars
<1>7. ASSUME NEW wish \in {"stop", "pause"}, StandsDown(wish) PROVE SnapsInv'
  BY <1>7, GaugesStay DEF StandsDown, playerGameVars
<1>8. CASE HumanTakesSeat \/ UNCHANGED playerVars
  BY <1>8, GaugesStay DEF HumanTakesSeat, playerVars, playerOrderVars, playerGameVars
<1> QED
  BY <1>1, <1>2, <1>3, <1>4, <1>5, <1>6, <1>7, <1>8 DEF PlayerNext, ThreadStep

\* No step is pressed past a rail the game has told the session about
\* (RailHonoured), whichever gauges are armed and however the game moves them.
THEOREM RailsHonoured == PlayerSpec => RailHonoured
<1>1. PlayerInit => SnapsInv
  <2>1. order.armed = {} /\ player = "idle" => ToldAndClear
    BY DEF ToldAndClear
  <2> QED
    BY <2>1 DEF PlayerInit, SnapsInv, NoOrder
<1>2. SnapsInv /\ [PlayerNext]_playerVars
        => [Presses => \A g \in order.armed : told[g] => ~Passed(g, real[g])]_playerVars
  BY DEF SnapsInv, ToldAndClear, Presses
<1> QED
  BY <1>1, <1>2, GaugesKept, PTL DEF PlayerSpec, RailHonoured

\* A run has pressed no more than its cycles allow, whenever it ends.
PlayerPlaces == {"idle", "pass", "settle", "look", "press", "confirm", "over"}
PlayTypes ==
  /\ order \in [cycles : 1..Ceiling, armed : SUBSET Gauges, anchored : BOOLEAN, bound : BOOLEAN]
  /\ player \in PlayerPlaces /\ held \in BOOLEAN /\ stop \in BOOLEAN /\ standDown \in {"none", "stop", "pause"}
  /\ report.outcome \in {"none", "halted", "completed", "crashed"}
PlayBounds ==
  at <= Steps /\ cycle <= order.cycles /\ sends <= pressed /\ pressed <= cycle * Steps

\* Every variable of the player keeps its type.
LEMMA PlayTypesKept ==
  ASSUME PlayTypes, RunInv, [PlayerNext]_playerVars
  PROVE  PlayTypes'
<1> DEFINE PlayOrders == [cycles : 1..Ceiling, armed : SUBSET Gauges, anchored : BOOLEAN, bound : BOOLEAN]
           Outcomes == {"none", "halted", "completed", "crashed"}
<1>1. /\ order \in PlayOrders /\ player \in PlayerPlaces /\ held \in BOOLEAN /\ stop \in BOOLEAN
      /\ standDown \in {"none", "stop", "pause"} /\ report.outcome \in Outcomes
  BY DEF PlayTypes
<1>2. \A x \in {"idle", "pass", "settle", "look", "press", "confirm", "over"} : x \in PlayerPlaces
  BY DEF PlayerPlaces
<1> DEFINE Fits == order' \in PlayOrders /\ player' \in PlayerPlaces /\ held' \in BOOLEAN /\ stop' \in BOOLEAN
                   /\ standDown' \in {"none", "stop", "pause"} /\ report'.outcome \in Outcomes
<1> SUFFICES Fits
  BY DEF PlayTypes
<1> HIDE DEF PlayOrders
<1>3. ASSUME NEW n \in Requests, NEW wants \in ArmedSets, Starts(n, wants) PROVE Fits
  <2>1. PICK anchored \in BOOLEAN, bound \in BOOLEAN :
          order' = [cycles |-> Cycles(n), armed |-> wants, anchored |-> anchored, bound |-> bound]
    BY <1>3, Zenon DEF Starts
  <2>2. Cycles(n) \in 1..Ceiling /\ wants \subseteq Gauges
    BY <1>3, PlayerAssumption DEF Cycles, Starts
  <2>3. order' \in PlayOrders
    BY <2>1, <2>2 DEF PlayOrders
  <2> QED BY <1>1, <1>2, <1>3, <2>3 DEF Starts
<1>4. ASSUME NEW what \in Outcomes, NEW why, NEW n, NEW fault, Ends(what, why, n, fault) PROVE Fits
  <2>1. report'.outcome = what /\ player' = "over" /\ held' = FALSE /\ UNCHANGED <<stop, order, standDown>>
    BY <1>4 DEF Ends, playerOrderVars
  <2> QED BY <1>1, <1>2, <2>1
<1>5. CASE PassBegins \/ PassRaises \/ SettleEnds \/ Confirms
  <2>1. CASE \E what \in Outcomes : \E why, n, fault : Ends(what, why, n, fault)
    BY <1>4, <2>1
  <2>2. CASE ~\E what \in Outcomes : \E why, n, fault : Ends(what, why, n, fault)
    <3>1. ~Halts("settle_failed") /\ ~Halts("confirm_failed") /\ ~PassRaises
          /\ ~Ends("halted", "operator_stop", sends, FALSE)
      BY <2>2 DEF Halts, PassRaises
    <3>2. player' \in {"settle", "look"} /\ UNCHANGED <<order, standDown, held, stop, report>>
      BY <1>5, <3>1 DEF PassBegins, SettleEnds, Confirms, playerOrderVars
    <3> QED BY <1>1, <1>2, <3>2
  <2> QED BY <2>1, <2>2
<1>6. CASE Looks
  <2>1. /\ held' = FALSE \/ UNCHANGED held
        /\ player' \in {"over", "press", "pass"}
        /\ report'.outcome \in {"halted", "completed"} \/ UNCHANGED report
        /\ UNCHANGED <<order, standDown, stop>>
    BY <1>6 DEF Looks, BoundaryRefused, playerOrderVars
  <2> QED BY <1>1, <1>2, <2>1
<1>7. CASE Presses \/ HumanSpends \/ HumanTakesSeat \/ Ages \/ UNCHANGED playerVars
  BY <1>1, <1>2, <1>7 DEF Presses, HumanSpends, HumanTakesSeat, Ages, playerVars, playerOrderVars
<1>8. ASSUME NEW wish \in {"stop", "pause"}, StandsDown(wish) PROVE Fits
  BY <1>1, <1>8 DEF StandsDown
<1> HIDE DEF Fits
<1> QED BY <1>3, <1>5, <1>6, <1>7, <1>8 DEF PlayerNext, ThreadStep

\* However a run ends, what it has pressed fits the cycles it was asked for.
LEMMA PlayBoundsKept ==
  ASSUME PlayTypes, RunInv, RunInv', PlayBounds, [PlayerNext]_playerVars
  PROVE  PlayBounds'
<1>1. /\ Steps \in Nat /\ Steps >= 1 /\ at \in Nat /\ cycle \in Nat /\ sends \in Nat /\ pressed \in Nat
      /\ at' \in Nat /\ cycle' \in Nat /\ sends' \in Nat /\ pressed' \in Nat /\ order.cycles \in Nat /\ order'.cycles \in Nat
  BY PlayerAssumption DEF RunInv, PlayerNumbers
<1>2. cycle * Steps \in Nat /\ cycle' * Steps \in Nat
  <2>1. \A n, m \in Nat : n * m \in Nat
    OBVIOUS
  <2> QED BY ONLY <1>1, <2>1
<1>3. at <= Steps /\ cycle <= order.cycles /\ sends <= pressed /\ pressed <= cycle * Steps
  BY DEF PlayBounds
<1>4. CASE player' = "idle"
  <2>1. sends' = 0 /\ pressed' = 0 /\ cycle' = 0
    BY <1>4 DEF RunInv, CountInv
  <2>2. at' = at
    BY <1>4 DEF PlayerNext, ThreadStep, Starts, PassBegins, PassRaises, SettleEnds, Looks, BoundaryRefused, Presses, Confirms, StandsDown, HumanTakesSeat, HumanSpends,
                 Ages, Halts, Ends, passVars, playerVars
  <2>3. cycle' * Steps = 0
    <3>1. \A n \in Nat : 0 * n = 0
      OBVIOUS
    <3> QED BY ONLY <1>1, <2>1, <3>1
  <2> QED BY <1>1, <1>3, <2>1, <2>2, <2>3 DEF PlayBounds
<1>5. CASE player' = "pass"
  <2>1. pressed' = sends' /\ sends' = cycle' * Steps /\ cycle' < order'.cycles
    BY <1>5 DEF RunInv, CountInv
  <2>2. at' = at
    BY <1>5 DEF PlayerNext, ThreadStep, Starts, PassBegins, PassRaises, SettleEnds, Looks, BoundaryRefused, Presses, Confirms, StandsDown, HumanTakesSeat, HumanSpends,
                 Ages, Halts, Ends, passVars, playerVars
  <2> DEFINE most == cycle' * Steps
  <2>3. pressed' = most /\ sends' = most /\ most \in Nat
    BY <1>2, <2>1
  <2>4. sends' <= pressed' /\ pressed' <= most
    <3> HIDE DEF most
    <3> QED BY <2>3
  <2>5. at' <= Steps /\ cycle' <= order'.cycles
    BY <1>1, <1>3, <2>1, <2>2
  <2> QED BY <2>4, <2>5 DEF PlayBounds
<1>6. CASE Inside'
  <2>1. pressed' = sends' + at' /\ sends' + Steps = cycle' * Steps /\ cycle' <= order'.cycles /\ at' <= Steps
    BY <1>6 DEF RunInv, CountInv
  <2> DEFINE most == cycle' * Steps
  <2>2. pressed' = sends' + at' /\ sends' + Steps = most /\ most \in Nat
    BY <1>2, <2>1
  <2>3. sends' <= pressed' /\ pressed' <= most
    <3>1. at' <= Steps
      BY <2>1
    <3>2. \A a, x, y, z, m \in Nat : a = x + y /\ x + z = m /\ y <= z => x <= a /\ a <= m
      OBVIOUS
    <3>3. pressed' \in Nat /\ sends' \in Nat /\ at' \in Nat /\ Steps \in Nat
      BY <1>1
    <3> HIDE DEF most
    <3> QED BY ONLY <2>2, <3>1, <3>2, <3>3
  <2> QED BY <2>1, <2>3 DEF PlayBounds
<1>7. CASE player' = "over"
  <2>1. UNCHANGED <<at, cycle, order, pressed>> /\ (sends' = sends \/ (player = "look" /\ sends' = sends + at))
    BY <1>7 DEF PlayerNext, ThreadStep, Starts, PassBegins, PassRaises, SettleEnds, Looks, BoundaryRefused, Presses, Confirms, StandsDown, HumanTakesSeat, HumanSpends,
                 Ages, Halts, Ends, passVars, playerVars, playerOrderVars
  <2>2. player = "look" => pressed = sends + at
    BY DEF RunInv, CountInv, Inside
  <2> QED BY <1>1, <1>2, <1>3, <2>1, <2>2 DEF PlayBounds
<1>8. player' \in PlayerPlaces
  BY PlayTypesKept DEF PlayTypes
<1> QED BY <1>4, <1>5, <1>6, <1>7, <1>8 DEF PlayerPlaces, Inside

\* PlayerTypeOK, for every macro, ceiling and request.
LEMMA PlayerIsTyped == PlayerSpec => []PlayerTypeOK
<1>1. PlayerInit => PlayTypes /\ PlayBounds /\ SnapsInv
  <2> SUFFICES ASSUME PlayerInit PROVE PlayTypes /\ PlayBounds /\ SnapsInv
    OBVIOUS
  <2>1. /\ order = NoOrder /\ player = "idle" /\ at = 0 /\ cycle = 0 /\ held = FALSE /\ stop = FALSE /\ standDown = "none"
        /\ report.outcome = "none" /\ sends = 0 /\ pressed = 0
        /\ real = [g \in {} |-> 0] /\ seen = [g \in {} |-> NotSeen] /\ told = [g \in {} |-> FALSE]
    BY DEF PlayerInit, NoReport
  <2>2. order.armed = {} /\ order.cycles = 1 /\ 1 \in 1..Ceiling
    BY <2>1, PlayerAssumption DEF NoOrder
  <2>3. order \in [cycles : 1..Ceiling, armed : SUBSET Gauges, anchored : BOOLEAN, bound : BOOLEAN]
    BY <2>1, <2>2 DEF NoOrder
  <2>4. PlayTypes
    BY <2>1, <2>3 DEF PlayTypes, PlayerPlaces
  <2>5. PlayBounds
    BY <2>1, <2>2, PlayerAssumption DEF PlayBounds
  <2>6. SnapsInv
    BY <2>1, <2>2 DEF SnapsInv, ToldAndClear
  <2> QED BY <2>4, <2>5, <2>6
<1>2. PlayTypes /\ PlayBounds /\ SnapsInv /\ RunInv => PlayerTypeOK
  <2> SUFFICES ASSUME PlayTypes, PlayBounds, SnapsInv, RunInv PROVE PlayerTypeOK
    OBVIOUS
  <2>1. /\ at \in Nat /\ cycle \in Nat /\ sends \in Nat /\ pressed \in Nat /\ late \in Nat
        /\ Steps \in Nat /\ Steps >= 1 /\ Ceiling \in Nat /\ order.cycles \in 1..Ceiling /\ order.cycles \in Nat
        /\ Ceiling * Steps \in Nat
    BY PlayerAssumption DEF RunInv, PlayerNumbers, PlayTypes
  <2>2. cycle <= Ceiling
    BY <2>1 DEF PlayBounds
  <2>3. cycle * Steps \in Nat /\ cycle * Steps <= Ceiling * Steps
    <3>1. Ceiling - cycle \in Nat
      BY <2>1, <2>2
    <3>2. cycle * Steps \in Nat /\ (Ceiling - cycle) * Steps \in Nat
      BY <2>1, <3>1
    <3>3. (Ceiling - cycle) * Steps = Ceiling * Steps - cycle * Steps
      BY <2>1
    <3> QED BY <2>1, <3>2, <3>3
  <2>4. /\ at \in 0..Steps /\ cycle \in 0..order.cycles
        /\ sends \in 0..(Ceiling * Steps) /\ pressed \in 0..(Ceiling * Steps)
    BY <2>1, <2>3 DEF PlayBounds
  <2> QED BY <2>1, <2>4 DEF PlayTypes, PlayerPlaces, SnapsInv, PlayerTypeOK
<1> QED BY <1>1, <1>2, PlayBegins, RunKept, GaugesKept, PlayTypesKept, PlayBoundsKept, PTL DEF PlayerSpec

-----------------------------------------------------------------------------
(* The menu map *)

\* A press of a way, and a node of the crawl with the way to it.
PressPlans == [menu : Menus, key : STRING, label : STRING]
Nodes == [menu : Menus, steps : Seq(PressPlans)]

MenuTypes ==
  /\ game \in Games /\ standsOn \in Menus /\ arrived \in Menus /\ node \in Nodes
  /\ option \in Nat \ {0} /\ ahead \in Seq(PressPlans) /\ frontier \in Seq(Nodes)
  /\ charted \subseteq Menus /\ IsFiniteSet(charted)
  /\ unsettled \in BOOLEAN /\ changed \in BOOLEAN

\* Pressed in turn from m the steps lead to the menu n, and each falls on the
\* menu it was read on.
Leads(m, way, n) ==
  /\ way = <<>> => m = n
  /\ way # <<>> => way[1].menu = m /\ After(way[Len(way)].menu, way[Len(way)].key) = n
  /\ \A i \in 1..Len(way) : game[way[i].menu].state = "menu"
  /\ \A i \in 1..Len(way) - 1 : After(way[i].menu, way[i].key) = way[i + 1].menu

\* While it crawls and every press settles, the crawl stands where it means to.
Crawling == job \in {"none", "crawl"} /\ ~unsettled
WaysInv ==
  Crawling => /\ Leads(Door, node.steps, node.menu)
              /\ \A i \in 1..Len(frontier) : Leads(Door, frontier[i].steps, frontier[i].menu)
PlaceInv ==
  Crawling => /\ crawlPhase = "replay" => Leads(standsOn, ahead, node.menu) /\ (option = 1 \/ arrived = node.menu)
              /\ crawlPhase = "probe" => standsOn = node.menu /\ arrived = node.menu
              /\ crawlPhase = "again" => arrived = node.menu

\* A screen on the map is queued, being probed, or probed to the end.
Queued(m) == \E i \in 1..Len(frontier) : frontier[i].menu = m
Probed(m) == \A i \in DOMAIN Options(m) :
  i < option /\ Options(m)[i].label \in SafeLabels => After(m, Options(m)[i].key) \in charted
UnderProbe(m) == m = node.menu /\ crawlPhase # "next" /\ Probed(m)
CoverInv ==
  Crawling => \A m \in charted : Queued(m) \/ UnderProbe(m) \/ (game[m].state = "menu" => Explored(m))

\* An edge a walk may use leads where it says, and a walk is on its route.
EdgesInv == ~unsettled /\ ~changed => \A e \in Walkable : After(e.from, e.key) = e.to
OnRoute ==
  /\ route = <<>> => standsOn = target
  /\ route # <<>> => route[1].from = standsOn /\ route[Len(route)].to = target
RouteInv == job = "walk" => route \in Seq(Walkable) /\ Linked(route) /\ (~unsettled => OnRoute)

StampInv == (job \in {"none", "crawl"} => stamp = "none") /\ (walk # "none" => job = "done")
MenuInv ==
  /\ MenuTypes /\ WaysInv /\ PlaceInv /\ CoverInv /\ EdgesInv /\ RouteInv /\ StampInv
  /\ PressedWhereRead /\ CompleteIsComplete /\ WalkArrives

\* A key leads from a screen of the game to a screen of the game.
LEMMA AfterType == ASSUME game \in Games, NEW m \in Menus, NEW key PROVE After(m, key) \in Menus
<1>1. Options(m) \in Seq([key : STRING, label : STRING, to : Menus])
  BY MenuAssumption DEF Options
<1>2. ASSUME NEW i \in DOMAIN Options(m) PROVE Options(m)[i].to \in Menus
  <2> DEFINE All == [key : STRING, label : STRING, to : Menus]
  <2>1. Options(m)[i] \in All
    <3>1. Options(m) \in Seq(All)
      BY <1>1
    <3> HIDE DEF All
    <3> QED
      BY <3>1
  <2> QED
    BY <2>1
<1> QED
  BY <1>2 DEF After

\* The first press of a way leads to the rest of it.
LEMMA LeadsFromFirst ==
  ASSUME NEW m, NEW way \in Seq(PressPlans), way # <<>>, NEW n, Leads(m, way, n)
  PROVE  Head(way).menu = m /\ game[m].state = "menu" /\ Leads(After(m, Head(way).key), Tail(way), n)
<1>1. Head(way) = way[1] /\ Len(way) \in Nat \ {0} /\ Tail(way) \in Seq(PressPlans) /\ Len(Tail(way)) = Len(way) - 1
      /\ \A i \in 1..Len(way) - 1 : Tail(way)[i] = way[i + 1]
  OBVIOUS
<1>2. Head(way).menu = m /\ game[m].state = "menu"
  BY <1>1 DEF Leads
<1>3. CASE Len(way) = 1
  <2>1. Tail(way) = <<>>
    <3>1. Len(Tail(way)) = 0 /\ Tail(way) \in Seq(PressPlans)
      BY <1>1, <1>3
    <3> QED
      BY <3>1, EmptySeq
  <2>2. After(m, Head(way).key) = n
    BY <1>1, <1>2, <1>3 DEF Leads
  <2>3. Len(Tail(way)) = 0
    BY <1>1, <1>3
  <2>4. 1..Len(Tail(way)) = {} /\ 1..Len(Tail(way)) - 1 = {}
    <3>1. \A k : k = 0 => 1..k = {} /\ 1..k - 1 = {}
      OBVIOUS
    <3> QED
      BY <2>3, <3>1, Zenon
  <2> QED
    BY <1>2, <2>1, <2>2, <2>4 DEF Leads
<1>4. CASE Len(way) # 1
  <2> DEFINE rest == Tail(way)
  <2>1. rest # <<>> /\ rest[1] = way[2] /\ rest[Len(rest)] = way[Len(way)]
    <3>1. Len(way) \in Nat /\ Len(way) > 1 /\ Len(rest) = Len(way) - 1
      BY <1>1, <1>4
    <3>2. \A i \in 1..Len(way) - 1 : rest[i] = way[i + 1]
      BY <1>1
    <3>3. rest # <<>>
      <4> HIDE DEF rest
      <4> QED BY ONLY <3>1, EmptySeq
    <3>4. rest[1] = way[2]
      BY <3>1, <3>2
    <3>5. rest[Len(rest)] = way[Len(way)]
      <4>1. Len(way) - 1 \in 1..Len(way) - 1 /\ (Len(way) - 1) + 1 = Len(way)
        BY <3>1
      <4> QED BY <3>1, <3>2, <4>1
    <3> QED BY <3>3, <3>4, <3>5
  <2>2. After(m, Head(way).key) = way[2].menu
    BY <1>1, <1>2, <1>4 DEF Leads
  <2>3. \A i \in 1..Len(rest) : game[rest[i].menu].state = "menu"
    BY <1>1 DEF Leads
  <2>4. \A i \in 1..Len(rest) - 1 : After(rest[i].menu, rest[i].key) = rest[i + 1].menu
    <3>1. SUFFICES ASSUME NEW i \in 1..Len(rest) - 1 PROVE After(rest[i].menu, rest[i].key) = rest[i + 1].menu
      OBVIOUS
    <3>2. i + 1 \in 1..Len(way) - 1 /\ rest[i] = way[i + 1] /\ rest[i + 1] = way[(i + 1) + 1]
      BY <1>1, <3>1
    <3> QED
      BY <3>2 DEF Leads
  <2>5. After(rest[Len(rest)].menu, rest[Len(rest)].key) = n
    BY <2>1 DEF Leads
  <2> QED
    BY <1>2, <2>1, <2>2, <2>3, <2>4, <2>5 DEF Leads
<1> QED
  BY <1>3, <1>4

\* A way to a menu and a press read there are a way to where it leads.
LEMMA LeadsFurther ==
  ASSUME NEW m, NEW way \in Seq(PressPlans), NEW n, Leads(m, way, n), game[n].state = "menu",
         NEW p \in PressPlans, p.menu = n
  PROVE  Leads(m, Append(way, p), After(n, p.key))
<1> DEFINE longer == Append(way, p)
<1>1. /\ Len(way) \in Nat /\ Len(longer) = Len(way) + 1 /\ longer[Len(longer)] = p /\ longer # <<>>
      /\ \A i \in 1..Len(way) : longer[i] = way[i]
  OBVIOUS
<1>2. longer[1].menu = m
  <2>1. CASE way = <<>>
    BY <1>1, <2>1 DEF Leads
  <2>2. CASE way # <<>>
    BY <1>1, <2>2 DEF Leads
  <2> QED
    BY <2>1, <2>2
<1>3. \A i \in 1..Len(longer) : game[longer[i].menu].state = "menu"
  BY <1>1 DEF Leads
<1>4. ASSUME NEW i \in 1..Len(longer) - 1 PROVE After(longer[i].menu, longer[i].key) = longer[i + 1].menu
  <2>1. CASE i = Len(way)
    BY <1>1, <2>1 DEF Leads
  <2>2. CASE i # Len(way)
    <3>1. i \in 1..Len(way) - 1 /\ longer[i] = way[i] /\ longer[i + 1] = way[i + 1]
      BY <1>1, <2>2
    <3> QED
      BY <3>1 DEF Leads
  <2> QED
    BY <2>1, <2>2
<1>5. After(longer[Len(longer)].menu, longer[Len(longer)].key) = After(n, p.key)
  BY <1>1
<1> QED
  BY <1>1, <1>2, <1>3, <1>4, <1>5 DEF Leads

\* A shortest route is a route.
LEMMA ShortestRoute ==
  ASSUME IsFiniteSet(charted), NEW m, NEW n, NEW p \in Shortest(m, n)
  PROVE  /\ p \in Seq(Walkable) /\ Linked(p)
         /\ p = <<>> => m = n
         /\ p # <<>> => p[1].from = m /\ p[Len(p)].to = n
<1>1. PICK k \in 0..Cardinality(charted) : p \in Routes(m, n, k)
  BY DEF Shortest
<1>2. k \in Nat
  BY FS_CardinalityType
<1>3. CASE k = 0
  BY <1>1, <1>3 DEF Routes, Linked
<1>4. CASE k # 0
  <2>1. p \in [1..k -> Walkable] /\ p[1].from = m /\ p[k].to = n /\ Linked(p)
    BY <1>1, <1>4 DEF Routes
  <2>2. p \in Seq(Walkable) /\ Len(p) = k /\ p # <<>>
    BY <1>2, <1>4, <2>1
  <2> QED
    BY <2>1, <2>2
<1> QED
  BY <1>3, <1>4

\* The crawl begins at the door, with the door on the map.
LEMMA MenuBegins == MenuInit => MenuInv
<1> SUFFICES ASSUME MenuInit PROVE MenuInv
  OBVIOUS
<1>1. MenuTypes
  <2>1. node \in Nodes /\ frontier \in Seq(Nodes)
    <3>1. node = [menu |-> Door, steps |-> <<>>] /\ frontier = <<node>> /\ Door \in Menus
      BY MenuAssumption DEF MenuInit
    <3>2. <<>> \in Seq(PressPlans)
      OBVIOUS
    <3>3. node \in Nodes
      BY <3>1, <3>2 DEF Nodes
    <3> QED
      BY <3>1, <3>3
  <2>2. IsFiniteSet(charted)
    BY FS_Singleton DEF MenuInit
  <2>3. game \in Games /\ standsOn = Door /\ arrived = Door /\ Door \in Menus /\ option = 1 /\ charted = {Door}
        /\ unsettled = FALSE /\ changed = FALSE
    BY MenuAssumption DEF MenuInit
  <2>4. ahead = <<>> /\ <<>> \in Seq(PressPlans)
    BY DEF MenuInit
  <2>5. option \in Nat \ {0} /\ charted \subseteq Menus
    BY <2>3
  <2>6. game \in Games /\ standsOn \in Menus /\ arrived \in Menus /\ ahead \in Seq(PressPlans)
    BY <2>3, <2>4
  <2> QED
    BY ONLY <2>1, <2>2, <2>3, <2>5, <2>6, Zenon DEF MenuTypes
<1>2. WaysInv
  <2>1. frontier = <<node>> /\ node.steps = <<>> /\ node.menu = Door
    BY DEF MenuInit
  <2>2. Leads(Door, node.steps, node.menu)
    BY <2>1 DEF Leads
  <2> QED
    BY <2>1, <2>2 DEF WaysInv
<1>3. PlaceInv
  BY DEF MenuInit, PlaceInv
<1>4. CoverInv
  <2>1. frontier = <<node>> /\ node.menu = Door /\ charted = {Door}
    BY DEF MenuInit
  <2>2. Queued(Door)
    BY <2>1 DEF Queued
  <2> QED
    BY <2>1, <2>2 DEF CoverInv
<1>5. EdgesInv /\ RouteInv /\ StampInv /\ PressedWhereRead /\ CompleteIsComplete /\ WalkArrives
  BY DEF MenuInit, EdgesInv, Walkable, RouteInv, StampInv, PressedWhereRead, CompleteIsComplete, WalkArrives
<1> QED
  BY <1>1, <1>2, <1>3, <1>4, <1>5 DEF MenuInv

\* While the game stays the same its ways do.
LEMMA SameGame ==
  ASSUME game' = game
  PROVE  /\ \A m, key : After(m, key)' = After(m, key)
         /\ \A m, way, n : Leads(m, way, n)' <=> Leads(m, way, n)
         /\ \A m : Options(m)' = Options(m)
  BY DEF Leads, After, Options

\* A crawl leaves the walk alone.
LEMMA CrawlAlone ==
  ASSUME MenuInv, CrawlKeeps, job \in {"none", "crawl"}, job' \in {"none", "crawl", "idle"},
         job' # "idle" => stamp' = "none"
  PROVE  RouteInv' /\ StampInv' /\ WalkArrives' /\ (job' # "idle" => CompleteIsComplete')
<1>1. walk = "none" /\ walk' = "none"
  BY DEF MenuInv, StampInv, CrawlKeeps, walkVars
<1> QED
  BY <1>1 DEF RouteInv, StampInv, WalkArrives, CompleteIsComplete

\* A step that adds nothing to the map keeps what the map says.
LEMMA MapStays ==
  ASSUME MenuInv, game' = game, UNCHANGED <<edges, changed>>, unsettled => unsettled'
  PROVE  EdgesInv'
<1>1. Walkable' = Walkable
  BY DEF Walkable
<1> QED
  BY <1>1, SameGame DEF MenuInv, EdgesInv

\* The options of a screen, in a row.
LEMMA OptionRows ==
  ASSUME game \in Games, NEW m \in Menus
  PROVE  /\ Len(Options(m)) \in Nat /\ DOMAIN Options(m) = 1..Len(Options(m))
         /\ \A i \in DOMAIN Options(m) : Options(m)[i] \in [key : STRING, label : STRING, to : Menus]
<1> DEFINE All == [key : STRING, label : STRING, to : Menus]
<1>1. Options(m) \in Seq(All)
  BY MenuAssumption DEF Options
<1> HIDE DEF All
<1>2. Len(Options(m)) \in Nat /\ DOMAIN Options(m) = 1..Len(Options(m)) /\ \A i \in DOMAIN Options(m) : Options(m)[i] \in All
  BY <1>1
<1> QED
  BY <1>2 DEF All

\* The next node of the queue is taken.
LEMMA VisitKept == MenuInv /\ Visits => MenuInv'
<1> SUFFICES ASSUME MenuInv, Visits PROVE MenuInv'
  OBVIOUS
<1>a. MenuTypes
  BY DEF MenuInv
<1>1. /\ frontier # <<>> /\ crawlPhase = "next" /\ job = "crawl" /\ node' = frontier[1] /\ frontier' = Tail(frontier)
      /\ standsOn' = Door /\ ahead' = frontier[1].steps /\ option' = 1 /\ crawlPhase' = "replay"
  BY DEF Visits
<1>2. UNCHANGED <<game, changed, job, arrived, charted, edges, stamp, unsettled, lastPress>> /\ CrawlKeeps
  BY DEF Visits, CrawlKeeps
<1>3. /\ frontier[1] \in Nodes /\ frontier' \in Seq(Nodes) /\ Len(frontier) \in Nat \ {0} /\ Len(frontier') = Len(frontier) - 1
      /\ \A i \in 1..Len(frontier') : frontier'[i] = frontier[i + 1]
  BY <1>1, <1>a DEF MenuTypes
<1>4. MenuTypes'
  <2>1. frontier[1].steps \in Seq(PressPlans)
    BY <1>3 DEF Nodes
  <2> QED
    BY <1>1, <1>2, <1>3, <1>a, <2>1, MenuAssumption DEF MenuTypes
<1>5. WaysInv' /\ PlaceInv'
  <2>1. SUFFICES ASSUME Crawling PROVE WaysInv' /\ PlaceInv'
    BY <1>1, <1>2 DEF WaysInv, PlaceInv, Crawling
  <2>2. \A i \in 1..Len(frontier) : Leads(Door, frontier[i].steps, frontier[i].menu)
    BY <2>1 DEF MenuInv, WaysInv
  <2>3. Leads(Door, frontier[1].steps, frontier[1].menu)
    BY <1>3, <2>2
  <2>4. \A i \in 1..Len(frontier') : Leads(Door, frontier'[i].steps, frontier'[i].menu)
    BY <1>3, <2>2
  <2> QED
    BY <1>1, <1>2, <2>3, <2>4, SameGame DEF WaysInv, PlaceInv
<1>6. CoverInv'
  <2>1. SUFFICES ASSUME Crawling, NEW m \in charted
                 PROVE  Queued(m)' \/ UnderProbe(m)' \/ (game[m].state = "menu" => Explored(m))'
    BY <1>1, <1>2 DEF CoverInv, Crawling
  <2>2. Queued(m) \/ (game[m].state = "menu" => Explored(m))
    BY <1>1, <2>1 DEF MenuInv, CoverInv, UnderProbe
  <2>3. CASE game[m].state = "menu" => Explored(m)
    BY <1>2, <2>3, SameGame DEF Explored
  <2>4. CASE Queued(m)
    <3>1. PICK i \in 1..Len(frontier) : frontier[i].menu = m
      BY <2>4 DEF Queued
    <3>2. CASE i = 1
      <4>1. m \in Menus /\ game \in Games
        BY <1>a DEF MenuTypes
      <4>2. Probed(m)'
        BY <1>1, <1>2, <4>1, OptionRows, SameGame DEF Probed
      <4> QED
        BY <1>1, <3>1, <3>2, <4>2 DEF UnderProbe
    <3>3. CASE i # 1
      <4>1. i - 1 \in 1..Len(frontier') /\ frontier'[i - 1] = frontier[(i - 1) + 1]
        BY <1>3, <3>3
      <4> QED
        BY <3>1, <4>1 DEF Queued
    <3> QED
      BY <3>2, <3>3
  <2> QED
    BY <2>2, <2>3, <2>4
<1>7. EdgesInv' /\ PressedWhereRead'
  BY <1>2, MapStays DEF MenuInv, PressedWhereRead
<1>8. RouteInv' /\ StampInv' /\ WalkArrives' /\ CompleteIsComplete'
  BY <1>1, <1>2, CrawlAlone DEF MenuInv, StampInv
<1> QED
  BY <1>4, <1>5, <1>6, <1>7, <1>8 DEF MenuInv

\* The crawl is over, and says how far it went.
LEMMA StampKept == MenuInv /\ Stamps => MenuInv'
<1> SUFFICES ASSUME MenuInv, Stamps PROVE MenuInv'
  OBVIOUS
<1>a. MenuTypes
  BY DEF MenuInv
<1>1. job = "crawl" /\ crawlPhase = "next" /\ job' = "idle" /\ stamp' = IF frontier = <<>> THEN "complete" ELSE "truncated"
  BY DEF Stamps
<1>2. /\ UNCHANGED <<standsOn, crawlPhase, node, arrived, option, ahead, frontier, charted, edges, visited, unsettled, lastPress>>
      /\ game' = game /\ changed' = changed /\ CrawlKeeps
  BY DEF Stamps, CrawlKeeps
<1>3. MenuTypes'
  BY <1>2, <1>a DEF MenuTypes
<1>4. WaysInv' /\ PlaceInv' /\ CoverInv'
  BY <1>1 DEF WaysInv, PlaceInv, CoverInv, Crawling
<1>5. EdgesInv' /\ PressedWhereRead'
  BY <1>2, MapStays DEF MenuInv, PressedWhereRead
<1>6. RouteInv' /\ StampInv' /\ WalkArrives'
  BY <1>1, <1>2, CrawlAlone DEF MenuInv, StampInv
<1>7. CompleteIsComplete'
  <2>1. SUFFICES ASSUME frontier = <<>>, ~unsettled, NEW m \in charted PROVE (game[m].state = "menu" => Explored(m))'
    BY <1>1, <1>2 DEF CompleteIsComplete
  <2>2. ~Queued(m)
    BY <2>1 DEF Queued
  <2>3. game[m].state = "menu" => Explored(m)
    BY <1>1, <2>1, <2>2 DEF MenuInv, CoverInv, UnderProbe, Crawling
  <2> QED
    BY <1>2, <2>3, SameGame DEF Explored
<1> QED
  BY <1>3, <1>4, <1>5, <1>6, <1>7 DEF MenuInv

\* A press of the way to the node being visited, or the end of the way.
LEMMA ReplayKept == MenuInv /\ Replays => MenuInv'
<1> SUFFICES ASSUME MenuInv, Replays PROVE MenuInv'
  OBVIOUS
<1>a. MenuTypes /\ standsOn \in Menus /\ arrived \in Menus /\ ahead \in Seq(PressPlans) /\ game \in Games
  BY DEF MenuInv, MenuTypes
<1>1. /\ UNCHANGED <<game, changed, job, node, option, frontier, charted, edges, visited, stamp>> /\ job = "crawl" /\ crawlPhase = "replay"
      /\ CrawlKeeps /\ (unsettled => unsettled')
  <2>1. unsettled \in BOOLEAN
    BY <1>a DEF MenuTypes
  <2>2. unsettled => unsettled'
    BY <2>1 DEF Replays
  <2> QED
    BY <2>2 DEF Replays, CrawlKeeps
<1>2. EdgesInv' /\ RouteInv' /\ StampInv' /\ WalkArrives' /\ CompleteIsComplete'
  BY <1>1, MapStays, CrawlAlone DEF MenuInv, StampInv
<1>3. Crawling' => Crawling
  BY <1>1 DEF Crawling
<1>4. WaysInv'
  BY <1>1, <1>3, SameGame DEF MenuInv, WaysInv
<1>5. ASSUME crawlPhase' # "next" PROVE CoverInv'
  <2>1. ASSUME NEW m PROVE /\ Queued(m)' <=> Queued(m)
                           /\ UnderProbe(m) => UnderProbe(m)'
                           /\ Explored(m)' <=> Explored(m)
    BY <1>1, <1>5, SameGame DEF Queued, UnderProbe, Probed, Explored
  <2> QED
    BY <1>1, <1>3, <2>1 DEF MenuInv, CoverInv
<1>6. CASE /\ ahead = <<>> /\ crawlPhase' = "probe" /\ arrived' = IF option = 1 THEN standsOn ELSE arrived
           /\ UNCHANGED <<standsOn, ahead, unsettled, lastPress>>
  <2>1. MenuTypes'
    BY <1>1, <1>6, <1>a DEF MenuTypes
  <2>2. Crawling => standsOn = node.menu /\ arrived' = node.menu
    BY <1>1, <1>6 DEF MenuInv, PlaceInv, Leads
  <2>3. PlaceInv'
    BY <1>1, <1>3, <1>6, <2>2 DEF PlaceInv
  <2>4. PressedWhereRead'
    BY <1>6 DEF MenuInv, PressedWhereRead
  <2> QED
    BY <1>2, <1>4, <1>5, <1>6, <2>1, <2>3, <2>4 DEF MenuInv
<1>7. CASE ahead # <<>> /\ game[standsOn].state # "menu" /\ crawlPhase' = "next" /\ UNCHANGED <<standsOn, arrived, ahead, unsettled, lastPress>>
  <2>1. MenuTypes'
    BY <1>1, <1>7, <1>a DEF MenuTypes
  <2>2. ~Crawling
    BY <1>1, <1>7, <1>a, LeadsFromFirst DEF MenuInv, PlaceInv
  <2>3. PlaceInv' /\ CoverInv' /\ PressedWhereRead'
    BY <1>3, <1>7, <2>2 DEF MenuInv, PlaceInv, CoverInv, PressedWhereRead
  <2> QED
    BY <1>2, <1>4, <2>1, <2>3 DEF MenuInv
<1>8. CASE ahead # <<>> /\ UNCHANGED arrived /\ PressesKey(Head(ahead).menu, Head(ahead))
           /\ \/ crawlPhase' = "replay" /\ ahead' = Tail(ahead) /\ UNCHANGED unsettled
              \/ crawlPhase' = "next" /\ unsettled' = TRUE /\ UNCHANGED ahead
  <2>1. /\ standsOn' = After(standsOn, Head(ahead).key)
        /\ lastPress'.on = standsOn /\ lastPress'.meant = Head(ahead).menu
    BY <1>8 DEF PressesKey
  <2>2. MenuTypes'
    <3>1. standsOn' \in Menus
      BY <1>a, <2>1, AfterType
    <3>2. ahead' \in Seq(PressPlans)
      <4>1. Tail(ahead) \in Seq(PressPlans)
        BY <1>8, <1>a
      <4> QED
        BY <1>8, <1>a, <4>1
    <3>4. unsettled' \in BOOLEAN
      BY <1>8, <1>a DEF MenuTypes
    <3> QED
      BY <1>1, <1>8, <1>a, <3>1, <3>2, <3>4 DEF MenuTypes
  <2>3. CASE unsettled'
    BY <1>2, <1>4, <2>2, <2>3 DEF MenuInv, PlaceInv, CoverInv, PressedWhereRead, Crawling
  <2>4. CASE ~unsettled'
    <3>1. crawlPhase' = "replay" /\ ahead' = Tail(ahead) /\ Crawling
      BY <1>1, <1>8, <2>4 DEF Crawling
    <3>2. Leads(standsOn, ahead, node.menu) /\ (option = 1 \/ arrived = node.menu)
      BY <1>1, <3>1 DEF MenuInv, PlaceInv
    <3>3. standsOn = Head(ahead).menu /\ Leads(standsOn', ahead', node.menu)
      BY <1>8, <1>a, <2>1, <3>1, <3>2, LeadsFromFirst
    <3>4. PlaceInv' /\ PressedWhereRead'
      BY <1>1, <1>8, <2>1, <3>1, <3>2, <3>3, SameGame DEF PlaceInv, PressedWhereRead
    <3> QED
      BY <1>2, <1>4, <1>5, <2>2, <3>1, <3>4 DEF MenuInv
  <2> QED
    BY <2>3, <2>4
<1> QED
  BY <1>6, <1>7, <1>8 DEF Replays

\* The next option of the node is recorded, or pressed; or there is none left.
LEMMA ProbeKept == MenuInv /\ Probes => MenuInv'
<1> SUFFICES ASSUME MenuInv, Probes PROVE MenuInv'
  OBVIOUS
<1>a. /\ MenuTypes /\ standsOn \in Menus /\ arrived \in Menus /\ game \in Games /\ option \in Nat \ {0}
      /\ node \in Nodes /\ node.menu \in Menus /\ node.steps \in Seq(PressPlans)
      /\ frontier \in Seq(Nodes) /\ charted \subseteq Menus /\ IsFiniteSet(charted) /\ unsettled \in BOOLEAN
  BY DEF MenuInv, MenuTypes, Nodes
<1>1. UNCHANGED <<game, changed, job, node, arrived, visited, stamp>> /\ job = "crawl" /\ crawlPhase = "probe" /\ CrawlKeeps
  BY DEF Probes, CrawlKeeps
<1>2. RouteInv' /\ StampInv' /\ WalkArrives' /\ CompleteIsComplete'
  BY <1>1, CrawlAlone DEF MenuInv, StampInv
<1>3. Crawling => standsOn = node.menu /\ arrived = node.menu
  BY <1>1 DEF MenuInv, PlaceInv
<1>4. CASE /\ game[arrived].state # "menu" \/ option > Len(Options(arrived))
           /\ crawlPhase' = "next" /\ UNCHANGED <<standsOn, option, ahead, frontier, charted, edges, unsettled, lastPress>>
  <2>1. MenuTypes'
    BY <1>1, <1>4, <1>a DEF MenuTypes
  <2>2. WaysInv' /\ PlaceInv'
    BY <1>1, <1>4, SameGame DEF MenuInv, WaysInv, PlaceInv, Crawling
  <2>3. CoverInv'
    <3>1. SUFFICES ASSUME Crawling, NEW m \in charted
                   PROVE  Queued(m) \/ (game[m].state = "menu" => Explored(m))
      BY <1>1, <1>4, SameGame DEF CoverInv, Crawling, Queued, Explored
    <3>2. CASE UnderProbe(m) /\ game[m].state = "menu"
      <4>1. m = arrived /\ option > Len(Options(m))
        BY <1>3, <1>4, <3>1, <3>2 DEF UnderProbe
      <4>2. \A i \in DOMAIN Options(m) : i < option
        BY <1>a, <4>1, OptionRows
      <4> QED
        BY <3>2, <4>2 DEF UnderProbe, Probed, Explored
    <3> QED
      BY <3>1, <3>2 DEF MenuInv, CoverInv
  <2>4. EdgesInv' /\ PressedWhereRead'
    BY <1>1, <1>4, MapStays DEF MenuInv, PressedWhereRead
  <2> QED
    BY <1>2, <2>1, <2>2, <2>3, <2>4 DEF MenuInv
<1> DEFINE o == Options(arrived)[option]
<1>5. ASSUME game[arrived].state = "menu", option <= Len(Options(arrived)), option' = NextOption
      PROVE  /\ o \in [key : STRING, label : STRING, to : Menus] /\ After(standsOn, o.key) \in Menus
             /\ option' = option + 1 /\ option' \in Nat \ {0}
  <2>1. option \in DOMAIN Options(arrived)
    BY <1>5, <1>a, OptionRows
  <2> QED
    BY <1>5, <1>a, <2>1, OptionRows, AfterType DEF NextOption
<1> HIDE DEF o
<1>6. CASE /\ game[arrived].state = "menu" /\ option <= Len(Options(arrived)) /\ option' = NextOption
           /\ o.label \notin SafeLabels /\ edges' = WithEdge(node.menu, o, Nowhere, "action")
           /\ UNCHANGED <<standsOn, crawlPhase, ahead, frontier, charted, unsettled, lastPress>>
  <2>1. MenuTypes'
    BY <1>1, <1>5, <1>6, <1>a DEF MenuTypes
  <2>2. WaysInv' /\ PlaceInv'
    BY <1>1, <1>6, SameGame DEF MenuInv, WaysInv, PlaceInv, Crawling
  <2>3. CoverInv'
    <3>1. SUFFICES ASSUME Crawling, NEW m \in charted
                   PROVE  Queued(m) \/ UnderProbe(m)' \/ (game[m].state = "menu" => Explored(m))
      BY <1>1, <1>6, SameGame DEF CoverInv, Crawling, Queued, Explored
    <3>2. CASE UnderProbe(m)
      <4>1. m = arrived
        BY <1>3, <3>1, <3>2 DEF UnderProbe
      <4>2. \A i \in DOMAIN Options(m) : i < option + 1 => i < option \/ i = option
        BY <1>a, <4>1, OptionRows
      <4>3. Options(m)[option].label \notin SafeLabels
        BY <1>6, <4>1 DEF o
      <4>4. Probed(m)'
        BY <1>1, <1>5, <1>6, <3>2, <4>2, <4>3, SameGame DEF UnderProbe, Probed
      <4> QED
        BY <1>1, <1>6, <3>2, <4>4 DEF UnderProbe
    <3> QED
      BY <3>1, <3>2 DEF MenuInv, CoverInv
  <2>4. EdgesInv'
    <3>1. \A e \in Walkable' : e \in Walkable
      BY <1>6 DEF Walkable, WithEdge
    <3> QED
      BY <1>1, <1>6, <3>1, SameGame DEF MenuInv, EdgesInv
  <2>5. PressedWhereRead'
    BY <1>6 DEF MenuInv, PressedWhereRead
  <2> QED
    BY <1>2, <2>1, <2>2, <2>3, <2>4, <2>5 DEF MenuInv
<1>7. CASE /\ game[arrived].state = "menu" /\ option <= Len(Options(arrived)) /\ option' = NextOption
           /\ PressesKey(arrived, o) /\ unsettled' = TRUE /\ UNCHANGED <<crawlPhase, ahead, frontier, charted, edges>>
  <2>1. MenuTypes'
    BY <1>1, <1>5, <1>7, <1>a DEF MenuTypes, PressesKey
  <2> QED
    BY <1>2, <1>7, <2>1 DEF MenuInv, WaysInv, PlaceInv, CoverInv, EdgesInv, PressedWhereRead, Crawling
<1> DEFINE further == [menu |-> standsOn', steps |-> Append(node.steps, [menu |-> arrived, key |-> o.key, label |-> o.label])]
<1>8. CASE /\ game[arrived].state = "menu" /\ option <= Len(Options(arrived)) /\ option' = NextOption
           /\ PressesKey(arrived, o) /\ charted' = charted \cup {standsOn'}
           /\ edges' = WithEdge(node.menu, o, standsOn', EdgeKind(o.label))
           /\ frontier' = IF standsOn' \in charted THEN frontier ELSE Append(frontier, further)
           /\ crawlPhase' = "again" /\ UNCHANGED <<ahead, unsettled>>
  <2>1. /\ standsOn' = After(standsOn, o.key) /\ standsOn' \in Menus /\ option' = option + 1 /\ option' \in Nat \ {0}
        /\ lastPress'.on = standsOn /\ lastPress'.meant = arrived
    BY <1>5, <1>8 DEF PressesKey
  <2>2. [menu |-> arrived, key |-> o.key, label |-> o.label] \in PressPlans
    BY <1>5, <1>8, <1>a DEF PressPlans
  <2>3. further \in Nodes
    <3>1. Append(node.steps, [menu |-> arrived, key |-> o.key, label |-> o.label]) \in Seq(PressPlans)
      BY <1>a, <2>2
    <3> QED
      BY <2>1, <3>1 DEF Nodes
  <2>4. further.menu = standsOn' /\ (Crawling => Leads(Door, further.steps, standsOn'))
    <3>1. SUFFICES ASSUME Crawling PROVE Leads(Door, further.steps, standsOn')
      OBVIOUS
    <3>2. Leads(Door, node.steps, arrived)
      BY <1>3, <3>1 DEF MenuInv, WaysInv
    <3>3. Leads(Door, further.steps, After(arrived, o.key))
      BY <1>8, <1>a, <2>2, <3>2, LeadsFurther
    <3> QED
      BY <1>3, <2>1, <3>1, <3>3
  <2> HIDE DEF further
  <2>5. /\ frontier' \in Seq(Nodes) /\ Len(frontier) \in Nat /\ Len(frontier') >= Len(frontier)
        /\ \A i \in 1..Len(frontier) : i \in 1..Len(frontier') /\ frontier'[i] = frontier[i]
        /\ \A i \in 1..Len(frontier') : i \in 1..Len(frontier) \/ frontier'[i] = further
        /\ standsOn' \in charted \/ (Len(frontier') \in 1..Len(frontier') /\ frontier'[Len(frontier')] = further)
    <3>1. CASE standsOn' \in charted
      BY <1>8, <1>a, <3>1
    <3>2. CASE standsOn' \notin charted
      <4>1. frontier' = Append(frontier, further)
        BY <1>8, <3>2
      <4> QED
        BY <1>a, <2>3, <4>1
    <3> QED
      BY <3>1, <3>2
  <2>6. MenuTypes'
    <3>1. IsFiniteSet(charted') /\ charted' \subseteq Menus
      BY <1>8, <1>a, <2>1, FS_AddElement
    <3> QED
      BY <1>1, <1>8, <1>a, <2>1, <2>5, <3>1 DEF MenuTypes
  <2>7. Crawling' => Crawling
    BY <1>1, <1>8 DEF Crawling
  <2>8. WaysInv' /\ PlaceInv'
    <3>1. SUFFICES ASSUME Crawling PROVE WaysInv' /\ PlaceInv'
      BY <2>7 DEF WaysInv, PlaceInv
    <3>2. Leads(Door, node.steps, node.menu) /\ \A i \in 1..Len(frontier) : Leads(Door, frontier[i].steps, frontier[i].menu)
      BY <3>1 DEF MenuInv, WaysInv
    <3>3. \A i \in 1..Len(frontier') : Leads(Door, frontier'[i].steps, frontier'[i].menu)
      BY <2>4, <2>5, <3>1, <3>2
    <3> QED
      BY <1>1, <1>3, <1>8, <3>1, <3>2, <3>3, SameGame DEF WaysInv, PlaceInv
  <2>9. CoverInv'
    <3>1. SUFFICES ASSUME Crawling, NEW m \in charted'
                   PROVE  Queued(m)' \/ UnderProbe(m)' \/ (game[m].state = "menu" => Explored(m))'
      BY <2>7 DEF CoverInv
    <3>2. CASE m \notin charted
      BY <1>8, <2>4, <2>5, <3>2 DEF Queued
    <3>3. CASE m \in charted /\ Queued(m)
      BY <2>5, <3>3 DEF Queued
    <3>4. CASE game[m].state = "menu" => Explored(m)
      BY <1>1, <1>8, <3>4, SameGame DEF Explored
    <3>5. CASE UnderProbe(m)
      <4>1. m = arrived
        BY <1>3, <3>1, <3>5 DEF UnderProbe
      <4>2. \A i \in DOMAIN Options(m) : i < option + 1 => i < option \/ i = option
        BY <1>a, <4>1, OptionRows
      <4>3. After(m, Options(m)[option].key) \in charted'
        BY <1>3, <1>8, <2>1, <3>1, <4>1 DEF o
      <4>4. Probed(m)'
        BY <1>1, <1>8, <2>1, <3>5, <4>2, <4>3, SameGame DEF UnderProbe, Probed
      <4> QED
        BY <1>1, <1>8, <3>5, <4>4 DEF UnderProbe
    <3> QED
      BY <3>1, <3>2, <3>3, <3>4, <3>5 DEF MenuInv, CoverInv
  <2>10. EdgesInv'
    <3>1. SUFFICES ASSUME ~unsettled, ~changed, NEW e \in Walkable' PROVE After(e.from, e.key) = e.to
      BY <1>1, <1>8, SameGame DEF EdgesInv
    <3>2. Crawling
      BY <1>1, <3>1 DEF Crawling
    <3>3. e \in Walkable \/ e = [from |-> node.menu, key |-> o.key, to |-> standsOn', kind |-> EdgeKind(o.label)]
      BY <1>8, <3>1 DEF Walkable, WithEdge
    <3> QED
      BY <1>3, <2>1, <3>1, <3>2, <3>3 DEF MenuInv, EdgesInv
  <2>11. PressedWhereRead'
    <3>1. ~unsettled' => Crawling
      BY <1>1, <1>8 DEF Crawling
    <3> QED
      BY <1>3, <2>1, <3>1 DEF PressedWhereRead
  <2> QED
    BY <1>2, <2>6, <2>8, <2>9, <2>10, <2>11 DEF MenuInv
<1> QED
  BY <1>4, <1>6, <1>7, <1>8 DEF Probes, o

\* A fresh session goes back to the node for its next option.
LEMMA ReopenKept == MenuInv /\ Reopens => MenuInv'
<1> SUFFICES ASSUME MenuInv, Reopens PROVE MenuInv'
  OBVIOUS
<1>a. MenuTypes /\ node \in Nodes /\ node.steps \in Seq(PressPlans)
  BY DEF MenuInv, MenuTypes, Nodes
<1>1. /\ UNCHANGED <<game, changed, job, node, arrived, option, frontier, charted, edges, visited, stamp, unsettled, lastPress>>
      /\ job = "crawl" /\ crawlPhase = "again" /\ crawlPhase' = "replay" /\ standsOn' = Door /\ ahead' = node.steps /\ CrawlKeeps
  BY DEF Reopens, CrawlKeeps
<1>2. RouteInv' /\ StampInv' /\ WalkArrives' /\ CompleteIsComplete' /\ EdgesInv'
  BY <1>1, CrawlAlone, MapStays DEF MenuInv, StampInv
<1>3. MenuTypes'
  BY <1>1, <1>a, MenuAssumption DEF MenuTypes
<1>4. WaysInv' /\ PlaceInv' /\ PressedWhereRead'
  BY <1>1, SameGame DEF MenuInv, WaysInv, PlaceInv, Crawling, PressedWhereRead
<1>5. CoverInv'
  <2>1. ASSUME NEW m PROVE (Queued(m)' <=> Queued(m)) /\ (UnderProbe(m) => UnderProbe(m)') /\ (Explored(m)' <=> Explored(m))
    BY <1>1, SameGame DEF Queued, UnderProbe, Probed, Explored
  <2> QED
    BY <1>1, <2>1 DEF MenuInv, CoverInv, Crawling
<1> QED
  BY <1>2, <1>3, <1>4, <1>5 DEF MenuInv

\* The crawl starts.
LEMMA StartKept == MenuInv /\ CrawlStarts => MenuInv'
<1> SUFFICES ASSUME MenuInv, CrawlStarts PROVE MenuInv'
  OBVIOUS
<1>1. /\ UNCHANGED <<game, changed, standsOn, crawlPhase, node, arrived, option, ahead, frontier, charted, edges, visited, stamp, unsettled, lastPress>>
      /\ job = "none" /\ job' = "crawl" /\ CrawlKeeps
  BY DEF CrawlStarts, CrawlKeeps
<1>2. RouteInv' /\ StampInv' /\ WalkArrives' /\ CompleteIsComplete' /\ EdgesInv'
  BY <1>1, CrawlAlone, MapStays DEF MenuInv, StampInv
<1>3. MenuTypes' /\ PressedWhereRead'
  BY <1>1 DEF MenuInv, MenuTypes, PressedWhereRead
<1>4. WaysInv' /\ PlaceInv'
  BY <1>1, SameGame DEF MenuInv, WaysInv, PlaceInv, Crawling
<1>5. CoverInv'
  <2>1. ASSUME NEW m PROVE (Queued(m)' <=> Queued(m)) /\ (UnderProbe(m) => UnderProbe(m)') /\ (Explored(m)' <=> Explored(m))
    BY <1>1, SameGame DEF Queued, UnderProbe, Probed, Explored
  <2> QED
    BY <1>1, <2>1 DEF MenuInv, CoverInv, Crawling
<1> QED
  BY <1>2, <1>3, <1>4, <1>5 DEF MenuInv

\* What was crawled stays as it is until the game changes.
LEMMA MapKept ==
  ASSUME MenuInv, job \notin {"none", "crawl"}, job' \notin {"none", "crawl"}, changed' \/ game' = game,
         UNCHANGED <<charted, edges, stamp>>, changed => changed', unsettled => unsettled'
  PROVE  WaysInv' /\ PlaceInv' /\ CoverInv' /\ EdgesInv' /\ CompleteIsComplete'
<1>1. WaysInv' /\ PlaceInv' /\ CoverInv'
  BY DEF WaysInv, PlaceInv, CoverInv, Crawling
<1>2. EdgesInv'
  <2>1. Walkable' = Walkable
    BY DEF Walkable
  <2> QED
    BY <2>1, SameGame DEF MenuInv, EdgesInv
<1>3. CompleteIsComplete'
  <2>1. SUFFICES ASSUME stamp' = "complete", ~unsettled', ~changed', NEW m \in charted'
                 PROVE  (game[m].state = "menu" => Explored(m))'
    BY DEF CompleteIsComplete
  <2>2. game[m].state = "menu" => Explored(m)
    BY <2>1 DEF MenuInv, CompleteIsComplete
  <2> QED
    BY <2>1, <2>2, SameGame DEF Explored
<1> QED
  BY <1>1, <1>2, <1>3

\* Time passes after the crawl.
LEMMA DriftKept == MenuInv /\ Drifts => MenuInv'
<1> SUFFICES ASSUME MenuInv, Drifts PROVE MenuInv'
  OBVIOUS
<1>a. MenuTypes /\ changed \in BOOLEAN
  BY DEF MenuInv, MenuTypes
<1>1. /\ job = "idle" /\ job' = "idle" /\ game' \in Games /\ standsOn' \in Menus /\ changed' = (changed \/ game' # game)
      /\ UNCHANGED <<crawlPhase, node, arrived, option, ahead, frontier, charted, edges, visited, stamp, unsettled, lastPress, walk>>
  BY DEF Drifts, crawlVars, walkVars
<1>2. WaysInv' /\ PlaceInv' /\ CoverInv' /\ EdgesInv' /\ CompleteIsComplete'
  BY <1>1, MapKept
<1>3. MenuTypes'
  BY <1>1, <1>a DEF MenuTypes
<1>4. walk = "none"
  BY <1>1 DEF MenuInv, StampInv
<1>5. RouteInv' /\ StampInv' /\ WalkArrives' /\ PressedWhereRead'
  BY <1>1, <1>4 DEF MenuInv, RouteInv, StampInv, WalkArrives, PressedWhereRead
<1> QED
  BY <1>2, <1>3, <1>5 DEF MenuInv

\* A walk is refused, starts, arrives or fails; none of these presses a key.
LEMMA WalkIdles == MenuInv /\ (WalkRefused \/ WalkStarts \/ WalkEnds \/ WalkFails) => MenuInv'
<1> SUFFICES ASSUME MenuInv, WalkRefused \/ WalkStarts \/ WalkEnds \/ WalkFails PROVE MenuInv'
  OBVIOUS
<1>1. /\ UNCHANGED <<game, standsOn, crawlPhase, node, arrived, option, ahead, frontier, charted, edges, stamp, changed, lastPress, unsettled>>
      /\ job \in {"idle", "walk"} /\ job' \in {"walk", "done"}
  BY DEF WalkRefused, WalkStarts, WalkEnds, WalkFails, WalkKeeps
<1>2. WaysInv' /\ PlaceInv' /\ CoverInv' /\ EdgesInv' /\ CompleteIsComplete'
  BY <1>1, MapKept
<1>3. MenuTypes' /\ PressedWhereRead'
  BY <1>1 DEF MenuInv, MenuTypes, PressedWhereRead
<1>4. walk = "none"
  BY <1>1 DEF MenuInv, StampInv
<1>5. StampInv'
  BY <1>1, <1>4 DEF MenuInv, StampInv, WalkRefused, WalkStarts, WalkEnds, WalkFails
<1>6. RouteInv' /\ WalkArrives'
  <2>1. CASE WalkRefused \/ WalkFails
    BY <2>1 DEF WalkRefused, WalkFails, RouteInv, WalkArrives
  <2>2. CASE WalkStarts
    <3>1. route' \in Shortest(standsOn, target') /\ walk' = "none" /\ job' = "walk"
      BY <1>4, <2>2 DEF WalkStarts
    <3>2. IsFiniteSet(charted)
      BY DEF MenuInv, MenuTypes
    <3>3. /\ route' \in Seq(Walkable) /\ Linked(route') /\ (route' = <<>> => standsOn = target')
          /\ (route' # <<>> => route'[1].from = standsOn /\ route'[Len(route')].to = target')
      BY <3>1, <3>2, ShortestRoute
    <3>4. Walkable' = Walkable
      BY <1>1 DEF Walkable
    <3>5. Linked(route)' /\ OnRoute'
      BY <1>1, <3>3 DEF Linked, OnRoute
    <3> QED
      BY <3>1, <3>3, <3>4, <3>5 DEF RouteInv, WalkArrives
  <2>3. CASE WalkEnds
    <3>1. job = "walk" /\ route = <<>> /\ walk' = "completed" /\ job' = "done" /\ target' = target
      BY <2>3 DEF WalkEnds
    <3>2. ~unsettled => standsOn = target
      BY <3>1 DEF MenuInv, RouteInv, OnRoute
    <3> QED
      BY <1>1, <3>1, <3>2 DEF RouteInv, WalkArrives
  <2> QED
    BY <2>1, <2>2, <2>3
<1> QED
  BY <1>2, <1>3, <1>5, <1>6 DEF MenuInv

\* A press of the walk.
LEMMA WalkKept == MenuInv /\ WalkPresses => MenuInv'
<1> SUFFICES ASSUME MenuInv, WalkPresses PROVE MenuInv'
  OBVIOUS
<1>a. MenuTypes /\ standsOn \in Menus /\ game \in Games /\ unsettled \in BOOLEAN
  BY DEF MenuInv, MenuTypes
<1>1. PICK fell \in {standsOn, standsOn'} :
         /\ unsettled' = (unsettled \/ fell # standsOn')
         /\ \/ AsMapped(fell) /\ route' = Tail(route) /\ UNCHANGED <<walk, job>>
            \/ /\ ~AsMapped(fell) /\ job' = "done" /\ UNCHANGED route
               /\ walk' = IF fell \in charted THEN "mismatch" ELSE "off_map"
  BY DEF WalkPresses
<1>2. /\ job = "walk" /\ route # <<>> /\ lastPress'.on = standsOn /\ lastPress'.meant = Head(route).from
      /\ standsOn' = After(standsOn, Head(route).key) /\ target' = target
      /\ UNCHANGED <<game, crawlPhase, node, arrived, option, ahead, frontier, charted, edges, visited, stamp, changed>>
  BY DEF WalkPresses, WalkKeeps
<1>3. walk = "none" /\ job' \in {"walk", "done"} /\ (unsettled => unsettled') /\ unsettled' \in BOOLEAN
  BY <1>1, <1>2, <1>a DEF MenuInv, StampInv
<1>4. WaysInv' /\ PlaceInv' /\ CoverInv' /\ EdgesInv' /\ CompleteIsComplete'
  BY <1>2, <1>3, MapKept
<1>5. MenuTypes'
  <2>1. standsOn' \in Menus
    BY <1>2, <1>a, AfterType
  <2> QED
    BY <1>2, <1>3, <1>a, <2>1 DEF MenuTypes
<1>6. StampInv'
  BY <1>1, <1>2, <1>3 DEF StampInv
<1> DEFINE edge == Head(route)
<1>7. /\ route \in Seq(Walkable) /\ Linked(route) /\ edge \in Walkable /\ edge = route[1] /\ Len(route) \in Nat \ {0}
      /\ Tail(route) \in Seq(Walkable) /\ Len(Tail(route)) = Len(route) - 1
      /\ \A i \in 1..Len(route) - 1 : Tail(route)[i] = route[i + 1]
  <2>1. route \in Seq(Walkable) /\ Linked(route)
    BY <1>2 DEF MenuInv, RouteInv
  <2> HIDE DEF edge
  <2>2. /\ route[1] \in Walkable /\ Head(route) = route[1] /\ Len(route) \in Nat \ {0} /\ Tail(route) \in Seq(Walkable)
        /\ Len(Tail(route)) = Len(route) - 1 /\ \A i \in 1..Len(route) - 1 : Tail(route)[i] = route[i + 1]
    BY <1>2, <2>1
  <2> QED
    BY <2>1, <2>2 DEF edge
<1> HIDE DEF edge
<1>8. ~unsettled => edge.from = standsOn /\ route[Len(route)].to = target
  BY <1>2, <1>7 DEF MenuInv, RouteInv, OnRoute
<1>9. PressedWhereRead'
  BY <1>2, <1>3, <1>8 DEF PressedWhereRead, edge
<1>10. RouteInv'
  <2>1. SUFFICES ASSUME job' = "walk" PROVE route' \in Seq(Walkable) /\ Linked(route') /\ (~unsettled' => OnRoute')
    <3>1. Walkable' = Walkable
      BY <1>2 DEF Walkable
    <3> QED
      BY <3>1 DEF RouteInv, Linked
  <2>2. AsMapped(fell) /\ route' = Tail(route)
    BY <1>1, <2>1
  <2>3. Linked(route')
    <3>1. SUFFICES ASSUME NEW i \in 1..Len(route') - 1 PROVE route'[i].to = route'[i + 1].from
      BY DEF Linked
    <3>2. i + 1 \in 1..Len(route) - 1 /\ route'[i] = route[i + 1] /\ route'[i + 1] = route[(i + 1) + 1]
      BY <1>7, <2>2, <3>1
    <3> QED
      BY <1>7, <3>2 DEF Linked
  <2>4. ASSUME ~unsettled' PROVE OnRoute'
    <3>1. standsOn' = edge.to /\ ~unsettled
      BY <1>1, <1>3, <2>2, <2>4 DEF AsMapped, edge
    <3>2. CASE Len(route) = 1
      <4>1. Len(route') = 0 /\ route' \in Seq(Walkable)
        BY <1>7, <2>2, <3>2
      <4>2. route' = <<>>
        BY <4>1, EmptySeq
      <4>3. standsOn' = target'
        BY <1>2, <1>7, <1>8, <3>1, <3>2
      <4> QED
        BY <4>2, <4>3 DEF OnRoute
    <3>3. CASE Len(route) # 1
      <4> DEFINE n == Len(route) - 1
      <4>a. n \in Nat \ {0} /\ 1 \in 1..n /\ n \in 1..n /\ n + 1 = Len(route) /\ Len(route') = n
        BY <1>7, <2>2, <3>3
      <4>b. route'[1] = route[1 + 1] /\ route'[n] = route[n + 1]
        BY <1>7, <2>2, <4>a
      <4>c. route' # <<>>
        BY <4>a
      <4>1. route' # <<>> /\ route'[1] = route[2] /\ route'[Len(route')] = route[Len(route)] /\ 1 \in 1..Len(route) - 1
        BY <4>a, <4>b, <4>c
      <4>2. route[1].to = route[1 + 1].from
        BY <1>7, <4>1 DEF Linked
      <4> QED
        BY <1>2, <1>7, <1>8, <3>1, <4>1, <4>2 DEF OnRoute
    <3> QED
      BY <3>2, <3>3
  <2> QED
    BY <1>7, <2>2, <2>3, <2>4
<1>11. WalkArrives'
  <2>1. SUFFICES ASSUME ~unsettled', ~changed PROVE walk' = "none"
    BY <1>1, <1>2, <1>3 DEF WalkArrives
  <2>2. After(edge.from, edge.key) = edge.to
    BY <1>3, <1>7, <2>1 DEF MenuInv, EdgesInv
  <2>3. fell = standsOn' /\ standsOn' = edge.to
    BY <1>1, <1>2, <1>3, <1>8, <2>1, <2>2 DEF edge
  <2> QED
    BY <1>1, <1>3, <2>3 DEF AsMapped, edge
<1> QED
  BY <1>4, <1>5, <1>6, <1>9, <1>10, <1>11 DEF MenuInv

\* Every step of a crawl, of a walk and of the game keeps the invariant.
LEMMA MenuKept == MenuInv /\ [MenuNext]_menuVars => MenuInv'
<1> SUFFICES ASSUME MenuInv, [MenuNext]_menuVars PROVE MenuInv'
  OBVIOUS
<1>1. CASE CrawlStep
  BY <1>1, VisitKept, StampKept, ReplayKept, ProbeKept, ReopenKept DEF CrawlStep
<1>2. CASE CrawlStarts \/ Drifts
  BY <1>2, StartKept, DriftKept
<1>3. CASE WalkStep \/ WalkRefused \/ WalkStarts \/ WalkFails
  BY <1>3, WalkIdles, WalkKept DEF WalkStep
<1>4. CASE UNCHANGED menuVars
  <2>1. UNCHANGED <<game, standsOn, job, crawlPhase, node, arrived, option, ahead, frontier, charted, edges, stamp,
                    target, route, walk, lastPress, unsettled, changed>>
    BY <1>4 DEF menuVars, crawlVars, walkVars
  <2>2. MenuTypes' /\ WaysInv' /\ PlaceInv' /\ EdgesInv'
    BY <2>1, SameGame, MapStays DEF MenuInv, MenuTypes, WaysInv, PlaceInv, Crawling
  <2>3. ASSUME NEW m PROVE (Queued(m)' <=> Queued(m)) /\ (UnderProbe(m) => UnderProbe(m)') /\ (Explored(m)' <=> Explored(m))
    BY <2>1, SameGame DEF Queued, UnderProbe, Probed, Explored
  <2>4. CoverInv' /\ CompleteIsComplete'
    BY <2>1, <2>3 DEF MenuInv, CoverInv, CompleteIsComplete, Crawling
  <2>5. Walkable' = Walkable /\ (Linked(route)' <=> Linked(route)) /\ (OnRoute' <=> OnRoute)
    BY <2>1 DEF Walkable, Linked, OnRoute
  <2>6. RouteInv' /\ StampInv' /\ WalkArrives' /\ PressedWhereRead'
    BY <2>1, <2>5 DEF MenuInv, RouteInv, StampInv, WalkArrives, PressedWhereRead
  <2> QED
    BY <2>2, <2>4, <2>6 DEF MenuInv
<1> QED
  BY <1>1, <1>2, <1>3, <1>4 DEF MenuNext

\* The crawl presses only what it has read, a map stamped complete has every
\* screen safe presses lead to, and a walk over it arrives (MapSound), in any
\* game of menus and whatever becomes of the game after the crawl.
THEOREM MapsAreTrue == MenuSpec => []MapSound
<1>1. MenuInv => MapSound
  BY DEF MenuInv, MapSound
<1> QED
  BY <1>1, MenuBegins, MenuKept, PTL DEF MenuSpec

\* Every press of a walk that goes on fell where the map says.
LEMMA WalksCheck == MenuNext => WalkStopsAstray
<1>1. SUFFICES ASSUME MenuNext, job = "walk", job' = "walk", ~unsettled' PROVE standsOn' = Head(route).to
  BY DEF WalkStopsAstray
<1>2. WalkPresses
  BY <1>1 DEF MenuNext, CrawlStarts, CrawlStep, Visits, Stamps, Replays, Probes, Reopens, Drifts, WalkRefused,
              WalkStarts, WalkStep, WalkEnds, WalkFails
<1> QED
  BY <1>1, <1>2 DEF WalkPresses, AsMapped

\* A walk that was led elsewhere than the map says presses no further key
\* (WalkStopsAstray), also in a game other than the one that was crawled.
THEOREM WalksStop == MenuSpec => [][WalkStopsAstray]_menuVars
  BY WalksCheck, PTL DEF MenuSpec

\* Every edge on the map has its screens and a kind, and the crawl counts what
\* it takes from the queue.
EdgeRows == [from : Menus, key : STRING, to : Menus \cup {Nowhere}, kind : {"nav", "info", "action"}]
MapTypes ==
  /\ job \in {"none", "crawl", "idle", "walk", "done"} /\ crawlPhase \in {"next", "replay", "probe", "again"}
  /\ visited \in 0..MaxNodes /\ stamp \in {"none", "complete", "truncated"} /\ edges \subseteq EdgeRows
  /\ target \in Menus /\ walk \in {"none", "completed", "off_map", "mismatch", "refused", "failed"}

\* An edge of an option of a menu is a row of the map.
LEMMA EdgeFits ==
  ASSUME edges \subseteq EdgeRows, NEW m \in Menus, NEW o \in [key : STRING, label : STRING, to : Menus],
         NEW to \in Menus \cup {Nowhere}, NEW kind \in {"nav", "info", "action"}
  PROVE  WithEdge(m, o, to, kind) \subseteq EdgeRows
<1>1. o.key \in STRING
  OBVIOUS
<1>2. [from |-> m, key |-> o.key, to |-> to, kind |-> kind] \in EdgeRows
  BY <1>1 DEF EdgeRows
<1> HIDE DEF EdgeRows
<1> QED BY <1>2 DEF WithEdge

\* Every variable of the map and its walks has its type.
LEMMA MapTypesKept ==
  ASSUME MapTypes, MenuInv, [MenuNext]_menuVars
  PROVE  MapTypes'
<1> USE DEF CrawlKeeps, WalkKeeps, walkVars, crawlVars
<1>1. /\ job \in {"none", "crawl", "idle", "walk", "done"} /\ crawlPhase \in {"next", "replay", "probe", "again"}
      /\ visited \in 0..MaxNodes /\ stamp \in {"none", "complete", "truncated"} /\ edges \subseteq EdgeRows
      /\ target \in Menus /\ walk \in {"none", "completed", "off_map", "mismatch", "refused", "failed"}
  BY DEF MapTypes
<1>2. game \in Games /\ standsOn \in Menus /\ arrived \in Menus /\ node.menu \in Menus /\ option \in Nat \ {0} /\ MaxNodes \in Nat
  BY MenuAssumption DEF MenuInv, MenuTypes, Nodes
<1>3. CASE CrawlStarts
  BY <1>1, <1>3 DEF CrawlStarts, MapTypes
<1>4. CASE Visits
  <2>1. visited' \in 0..MaxNodes
    BY <1>1, <1>2, <1>4 DEF Visits
  <2>2. UNCHANGED <<job, stamp, edges, target, walk>> /\ crawlPhase' = "replay"
    BY <1>4 DEF Visits
  <2> QED BY <1>1, <2>1, <2>2 DEF MapTypes
<1>5. CASE Stamps
  <2>1. UNCHANGED <<crawlPhase, visited, edges, target, walk>> /\ job' = "idle" /\ stamp' \in {"complete", "truncated"}
    BY <1>5 DEF Stamps
  <2> QED BY <1>1, <2>1 DEF MapTypes
<1>6. CASE Replays
  <2>1. UNCHANGED <<job, visited, stamp, edges, target, walk>> /\ crawlPhase' \in {"next", "replay", "probe"}
    BY <1>6 DEF Replays
  <2> QED BY <1>1, <2>1 DEF MapTypes
<1>7. CASE Probes
  <2>1. UNCHANGED <<job, visited, stamp, target, walk>> /\ crawlPhase' \in {crawlPhase, "next", "again"}
    BY <1>7 DEF Probes
  <2>2. edges' \subseteq EdgeRows
    <3>1. CASE edges' = edges
      BY <1>1, <3>1
    <3>2. CASE edges' # edges
      <4> DEFINE o == Options(arrived)[option]
      <4>1. option <= Len(Options(arrived))
        BY <1>7, <3>2 DEF Probes
      <4>2. o \in [key : STRING, label : STRING, to : Menus]
        BY <1>2, <4>1, OptionRows
      <4>3. edges' = WithEdge(node.menu, o, Nowhere, "action")
            \/ (edges' = WithEdge(node.menu, o, standsOn', EdgeKind(o.label)) /\ standsOn' = After(standsOn, o.key))
        BY <1>7, <3>2 DEF Probes, PressesKey
      <4>4. After(standsOn, o.key) \in Menus
        BY <1>2, AfterType
      <4>5. EdgeKind(o.label) \in {"nav", "info", "action"}
        BY DEF EdgeKind
      <4> HIDE DEF o
      <4> QED BY <1>1, <1>2, <4>2, <4>3, <4>4, <4>5, EdgeFits
    <3> QED BY <3>1, <3>2
  <2> QED BY <1>1, <2>1, <2>2 DEF MapTypes
<1>8. CASE Reopens
  <2>1. UNCHANGED <<job, visited, stamp, edges, target, walk>> /\ crawlPhase' = "replay"
    BY <1>8 DEF Reopens
  <2> QED BY <1>1, <2>1 DEF MapTypes
<1>9. CASE Drifts \/ UNCHANGED menuVars
  BY <1>1, <1>9 DEF Drifts, menuVars, MapTypes
<1>10. CASE WalkRefused \/ WalkStarts \/ WalkEnds \/ WalkFails
  <2>1. UNCHANGED <<crawlPhase, visited, stamp, edges>> /\ job' \in {"walk", "done"} /\ target' \in Menus
        /\ walk' \in {walk, "refused", "completed", "failed"}
    BY <1>1, <1>10 DEF WalkRefused, WalkStarts, WalkEnds, WalkFails
  <2> QED BY <1>1, <2>1 DEF MapTypes
<1>11. CASE WalkPresses
  <2>1. UNCHANGED <<crawlPhase, visited, stamp, edges, target>> /\ job' \in {job, "done"} /\ walk' \in {walk, "mismatch", "off_map"}
    BY <1>11 DEF WalkPresses
  <2> QED BY <1>1, <2>1 DEF MapTypes
<1> QED BY <1>3, <1>4, <1>5, <1>6, <1>7, <1>8, <1>9, <1>10, <1>11 DEF MenuNext, CrawlStep, WalkStep

\* MenuTypeOK, whatever the menus of the game.
LEMMA MenuIsTyped == MenuSpec => []MenuTypeOK
<1>1. MenuInit => MapTypes
  <2>1. 0 \in 0..MaxNodes /\ Door \in Menus
    BY MenuAssumption
  <2> QED BY <2>1 DEF MenuInit, MapTypes
<1>2. MapTypes /\ MenuInv => MenuTypeOK
  <2> SUFFICES ASSUME MapTypes, MenuInv PROVE MenuTypeOK
    OBVIOUS
  <2>1. edges \subseteq [from : Menus, key : {e.key : e \in edges}, to : Menus \cup {Nowhere}, kind : {"nav", "info", "action"}]
    <3> SUFFICES ASSUME NEW e \in edges
                 PROVE  e \in [from : Menus, key : {f.key : f \in edges}, to : Menus \cup {Nowhere}, kind : {"nav", "info", "action"}]
      OBVIOUS
    <3>1. e \in EdgeRows /\ e.key \in {f.key : f \in edges}
      BY DEF MapTypes
    <3> QED BY <3>1 DEF EdgeRows
  <2> QED BY <2>1 DEF MapTypes, MenuInv, MenuTypes, Nodes, MenuTypeOK
<1> QED BY <1>1, <1>2, MenuBegins, MenuKept, MapTypesKept, PTL DEF MenuSpec

-----------------------------------------------------------------------------
(* The wire log *)

LogTypes ==
  /\ writer \in {"free", "sending", "wired"} /\ inbound \in Seq(Chunk)
  /\ text.secret \in BOOLEAN /\ flag \in BOOLEAN /\ raced \in BOOLEAN /\ later \in BOOLEAN

\* The echo of a secret is announced by the flag once its send is written down;
\* until then the send itself is still under way, unless another came between.
Announced == later \/ (writer = "free" /\ flag) \/ (writer = "wired" /\ text.secret)
EchoInv == EchoUnderWay => Announced
LogInv == LogTypes /\ EchoInv /\ SecretNotWritten /\ EchoRedacted

\* An echo under way is that of a chunk that was, or of the one just added.
LEMMA ChunkAdded ==
  ASSUME inbound \in Seq(Chunk), NEW c \in Chunk, inbound' = Append(inbound, c)
  PROVE  inbound' \in Seq(Chunk) /\ (EchoUnderWay' => EchoUnderWay \/ c.echo)
<1>1. /\ inbound' \in Seq(Chunk) /\ DOMAIN inbound = 1..Len(inbound) /\ DOMAIN inbound' = 1..Len(inbound) + 1 /\ Len(inbound) \in Nat
      /\ inbound'[Len(inbound) + 1] = c /\ \A i \in 1..Len(inbound) : inbound'[i] = inbound[i]
  OBVIOUS
<1>2. SUFFICES ASSUME NEW i \in DOMAIN inbound', inbound'[i].echo PROVE EchoUnderWay \/ c.echo
  BY <1>1 DEF EchoUnderWay
<1>3. CASE i = Len(inbound) + 1
  BY <1>1, <1>2, <1>3
<1>4. CASE i # Len(inbound) + 1
  <2>1. i \in 1..Len(inbound)
    BY <1>1, <1>2, <1>4
  <2> QED
    BY <1>1, <1>2, <2>1 DEF EchoUnderWay
<1> QED
  BY <1>3, <1>4

\* Every send, reading and word of the game keeps the invariant.
LEMMA LogKept == LogInv /\ [WireLogNext]_wireLogVars => LogInv'
<1> SUFFICES ASSUME LogInv, [WireLogNext]_wireLogVars PROVE LogInv'
  OBVIOUS
<1>a. LogTypes /\ EchoInv /\ clear \subseteq {"echo"} /\ ("echo" \in clear => raced \/ later)
  BY DEF LogInv, SecretNotWritten, EchoRedacted
<1>1. ASSUME NEW how \in {"send", "send_raw"}, SendBegins(how) PROVE LogInv'
  <2>1. writer = "free" /\ writer' = "sending" /\ later' = (later \/ EchoUnderWay) /\ UNCHANGED <<inbound, flag, raced, clear>>
    BY <1>1 DEF SendBegins
  <2>0. text'.secret \in BOOLEAN
    BY <1>1 DEF SendBegins
  <2>2. EchoInv'
    BY <2>1 DEF EchoInv, EchoUnderWay, Announced
  <2>3. LogTypes'
    BY <1>a, <2>0, <2>1 DEF LogTypes
  <2>4. (SecretNotWritten /\ EchoRedacted)'
    BY <1>a, <2>1 DEF SecretNotWritten, EchoRedacted
  <2> QED
    BY <2>2, <2>3, <2>4 DEF LogInv
<1>2. CASE SendsAll
  <2>1. writer = "sending" /\ writer' = "wired" /\ UNCHANGED <<text, flag, raced, later, clear>>
    BY <1>2 DEF SendsAll
  <2>2. inbound' = inbound \/ \E c \in Chunk : (c.echo => text.secret) /\ inbound' = Append(inbound, c)
    BY <1>2 DEF SendsAll
  <2>3. inbound' \in Seq(Chunk) /\ (EchoUnderWay' => EchoUnderWay \/ text.secret)
    <3>1. CASE inbound' = inbound
      BY <1>a, <3>1 DEF LogTypes, EchoUnderWay
    <3>2. CASE inbound' # inbound
      <4>1. PICK c \in Chunk : (c.echo => text.secret) /\ inbound' = Append(inbound, c)
        BY <2>2, <3>2
      <4> QED
        BY <1>a, <4>1, ChunkAdded DEF LogTypes
    <3> QED
      BY <3>1, <3>2
  <2>4. EchoInv'
    BY <1>a, <2>1, <2>3 DEF EchoInv, Announced
  <2>5. LogTypes'
    BY <1>a, <2>1, <2>3 DEF LogTypes
  <2>6. (SecretNotWritten /\ EchoRedacted)'
    BY <1>a, <2>1 DEF SecretNotWritten, EchoRedacted
  <2> QED
    BY <2>4, <2>5, <2>6 DEF LogInv
<1>3. CASE WritesDown
  <2>1. writer = "wired" /\ writer' = "free" /\ flag' = text.secret /\ UNCHANGED <<text, inbound, raced, later>> /\ clear' = clear
    BY <1>3 DEF WritesDown, Written
  <2>2. EchoInv'
    BY <1>a, <2>1 DEF EchoInv, Announced, EchoUnderWay
  <2>3. LogTypes'
    BY <1>a, <2>1 DEF LogTypes
  <2>4. (SecretNotWritten /\ EchoRedacted)'
    BY <1>a, <2>1 DEF SecretNotWritten, EchoRedacted
  <2> QED
    BY <2>2, <2>3, <2>4 DEF LogInv
<1>4. CASE ReaderReads
  <2> DEFINE c == Head(inbound)
  <2>1. /\ inbound # <<>> /\ inbound' = Tail(inbound) /\ UNCHANGED <<writer, text, later, flag>>
        /\ clear' = IF c.echo /\ ~flag /\ ~c.asks THEN clear \cup {"echo"} ELSE clear
        /\ raced' = (raced \/ (c.echo /\ writer # "free"))
    BY <1>4 DEF ReaderReads, LogsReply
  <2>2. /\ c = inbound[1] /\ 1 \in DOMAIN inbound /\ inbound' \in Seq(Chunk)
        /\ \A i \in DOMAIN inbound' : i + 1 \in DOMAIN inbound /\ inbound'[i] = inbound[i + 1]
    <3>1. inbound \in Seq(Chunk)
      BY <1>a DEF LogTypes
    <3> QED
      BY <2>1, <3>1
  <2>3. (c.echo => EchoUnderWay) /\ (EchoUnderWay' => EchoUnderWay)
    BY <2>2 DEF EchoUnderWay
  <2> HIDE DEF c
  <2>4. EchoInv'
    BY <1>a, <2>1, <2>3 DEF EchoInv, Announced
  <2>5. LogTypes'
    BY <1>a, <2>1, <2>2 DEF LogTypes
  <2>6. SecretNotWritten'
    BY <1>a, <2>1 DEF SecretNotWritten
  <2>7. EchoRedacted'
    BY <1>a, <2>1, <2>3 DEF EchoRedacted, EchoInv, Announced
  <2> QED
    BY <2>4, <2>5, <2>6, <2>7 DEF LogInv
<1>5. CASE GameSpeaks
  <2>1. PICK c \in Chunk : ~c.echo /\ inbound' = Append(inbound, c)
    BY <1>5 DEF GameSpeaks
  <2>2. UNCHANGED <<writer, text, flag, raced, later, clear>>
    BY <1>5 DEF GameSpeaks
  <2>3. inbound' \in Seq(Chunk) /\ (EchoUnderWay' => EchoUnderWay)
    BY <1>a, <2>1, ChunkAdded DEF LogTypes
  <2>4. EchoInv'
    BY <1>a, <2>2, <2>3 DEF EchoInv, Announced
  <2>5. LogTypes'
    BY <1>a, <2>2, <2>3 DEF LogTypes
  <2>6. (SecretNotWritten /\ EchoRedacted)'
    BY <1>a, <2>2 DEF SecretNotWritten, EchoRedacted
  <2> QED
    BY <2>4, <2>5, <2>6 DEF LogInv
<1>6. CASE UNCHANGED wireLogVars
  BY <1>a, <1>6 DEF wireLogVars, LogInv, LogTypes, EchoInv, EchoUnderWay, Announced, SecretNotWritten, EchoRedacted
<1> QED
  BY <1>1, <1>2, <1>3, <1>4, <1>5, <1>6 DEF WireLogNext

\* No secret stands in the log, in the tail or in last_sent, as sent or as
\* echoed (SecretsRedacted), however sends, echoes and the reader interleave
\* and however many chunks are under way; but for an echo that overtook its
\* send's flag or had it taken away by another send.
THEOREM SecretsHidden == WireLogSpec => []SecretsRedacted
<1>1. WireLogInit => LogInv
  <2> SUFFICES ASSUME WireLogInit PROVE LogInv
    OBVIOUS
  <2>1. inbound = <<>> /\ ~EchoUnderWay /\ writer = "free" /\ flag = FALSE /\ raced = FALSE /\ later = FALSE /\ clear = {}
        /\ text.secret = FALSE
    BY DEF WireLogInit, EchoUnderWay
  <2>2. inbound \in Seq(Chunk)
    BY <2>1
  <2> QED
    BY <2>1, <2>2 DEF LogInv, LogTypes, EchoInv, SecretNotWritten, EchoRedacted
<1>2. LogInv => SecretsRedacted
  BY DEF LogInv, SecretsRedacted
<1> QED
  BY <1>1, <1>2, LogKept, PTL DEF WireLogSpec

\* What is under way and what was sent stay within their bounds.
WireCounts ==
  /\ text \in Texts /\ texts \in 0..MaxTexts /\ Len(inbound) <= MaxDue /\ prompt \in BOOLEAN /\ lost \in BOOLEAN

\* Every variable of the wire and its log has its type.
LEMMA WireCountsKept ==
  ASSUME WireCounts, LogInv, [WireLogNext]_wireLogVars
  PROVE  WireCounts'
<1>1. /\ text \in Texts /\ texts \in 0..MaxTexts /\ Len(inbound) <= MaxDue /\ prompt \in BOOLEAN /\ lost \in BOOLEAN
      /\ MaxTexts \in Nat /\ MaxDue \in Nat /\ inbound \in Seq(Chunk)
  BY WireLogAssumption DEF WireCounts, LogInv, LogTypes
<1>2. ASSUME NEW kind \in {"send", "send_raw"}, SendBegins(kind) PROVE WireCounts'
  <2>1. PICK secret \in BOOLEAN : text' = [kind |-> kind, secret |-> secret]
    BY <1>2 DEF SendBegins
  <2> QED BY <1>1, <1>2, <2>1 DEF SendBegins, WireCounts, Texts
<1>3. ASSUME NEW c \in Chunk, Len(inbound) < MaxDue, inbound' = Append(inbound, c) PROVE Len(inbound') <= MaxDue
  <2>1. Len(inbound') = Len(inbound) + 1 /\ Len(inbound) \in Nat
    BY <1>1, <1>3
  <2> QED BY <1>1, <1>3, <2>1
<1>4. CASE SendsAll
  <2>1. inbound' = inbound \/ (Len(inbound) < MaxDue /\ \E c \in Chunk : inbound' = Append(inbound, c))
    BY <1>4 DEF SendsAll
  <2>2. Len(inbound') <= MaxDue
    BY <1>1, <1>3, <2>1
  <2> QED BY <1>1, <1>4, <2>2 DEF SendsAll, WireCounts
<1>5. CASE ReaderReads
  <2>1. inbound # <<>> /\ inbound' = Tail(inbound) /\ prompt' = Head(inbound).asks /\ UNCHANGED <<text, texts, lost>>
    BY <1>5 DEF ReaderReads
  <2>2. Head(inbound) \in Chunk /\ Len(Tail(inbound)) = Len(inbound) - 1 /\ Len(inbound) \in Nat
    BY <1>1, <2>1
  <2>3. Len(inbound') <= MaxDue
    BY <1>1, <2>1, <2>2
  <2>4. prompt' \in BOOLEAN
    BY <2>1, <2>2 DEF Chunk
  <2> QED BY <1>1, <2>1, <2>3, <2>4 DEF WireCounts
<1>6. CASE GameSpeaks
  BY <1>1, <1>3, <1>6 DEF GameSpeaks, WireCounts
<1>7. CASE WritesDown \/ UNCHANGED wireLogVars
  BY <1>1, <1>7 DEF WritesDown, wireLogVars, WireCounts
<1> QED BY <1>2, <1>4, <1>5, <1>6, <1>7 DEF WireLogNext

\* WireLogTypeOK, for any number of sends and of chunks under way.
LEMMA WireLogIsTyped == WireLogSpec => []WireLogTypeOK
<1>1. WireLogInit => WireCounts /\ LogInv
  <2> SUFFICES ASSUME WireLogInit PROVE WireCounts /\ LogInv
    OBVIOUS
  <2>1. /\ text = [kind |-> "send", secret |-> FALSE] /\ texts = 0 /\ inbound = <<>> /\ prompt = FALSE /\ lost = FALSE
        /\ writer = "free" /\ flag = FALSE /\ raced = FALSE /\ later = FALSE /\ clear = {}
    BY DEF WireLogInit
  <2>2. text.secret = FALSE /\ text \in Texts /\ Len(inbound) = 0 /\ inbound \in Seq(Chunk) /\ ~EchoUnderWay
    BY <2>1 DEF Texts, EchoUnderWay
  <2>3. WireCounts
    <3>1. 0 \in 0..MaxTexts /\ 0 <= MaxDue
      BY WireLogAssumption
    <3> QED BY <2>1, <2>2, <3>1 DEF WireCounts
  <2>4. LogInv
    BY <2>1, <2>2 DEF LogInv, LogTypes, EchoInv, SecretNotWritten, EchoRedacted
  <2> QED BY <2>3, <2>4
<1>2. WireCounts /\ LogInv => WireLogTypeOK
  BY DEF WireCounts, LogInv, LogTypes, SecretNotWritten, WireLogTypeOK
<1> QED BY <1>1, <1>2, LogKept, WireCountsKept, PTL DEF WireLogSpec

-----------------------------------------------------------------------------
(* One daemon, several windows *)

\* A window with the seat, and one past its first gate.
Seated == {"gate", "repairs", "looks", "logs in", "stamps"}
Admitted == Seated \ {"gate"}

WindowTypes == doing \in [Windows -> Ensuring \cup {"idle", "ready", "failed"}] /\ plays \in [Windows -> Players \cup {Stranger}]

\* A daemon that is not up plays nobody and serves nobody.
Unstarted == daemon \in {"gone", "coming"} => stamped = Stranger /\ onScreen = Stranger /\ dispatching = Stranger
\* Past the first gate the window's player belongs to the daemon's server.
AdmittedInv == \A w \in Windows : doing[w] \in Admitted => SameServer(plays[w])
PlayersInv == WindowTypes /\ Unstarted /\ AdmittedInv /\ PasswordAtHome /\ StampAtHome /\ OneDriver


\* Everything a window may be doing.
Doings == Ensuring \cup {"idle", "ready", "failed"}

\* An ensure is answered: nobody has the seat.
LEMMA SeatGivenUp ==
  ASSUME WindowTypes, OneDriver, NEW w \in Windows, NEW a \in Doings \ Seated, dispatching = w, RepliesTo(w, a)
  PROVE  doing' \in [Windows -> Doings] /\ OneDriver' /\ \A v \in Windows : doing'[v] \notin Seated
<1>1. doing' = [doing EXCEPT ![w] = a] /\ dispatching' = Stranger /\ doing \in [Windows -> Doings]
  BY DEF WindowTypes, Doings, RepliesTo
<1>2. doing' \in [Windows -> Doings] /\ doing'[w] = a /\ \A v \in Windows : v # w => doing'[v] = doing[v]
  BY <1>1
<1>3. \A v \in Windows : doing'[v] \notin Seated
  BY <1>2 DEF OneDriver, Seated
<1> QED
  BY <1>1, <1>2, <1>3, SharedAssumption DEF OneDriver, Seated

\* The window with the seat moves on and keeps it.
LEMMA SeatHeld ==
  ASSUME WindowTypes, OneDriver, NEW w \in Windows, NEW a \in Seated, dispatching = w, dispatching' = dispatching,
         doing' = [doing EXCEPT ![w] = a]
  PROVE  doing' \in [Windows -> Doings] /\ OneDriver' /\ doing'[w] = a /\ \A v \in Windows : v # w => doing'[v] \notin Seated
<1>1. doing \in [Windows -> Doings] /\ a \in Doings
  BY DEF WindowTypes, Doings, Seated, Ensuring
<1>2. doing' \in [Windows -> Doings] /\ doing'[w] = a /\ \A v \in Windows : v # w => doing'[v] = doing[v]
  BY <1>1
<1>3. \A v \in Windows : v # w => doing'[v] \notin Seated
  BY <1>2 DEF OneDriver, Seated
<1>4. OneDriver'
  BY <1>2, <1>3 DEF OneDriver, Seated
<1> QED
  BY <1>2, <1>3, <1>4

\* A window without the seat moves on without it.
LEMMA SeatPassedBy ==
  ASSUME WindowTypes, OneDriver, NEW w \in Windows, NEW a \in Doings \ Seated, doing[w] \notin Seated, dispatching' = dispatching,
         doing' = [doing EXCEPT ![w] = a]
  PROVE  doing' \in [Windows -> Doings] /\ OneDriver' /\ \A v \in Windows : doing'[v] \in Seated => v # w /\ doing'[v] = doing[v]
<1>1. doing \in [Windows -> Doings]
  BY DEF WindowTypes, Doings
<1>2. doing' \in [Windows -> Doings] /\ doing'[w] = a /\ \A v \in Windows : v # w => doing'[v] = doing[v]
  BY <1>1
<1> QED
  BY <1>2 DEF OneDriver, Seated

\* A step between windows and daemon that sends nothing, stamps nobody and
\* leaves daemon, host and screen alone.
DaemonRests == UNCHANGED <<daemon, host, stamped, onScreen, sent, plays>>
\* Such a step keeps the players apart, if no window is admitted that was not.
LEMMA PlayersRest ==
  ASSUME PlayersInv, DaemonRests, doing' \in [Windows -> Doings], OneDriver',
         daemon \in {"gone", "coming"} => dispatching' = Stranger,
         \A v \in Windows : doing'[v] \in Admitted => doing[v] \in Admitted \/ SameServer(plays[v])
  PROVE  PlayersInv'
<1>1. WindowTypes'
  BY DEF PlayersInv, WindowTypes, DaemonRests, Doings
<1>2. Unstarted'
  BY DEF PlayersInv, Unstarted, DaemonRests
<1>3. AdmittedInv'
  BY DEF PlayersInv, AdmittedInv, DaemonRests, SameServer
<1>4. PasswordAtHome' /\ StampAtHome'
  BY DEF PlayersInv, PasswordAtHome, StampAtHome, DaemonRests
<1> QED
  BY <1>1, <1>2, <1>3, <1>4 DEF PlayersInv

\* Only a daemon that has started has an ensure under way.
LEMMA SeatedUp ==
  ASSUME PlayersInv, NEW w \in Windows, dispatching = w
  PROVE  daemon \notin {"gone", "coming"} /\ (doing[w] \in Admitted => SameServer(plays[w]))
  BY SharedAssumption DEF PlayersInv, Unstarted, AdmittedInv

\* A window that waits, asks, gives up or stops the daemon has no seat.
LEMMA WindowKept ==
  ASSUME PlayersInv, NEW w \in Windows,
         WaitsForSocket(w) \/ AsksDaemon(w) \/ EndSeen(w) \/ TimesOut(w)
  PROVE  PlayersInv'
<1>a. WindowTypes /\ OneDriver /\ Unstarted
  BY DEF PlayersInv
<1>1. doing[w] \notin Seated /\ DaemonRests
  BY DEF WaitsForSocket, AsksDaemon, EndSeen, TimesOut, Seated, DaemonRests, sharedDaemon, records
<1>2. CASE \E a \in Doings \ Seated : doing' = [doing EXCEPT ![w] = a] /\ dispatching' = dispatching
  <2>1. PICK a \in Doings \ Seated : doing' = [doing EXCEPT ![w] = a] /\ dispatching' = dispatching
    BY <1>2
  <2>2. doing' \in [Windows -> Doings] /\ OneDriver' /\ \A v \in Windows : doing'[v] \in Seated => doing'[v] = doing[v]
    BY <1>a, <1>1, <2>1, SeatPassedBy
  <2>3. \A v \in Windows : doing'[v] \in Admitted => doing[v] \in Admitted
    BY <2>2 DEF Admitted
  <2>4. daemon \in {"gone", "coming"} => dispatching' = Stranger
    BY <1>a, <2>1 DEF Unstarted
  <2> QED
    BY <1>1, <2>2, <2>3, <2>4, PlayersRest
<1>3. CASE daemon = "up" /\ dispatching = Stranger /\ dispatching' = w /\ doing' = [doing EXCEPT ![w] = "gate"]
  <2>1. \A v \in Windows : doing[v] \notin Seated
    BY <1>3, <1>a, SharedAssumption DEF OneDriver, Seated
  <2>2. doing' \in [Windows -> Doings] /\ doing'[w] = "gate" /\ \A v \in Windows : v # w => doing'[v] = doing[v]
    BY <1>3, <1>a DEF WindowTypes, Doings, Ensuring
  <2>3. OneDriver'
    BY <1>3, <2>1, <2>2 DEF OneDriver, Seated
  <2>4. \A v \in Windows : doing'[v] \notin Admitted
    BY <2>1, <2>2 DEF Admitted, Seated
  <2> QED
    BY <1>1, <1>3, <2>2, <2>3, <2>4, PlayersRest
<1>4. "asks" \in Doings \ Seated /\ "failed" \in Doings \ Seated /\ "checks" \in Doings \ Seated
  BY DEF Doings, Seated, Ensuring
<1>5. CASE AsksDaemon(w)
  BY <1>2, <1>3, <1>4, <1>5 DEF AsksDaemon
<1>6. CASE WaitsForSocket(w) \/ EndSeen(w) \/ TimesOut(w)
  BY <1>2, <1>4, <1>6 DEF WaitsForSocket, EndSeen, TimesOut
<1> QED
  BY <1>5, <1>6

\* The gates and the login of an ensure with the seat.
LEMMA EnsureKept ==
  ASSUME PlayersInv, NEW w \in Windows,
         FirstGate(w) \/ Repairs(w) \/ LooksIfThere(w) \/ LogsIn(w) \/ StampsProfile(w)
  PROVE  PlayersInv'
<1>a. WindowTypes /\ OneDriver /\ Unstarted /\ PasswordAtHome /\ StampAtHome /\ AdmittedInv
  BY DEF PlayersInv
<1>1. dispatching = w /\ daemon \notin {"gone", "coming"} /\ UNCHANGED <<daemon, host, plays>>
  <2>1. dispatching = w /\ UNCHANGED <<daemon, host, plays>>
    BY DEF FirstGate, Repairs, LooksIfThere, LogsIn, StampsProfile, sharedDaemon
  <2> QED
    BY <2>1, SeatedUp
<1>2. WindowTypes' /\ OneDriver' /\ AdmittedInv'
  <2>1. CASE \E a \in Doings \ Seated : RepliesTo(w, a)
    <3>1. PICK a \in Doings \ Seated : RepliesTo(w, a)
      BY <2>1
    <3>2. doing' \in [Windows -> Doings] /\ OneDriver' /\ \A v \in Windows : doing'[v] \notin Seated
      BY <1>a, <1>1, <3>1, SeatGivenUp
    <3> QED
      BY <1>a, <1>1, <3>2 DEF WindowTypes, Doings, AdmittedInv, Admitted
  <2>2. CASE SameServer(plays[w]) /\ dispatching' = dispatching /\ \E a \in Seated : doing' = [doing EXCEPT ![w] = a]
    <3>1. PICK a \in Seated : doing' = [doing EXCEPT ![w] = a]
      BY <2>2
    <3>2. doing' \in [Windows -> Doings] /\ OneDriver' /\ \A v \in Windows : v # w => doing'[v] \notin Seated
      BY <1>a, <1>1, <2>2, <3>1, SeatHeld
    <3> QED
      BY <1>a, <1>1, <2>2, <3>2 DEF WindowTypes, Doings, AdmittedInv, Admitted, SameServer
  <2>3. "failed" \in Doings \ Seated /\ "ready" \in Doings \ Seated /\ Mismatched(w) \in Doings \ Seated
    BY DEF Doings, Seated, Ensuring, Mismatched
  <2>4. "looks" \in Seated /\ "repairs" \in Seated /\ "logs in" \in Seated /\ "stamps" \in Seated
    BY DEF Seated
  <2>5. doing[w] \in Admitted => SameServer(plays[w])
    BY <1>a DEF AdmittedInv
  <2>6. CASE FirstGate(w)
    BY <2>1, <2>2, <2>3, <2>4, <2>6 DEF FirstGate
  <2>7. CASE Repairs(w)
    BY <2>1, <2>2, <2>3, <2>4, <2>5, <2>7 DEF Repairs, Admitted, Seated
  <2>8. CASE LooksIfThere(w)
    BY <2>1, <2>2, <2>3, <2>4, <2>8 DEF LooksIfThere
  <2>9. CASE LogsIn(w)
    BY <2>1, <2>2, <2>3, <2>4, <2>5, <2>9 DEF LogsIn, Admitted, Seated
  <2>10. CASE StampsProfile(w)
    BY <2>1, <2>3, <2>10 DEF StampsProfile
  <2> QED
    BY <2>6, <2>7, <2>8, <2>9, <2>10
<1>3. Unstarted'
  BY <1>1 DEF Unstarted
<1>4. StampAtHome'
  <2>1. stamped' = stamped \/ (stamped' = plays[w] /\ SameServer(plays[w]))
    BY DEF FirstGate, Repairs, LooksIfThere, LogsIn, StampsProfile, sharedDaemon
  <2>2. onScreen' = onScreen \/ onScreen' = Stranger \/ (onScreen' = plays[w] /\ doing[w] = "logs in")
    BY DEF FirstGate, Repairs, LooksIfThere, LogsIn, StampsProfile, sharedDaemon
  <2>3. doing[w] = "logs in" => SameServer(plays[w])
    BY <1>a DEF AdmittedInv, Admitted, Seated
  <2> QED
    BY <1>a, <1>1, <2>1, <2>2, <2>3 DEF StampAtHome, SameServer
<1>5. PasswordAtHome'
  <2>1. sent' = sent \/ (doing[w] = "logs in" /\ sent' = sent \cup {<<plays[w], host>>})
    BY DEF FirstGate, Repairs, LooksIfThere, LogsIn, StampsProfile, records
  <2>2. doing[w] = "logs in" => host = ServerOf[plays[w]]
    BY <1>a DEF AdmittedInv, Admitted, Seated, SameServer
  <2>3. ASSUME NEW s \in sent' PROVE s[2] = ServerOf[s[1]]
    <3>1. CASE s \in sent
      BY <1>a, <3>1 DEF PasswordAtHome
    <3>2. CASE s \notin sent
      <4>1. s = <<plays[w], host>> /\ host = ServerOf[plays[w]]
        BY <2>1, <2>2, <2>3, <3>2
      <4> QED
        BY <4>1
    <3> QED
      BY <3>1, <3>2
  <2> QED
    BY <2>3 DEF PasswordAtHome
<1> QED
  BY <1>2, <1>3, <1>4, <1>5 DEF PlayersInv

\* A player is chosen, a daemon is looked for, stopped or left.
LEMMA ChoiceKept ==
  ASSUME PlayersInv, NEW w \in Windows,
         ChecksDaemon(w) \/ StopsHost(w) \/ Quits(w) \/ \E p \in Players : Ensures(w, p)
  PROVE  PlayersInv'
<1>a. WindowTypes /\ OneDriver /\ Unstarted /\ PasswordAtHome /\ StampAtHome /\ AdmittedInv
  BY DEF PlayersInv
<1>1. doing[w] \notin Seated /\ UNCHANGED <<stamped, onScreen, sent, dispatching>>
  BY DEF ChecksDaemon, StopsHost, Quits, Ensures, Seated, sharedDaemon, records
<1>2. PICK a \in Doings \ Seated : doing' = [doing EXCEPT ![w] = a]
  <2>1. {"asks", "waits", "awaits end", "idle", "checks"} \subseteq Doings \ Seated
    BY DEF Doings, Seated, Ensuring
  <2> QED
    BY <2>1 DEF ChecksDaemon, StopsHost, Quits, Ensures
<1>3. doing' \in [Windows -> Doings] /\ OneDriver' /\ \A v \in Windows : doing'[v] \in Seated => v # w /\ doing'[v] = doing[v]
  BY <1>a, <1>1, <1>2, SeatPassedBy
<1>4. plays' \in [Windows -> Players \cup {Stranger}] /\ \A v \in Windows : v # w => plays'[v] = plays[v]
  <2>1. plays' = plays \/ \E p \in Players \cup {Stranger} : plays' = [plays EXCEPT ![w] = p]
    BY DEF ChecksDaemon, StopsHost, Quits, Ensures
  <2> QED
    BY <1>a, <2>1 DEF WindowTypes
<1>5. WindowTypes'
  BY <1>3, <1>4 DEF WindowTypes, Doings
<1>6. CASE daemon = "gone"
  <2>1. stamped = Stranger /\ onScreen = Stranger /\ dispatching = Stranger
    BY <1>6, <1>a DEF Unstarted
  <2>2. \A v \in Windows : doing'[v] \notin Seated
    BY <1>1, <1>3, <2>1, SharedAssumption DEF OneDriver, Seated
  <2>3. AdmittedInv' /\ Unstarted' /\ StampAtHome' /\ PasswordAtHome'
    BY <1>1, <1>a, <2>1, <2>2 DEF AdmittedInv, Admitted, Unstarted, StampAtHome, PasswordAtHome
  <2> QED
    BY <1>3, <1>5, <2>3 DEF PlayersInv
<1>7. CASE daemon # "gone"
  <2>1. host' = host /\ (daemon' \in {"gone", "coming"} => daemon \in {"gone", "coming"})
    BY <1>7 DEF ChecksDaemon, StopsHost, Quits, Ensures, sharedDaemon
  <2>2. AdmittedInv'
    BY <1>3, <1>4, <1>a, <2>1 DEF AdmittedInv, Admitted, SameServer
  <2>3. Unstarted' /\ StampAtHome' /\ PasswordAtHome'
    BY <1>1, <1>a, <2>1 DEF Unstarted, StampAtHome, PasswordAtHome
  <2> QED
    BY <1>3, <1>5, <2>2, <2>3 DEF PlayersInv
<1> QED
  BY <1>6, <1>7

\* The daemon comes up, ends, loses its line, replays a login or files a sector.
LEMMA HostKept ==
  ASSUME PlayersInv, ComesUp \/ DaemonEnds \/ HangsUp \/ GuardianReplays \/ FilesSector \/ \E w \in Windows : Explores(w)
  PROVE  PlayersInv'
<1>a. WindowTypes /\ OneDriver /\ Unstarted /\ PasswordAtHome /\ StampAtHome /\ AdmittedInv
  BY DEF PlayersInv
<1>1. CASE ComesUp
  <2>1. daemon = "coming" /\ stamped' = Stranger /\ onScreen' = Stranger /\ UNCHANGED <<doing, plays, dispatching, sent>>
    BY <1>1 DEF ComesUp, records
  <2>2. dispatching = Stranger
    BY <1>a, <2>1 DEF Unstarted
  <2>3. \A v \in Windows : doing[v] \notin Admitted
    BY <1>a, <2>2, SharedAssumption DEF OneDriver, Admitted, Seated
  <2>4. AdmittedInv' /\ Unstarted' /\ StampAtHome' /\ PasswordAtHome' /\ WindowTypes' /\ OneDriver'
    BY <1>a, <2>1, <2>2, <2>3 DEF AdmittedInv, Unstarted, StampAtHome, PasswordAtHome, WindowTypes, OneDriver
  <2> QED
    BY <2>4 DEF PlayersInv
<1>2. CASE DaemonEnds
  <2>1. /\ daemon' = "gone" /\ stamped' = Stranger /\ onScreen' = Stranger /\ dispatching' = Stranger /\ UNCHANGED <<plays, sent>>
        /\ doing' = [w \in Windows |-> IF w = dispatching THEN "failed" ELSE doing[w]]
    BY <1>2 DEF DaemonEnds, records
  <2>2. \A v \in Windows : doing'[v] \notin Seated
    BY <1>a, <2>1 DEF OneDriver, Seated
  <2>3. WindowTypes'
    BY <1>a, <2>1 DEF WindowTypes
  <2>4. OneDriver'
    BY <2>1, <2>2, SharedAssumption DEF OneDriver, Seated
  <2>5. AdmittedInv' /\ Unstarted' /\ StampAtHome' /\ PasswordAtHome'
    BY <1>a, <2>1, <2>2 DEF AdmittedInv, Admitted, Unstarted, StampAtHome, PasswordAtHome
  <2> QED
    BY <2>3, <2>4, <2>5 DEF PlayersInv
<1>3. CASE HangsUp \/ FilesSector \/ \E w \in Windows : Explores(w)
  <2>1. UNCHANGED <<daemon, host, stamped, onScreen, doing, plays, dispatching, sent>>
    BY <1>3 DEF HangsUp, FilesSector, Explores, records
  <2>2. AdmittedInv' /\ Unstarted' /\ StampAtHome' /\ PasswordAtHome' /\ WindowTypes' /\ OneDriver'
    BY <1>a, <2>1 DEF AdmittedInv, Unstarted, StampAtHome, PasswordAtHome, WindowTypes, OneDriver, SameServer
  <2> QED
    BY <2>2 DEF PlayersInv
<1>4. CASE GuardianReplays
  <2>1. /\ daemon = "up" /\ stamped # Stranger /\ sent' = sent \cup {<<stamped, host>>} /\ onScreen' \in {Stranger, stamped}
        /\ UNCHANGED <<daemon, host, stamped, doing, plays, dispatching>>
    BY <1>4 DEF GuardianReplays
  <2>2. host = ServerOf[stamped]
    BY <1>a, <2>1 DEF StampAtHome
  <2>3. PasswordAtHome' /\ StampAtHome'
    BY <1>a, <2>1, <2>2 DEF PasswordAtHome, StampAtHome
  <2>4. AdmittedInv' /\ Unstarted' /\ WindowTypes' /\ OneDriver'
    BY <1>a, <2>1 DEF AdmittedInv, Unstarted, WindowTypes, OneDriver, SameServer
  <2> QED
    BY <2>3, <2>4 DEF PlayersInv
<1> QED
  BY <1>1, <1>2, <1>3, <1>4

\* Every step of a window, an ensure, the daemon or its connection keeps the
\* invariant.
LEMMA PlayersKept == PlayersInv /\ [SharedNext]_sharedVars => PlayersInv'
<1> SUFFICES ASSUME PlayersInv, [SharedNext]_sharedVars PROVE PlayersInv'
  OBVIOUS
<1>1. CASE UNCHANGED sharedVars
  BY <1>1 DEF sharedVars, PlayersInv, WindowTypes, Unstarted, AdmittedInv, PasswordAtHome, StampAtHome, OneDriver, SameServer
<1>2. ASSUME NEW w \in Windows, EnsureStep(w) PROVE PlayersInv'
  BY <1>2, WindowKept, EnsureKept, ChoiceKept DEF EnsureStep
<1>3. ASSUME NEW w \in Windows, TimesOut(w) \/ Quits(w) \/ Explores(w) \/ \E p \in Players : Ensures(w, p) PROVE PlayersInv'
  BY <1>3, WindowKept, ChoiceKept, HostKept
<1>4. CASE ComesUp \/ DaemonEnds \/ HangsUp \/ GuardianReplays \/ FilesSector
  BY <1>4, HostKept
<1> QED
  BY <1>1, <1>2, <1>3, <1>4 DEF SharedNext

\* A password goes only to the server its profile names, what the guardian
\* would replay belongs to the server the daemon is connected to, and one
\* ensure drives at a time (PlayersApart), for any windows and profiles and any
\* number of ensures, stops and replays.
THEOREM PlayersStayApart == SharedSpec => []PlayersApart
<1>1. SharedInit => PlayersInv
  BY SharedAssumption DEF SharedInit, PlayersInv, WindowTypes, Unstarted, AdmittedInv, Admitted, Seated, PasswordAtHome, StampAtHome, OneDriver
<1>2. PlayersInv => PlayersApart
  BY DEF PlayersInv, PlayersApart
<1> QED
  BY <1>1, <1>2, PlayersKept, PTL DEF SharedSpec

\* The daemon, who it plays for and who has its seat.
HostTypes ==
  /\ daemon \in {"gone", "coming", "up", "going"} /\ wired \in BOOLEAN /\ ensures \in 0..MaxEnsures
  /\ stamped \in Players \cup {Stranger} /\ onScreen \in Players \cup {Stranger} /\ exploring \in Players \cup {Stranger}
  /\ dispatching \in Windows \cup {Stranger}

\* What the daemon may be, whom it may play and who may hold its seat.
LEMMA HostTypesKept ==
  ASSUME HostTypes, WindowTypes, [SharedNext]_sharedVars
  PROVE  HostTypes'
<1>1. /\ daemon \in {"gone", "coming", "up", "going"} /\ wired \in BOOLEAN /\ ensures \in 0..MaxEnsures
      /\ stamped \in Players \cup {Stranger} /\ onScreen \in Players \cup {Stranger} /\ exploring \in Players \cup {Stranger}
      /\ dispatching \in Windows \cup {Stranger}
  BY DEF HostTypes
<1>2. \A w \in Windows : plays[w] \in Players \cup {Stranger}
  BY DEF WindowTypes
<1>3. MaxEnsures \in Nat /\ Cockpits \subseteq Windows
  BY SharedAssumption
<1>4. ASSUME NEW w \in Windows, NEW a, RepliesTo(w, a) PROVE dispatching' \in Windows \cup {Stranger}
  BY <1>4 DEF RepliesTo
<1>5. ASSUME NEW w \in Windows, NEW p \in Players, Ensures(w, p) PROVE HostTypes'
  BY <1>1, <1>3, <1>5 DEF Ensures, sharedDaemon, HostTypes
<1>6. ASSUME NEW w \in Windows, ChecksDaemon(w) \/ WaitsForSocket(w) \/ AsksDaemon(w) \/ StopsHost(w) \/ EndSeen(w) \/ TimesOut(w)
      PROVE  HostTypes'
  BY <1>1, <1>6 DEF ChecksDaemon, WaitsForSocket, AsksDaemon, StopsHost, EndSeen, TimesOut, sharedDaemon, records, HostTypes
<1>7. ASSUME NEW w \in Windows, FirstGate(w) \/ Repairs(w) \/ LooksIfThere(w) \/ LogsIn(w) \/ StampsProfile(w)
      PROVE  HostTypes'
  <2>1. dispatching' \in Windows \cup {Stranger}
    BY <1>1, <1>7 DEF FirstGate, Repairs, LooksIfThere, LogsIn, StampsProfile, RepliesTo
  <2>2. stamped' \in Players \cup {Stranger} /\ onScreen' \in Players \cup {Stranger} /\ wired' \in BOOLEAN
    BY <1>1, <1>2, <1>7 DEF FirstGate, Repairs, LooksIfThere, LogsIn, StampsProfile, sharedDaemon
  <2>3. UNCHANGED <<daemon, exploring, ensures>>
    BY <1>7 DEF FirstGate, Repairs, LooksIfThere, LogsIn, StampsProfile, sharedDaemon, records
  <2> QED BY <1>1, <2>1, <2>2, <2>3 DEF HostTypes
<1>8. ASSUME NEW w \in Windows, Quits(w) \/ Explores(w) PROVE HostTypes'
  BY <1>1, <1>2, <1>8 DEF Quits, Explores, records, HostTypes
<1>9. CASE ComesUp \/ DaemonEnds \/ HangsUp \/ GuardianReplays \/ FilesSector \/ UNCHANGED sharedVars
  BY <1>1, <1>9 DEF ComesUp, DaemonEnds, HangsUp, GuardianReplays, FilesSector, sharedVars, records, HostTypes
<1> QED BY <1>5, <1>6, <1>7, <1>8, <1>9 DEF SharedNext, EnsureStep

\* SharedTypeOK, for any windows, players and servers.
LEMMA SharedIsTyped == SharedSpec => []SharedTypeOK
<1>1. SharedInit => HostTypes
  <2>1. 0 \in 0..MaxEnsures
    BY SharedAssumption
  <2> QED BY <2>1 DEF SharedInit, HostTypes
<1>2. SharedInit => PlayersInv
  BY SharedAssumption DEF SharedInit, PlayersInv, WindowTypes, Unstarted, AdmittedInv, Admitted, Seated, PasswordAtHome, StampAtHome, OneDriver
<1>3. PlayersInv => WindowTypes
  BY DEF PlayersInv
<1>4. HostTypes /\ WindowTypes => SharedTypeOK
  BY DEF HostTypes, WindowTypes, SharedTypeOK
<1> QED BY <1>1, <1>2, <1>3, <1>4, PlayersKept, HostTypesKept, PTL DEF SharedSpec

-----------------------------------------------------------------------------
(* An explore run's turns *)

\* A hop is charged when its key is out; its turns are still to come as long as
\* the game asks the player to confirm it.
HopOwed == IF view \in {"confirm", "avoid"} /\ pending # 0 THEN HopTurns ELSE 0

\* What n hops cost this ship.
Worth(n) == n * HopTurns

TurnTypes ==
  /\ sail \in {"idle", "look", "plan", "over"}
  /\ spent \in Nat /\ left \in Nat /\ asked \in Nat

\* What is spent, what the hops left cost and what a hop still owes are what the
\* order's hops cost at most, until the run is over.
TurnsInv ==
  /\ TurnTypes
  /\ sail = "idle" => spent = 0 /\ pending = 0
  /\ spent <= Worth(asked)
  /\ sail \in {"look", "plan"} => spent + Worth(left) + HopOwed <= Worth(asked)

\* One hop less costs one hop's turns less, and a hop costs a turn at least.
LEMMA WorthAdds ==
  /\ HopTurns \in Nat /\ HopTurns >= 1
  /\ \A n \in Nat : Worth(n) \in Nat /\ (n > 0 => Worth(n - 1) = Worth(n) - HopTurns /\ Worth(n - 1) \in Nat)
<1>1. HopTurns \in Nat /\ HopTurns >= 1
  BY ExploreAssumption
<1>2. ASSUME NEW n \in Nat PROVE n * HopTurns \in Nat
  BY <1>1
<1>3. ASSUME NEW n \in Nat, n > 0 PROVE (n - 1) * HopTurns = n * HopTurns - HopTurns
  BY <1>1, <1>3
<1>4. ASSUME NEW n \in Nat, n > 0 PROVE n - 1 \in Nat
  BY <1>4
<1> QED BY <1>1, <1>2, <1>3, <1>4 DEF Worth

\* Steps that leave the turns alone and owe no hop.
LEMMA TurnsRest ==
  ASSUME TurnsInv, UNCHANGED <<spent, asked, left>>, sail' \in {"look", "plan", "over"}, sail # "idle", sail # "over",
         pending' = 0 \/ (UNCHANGED <<pending, view>>) \/ view' \notin {"confirm", "avoid"}
  PROVE  TurnsInv'
BY WorthAdds DEF TurnsInv, TurnTypes, HopOwed

\* A run that is over, or will not start again, spends nothing more.
LEMMA TurnsOver ==
  ASSUME TurnsInv, UNCHANGED <<spent, asked, left>>, sail' = "over"
  PROVE  TurnsInv'
BY DEF TurnsInv, TurnTypes, HopOwed

\* Every step of a run keeps its turns within the order.
LEMMA TurnsStep == TurnsInv /\ [ExploreNext]_exploreVars => TurnsInv'
<1> SUFFICES ASSUME TurnsInv, [ExploreNext]_exploreVars PROVE TurnsInv'
  OBVIOUS
<1> USE DEF exploreOrderVars, exploreRunVars, galaxyVars
<1>1. CASE \E task \in Intents, n \in Turns : ExploreStarts(task, n)
  <2>1. PICK task \in Intents, n \in Turns : ExploreStarts(task, n)
    BY <1>1
  <2>2. n \in Nat
    BY ExploreAssumption
  <2>3. sail = "idle" /\ sail' = "look" /\ asked' = n /\ left' = n /\ spent' = spent /\ pending' = pending
    BY <2>1 DEF ExploreStarts
  <2> QED
    BY <2>2, <2>3, WorthAdds DEF TurnsInv, TurnTypes, HopOwed
<1>2. CASE StopSeen \/ RunRaises \/ SettleFails
  BY <1>2, TurnsOver DEF StopSeen, RunRaises, SettleFails, Finishes
<1>3. CASE AnswersConfirm
  <2>1. sail = "look" /\ pending # 0 /\ view \in {"confirm", "avoid"} /\ pending' = 0 /\ left' = left /\ asked' = asked
        /\ sail' \in {"look", "over"}
    BY <1>3 DEF AnswersConfirm
  <2>2. spent' = spent \/ spent' = spent + HopTurns
    BY <1>3 DEF AnswersConfirm, Stays, Moves
  <2>3. HopOwed = HopTurns /\ HopOwed' = 0
    BY <2>1 DEF HopOwed
  <2> QED
    BY <2>1, <2>2, <2>3, WorthAdds DEF TurnsInv, TurnTypes
<1>4. CASE Fights
  <2>1. CASE Finishes("fight_limit") /\ UNCHANGED galaxyVars
    BY <2>1, TurnsOver DEF Finishes
  <2>2. CASE Finishes("policy_stop") /\ UNCHANGED galaxyVars
    BY <2>2, TurnsOver DEF Finishes
  <2>3. CASE /\ sail = "look" /\ sail' \in {"look", "over"} /\ view' \in {"fighters", "main", "other"}
             /\ UNCHANGED <<spent, asked, left>>
    BY <2>3, TurnsRest
  <2>4. /\ sail = "look"
        /\ \/ Finishes("fight_limit") /\ UNCHANGED galaxyVars
           \/ Finishes("policy_stop") /\ UNCHANGED galaxyVars
           \/ /\ view' \in {"fighters", "main", "other"} /\ (sail' = "over" \/ sail' = sail)
              /\ UNCHANGED <<spent, asked, left>>
    BY <1>4 DEF Fights
  <2> QED
    BY <2>1, <2>2, <2>3, <2>4
<1>5. CASE WaitsForLogin
  <2>1. sail = "look" /\ sail' = sail /\ view' \in {"main", "other"} /\ UNCHANGED <<spent, asked, left>>
    BY <1>5 DEF WaitsForLogin, Undrivable
  <2> QED
    BY <2>1, TurnsRest
<1>6. CASE Declares \/ GoalMet \/ BudgetSpent
  BY <1>6, TurnsOver DEF Declares, GoalMet, BudgetSpent, Finishes
<1>7. CASE Records
  <2>1. CASE Finishes("sector_unreadable") /\ UNCHANGED galaxyVars
    BY <2>1, TurnsOver DEF Finishes
  <2>2. CASE sail = "look" /\ sail' = "plan" /\ pending' = 0 /\ UNCHANGED <<spent, asked, left>>
    BY <2>2, TurnsRest
  <2>3. \/ Finishes("sector_unreadable") /\ UNCHANGED galaxyVars
        \/ sail = "look" /\ sail' = "plan" /\ pending' = 0 /\ UNCHANGED <<spent, asked, left>>
    BY <1>7 DEF Records
  <2> QED
    BY <2>1, <2>2, <2>3
<1>8. CASE DocksPort
  <2>1. PICK keys \in 1..2, turn \in {0, 1} :
           /\ spent' = spent + turn /\ left' = DockCharged(keys) /\ (keys > 1 => turn = 1)
           /\ \/ sail' = "over"
              \/ keys > 1 /\ UNCHANGED <<sail, view>>
    BY <1>8 DEF DocksPort
  <2>2. sail = "plan" /\ left > 0 /\ asked' = asked /\ pending' = pending
    BY <1>8 DEF DocksPort, NeedsDock
  <2>3. left' = (IF keys = 1 THEN left ELSE left - 1)
    BY <2>1 DEF DockCharged
  <2>4. TurnTypes'
    BY <2>1, <2>2, <2>3 DEF TurnsInv, TurnTypes
  <2>5. CASE sail' = "over"
    <3>1. /\ spent \in Nat /\ left \in Nat /\ asked \in Nat /\ left >= 1 /\ HopOwed \in Nat /\ spent' <= spent + 1
          /\ spent + Worth(left) + HopOwed <= Worth(asked)
      BY <2>1, <2>2, WorthAdds DEF TurnsInv, TurnTypes, HopOwed
    <3>2. Worth(left) >= HopTurns /\ Worth(asked) \in Nat /\ HopTurns >= 1 /\ HopTurns \in Nat /\ Worth(left) \in Nat
      <4>1. left > 0
        BY <3>1
      <4>2. Worth(left - 1) = Worth(left) - HopTurns /\ Worth(left - 1) \in Nat
        BY <3>1, <4>1, WorthAdds
      <4> QED BY <3>1, <4>2, WorthAdds
    <3>3. spent' <= Worth(asked)
      BY <2>4, <3>1, <3>2 DEF TurnTypes
    <3> QED BY <2>2, <2>4, <2>5, <3>3 DEF TurnsInv
  <2>6. CASE keys > 1 /\ UNCHANGED <<sail, view>>
    <3>1. HopOwed' = HopOwed /\ HopOwed \in Nat
      BY <2>2, <2>6, WorthAdds DEF HopOwed
    <3>2. spent' = spent + 1 /\ left' = left - 1
      BY <2>1, <2>3, <2>6
    <3> QED
      BY <2>2, <2>4, <2>6, <3>1, <3>2, WorthAdds DEF TurnsInv, TurnTypes
  <2> QED
    BY <2>1, <2>5, <2>6
<1>9. CASE DecidesPosture
  <2>1. sail = "plan" /\ sail' \in {"plan", "over"} /\ UNCHANGED <<spent, asked, left, pending, view>>
    BY <1>9 DEF DecidesPosture, Planning
  <2> QED
    BY <2>1, TurnsRest
<1>10. CASE Lands
  <2>1. sail = "plan" /\ sail' \in {"look", "over"} /\ UNCHANGED <<spent, asked, left, pending, view>>
    BY <1>10 DEF Lands, Planning
  <2> QED
    BY <2>1, TurnsRest
<1>11. CASE Departs
  <2>1. sail = "plan" /\ left > 0 /\ sail' = "look" /\ left' = left - 1 /\ asked' = asked
    BY <1>11 DEF Departs, Planning
  <2>2. \/ spent' = spent + HopTurns /\ view' \in {"main", "display", "fighters"}
        \/ spent' = spent
    BY <1>11 DEF Departs, Moves, Stays
  <2>3. HopOwed' \in {0, HopTurns} /\ (view' \in {"main", "display", "fighters"} => HopOwed' = 0) /\ HopOwed \in Nat
    BY WorthAdds DEF HopOwed
  <2>4. Worth(left') = Worth(left) - HopTurns /\ Worth(left') \in Nat
    BY <2>1, WorthAdds DEF TurnsInv, TurnTypes
  <2> QED
    BY <2>1, <2>2, <2>3, <2>4, WorthAdds DEF TurnsInv, TurnTypes
<1>12. CASE WarpEnds
  <2>1. view' \in {"main", "fighters"} /\ sail' = sail /\ UNCHANGED <<spent, asked, left, pending>>
    BY <1>12 DEF WarpEnds
  <2>2. HopOwed' = 0 /\ HopOwed \in Nat
    BY <2>1, WorthAdds DEF HopOwed
  <2> QED
    BY <2>1, <2>2, WorthAdds DEF TurnsInv, TurnTypes
<1>13. CASE LoginBursts
  <2>1. UNCHANGED <<spent, asked, left, pending, view, sail>>
    BY <1>13 DEF LoginBursts
  <2> QED
    BY <2>1, WorthAdds DEF TurnsInv, TurnTypes, HopOwed
<1>14. CASE UNCHANGED exploreVars
  BY <1>14, WorthAdds DEF exploreVars, TurnsInv, TurnTypes, HopOwed
<1> QED
  BY <1>1, <1>2, <1>3, <1>4, <1>5, <1>6, <1>7, <1>8, <1>9, <1>10, <1>11, <1>12, <1>13, <1>14 DEF ExploreNext, ExploreStep

-----------------------------------------------------------------------------
(* The anchors of a chain hunt *)

\* A chain hunt's state over the ports S on record: the anchors are of S, each
\* once and no more than Depth, none of them is being visited, and a return
\* leads to the present one.
ChainOK(st, S) ==
  /\ DOMAIN st = {"anc", "anchor", "visiting", "back"}
  /\ st.anc \in Seq(S) /\ st.anchor \in S \cup {0}
  /\ Len(st.anc) + (IF st.anchor = 0 THEN 0 ELSE 1) <= Depth
  /\ \A i, j \in 1..Len(st.anc) : i # j => st.anc[i] # st.anc[j]
  /\ \A i \in 1..Len(st.anc) : st.anc[i] # st.anchor /\ st.anc[i] # st.visiting
  /\ st.visiting = 0 \/ st.visiting # st.anchor
  /\ st.back \in {0, st.anchor}

ChainsOK(P, S) == \A p \in P : ChainOK(p.chain, S)

\* The ports on record; no sector is numbered 0.
PortsKnown == known \cap PortSectors
\* No port, known or not, is the number 0 that stands for no anchor.
LEMMA NoPortIsZero == 0 \notin PortsKnown /\ 0 \notin PortSectors
BY ExploreAssumption DEF PortsKnown

\* The state a plan carries, with a hop or without.
LEMMA PlanCarries ==
  /\ \A s, v, st : Hop(s, v, st).chain = st
  /\ \A n, why, st : Plan(n, why, st).chain = st
BY DEF Hop, Plan

\* A hunt that has not begun, and one whose first anchor is a port on record.
LEMMA NoChainOK == ASSUME NEW S PROVE ChainOK(NoChain, S)
BY ExploreAssumption DEF ChainOK, NoChain

\* A chain hunt that names its first anchor names a sector of the set it came from.
LEMMA FirstAnchorOK ==
  ASSUME NEW S, NEW s \in S, 0 \notin S PROVE ChainOK([NoChain EXCEPT !.anchor = s], S)
BY ExploreAssumption DEF ChainOK, NoChain

\* A return, or a visit of a sector that is no anchor, keeps the anchors.
LEMMA VisitOK ==
  ASSUME NEW S, NEW st, ChainOK(st, S), NEW v, v = 0 \/ v \notin S, 0 \notin S, NEW b \in {0, st.anchor}
  PROVE  ChainOK([st EXCEPT !.visiting = v, !.back = b], S)
<1> DEFINE new == [st EXCEPT !.visiting = v, !.back = b]
<1>1. DOMAIN st = {"anc", "anchor", "visiting", "back"} /\ DOMAIN new = DOMAIN st
  BY DEF ChainOK
<1>2. new.anc = st.anc /\ new.anchor = st.anchor /\ new.visiting = v /\ new.back = b
  BY <1>1
<1>3. \A i \in 1..Len(st.anc) : st.anc[i] \in S
  BY DEF ChainOK
<1> HIDE DEF new
<1>4. ChainOK(new, S)
  BY <1>1, <1>2, <1>3 DEF ChainOK
<1> QED
  BY <1>4 DEF new

\* One level deeper: the anchor joins its ancestors, the visited port is next.
LEMMA DeeperOK ==
  ASSUME NEW S, NEW st, ChainOK(st, S), 0 \notin S, NEW s \in S, st.visiting = s, st.anchor # 0,
         Len(st.anc) + 1 < Depth
  PROVE  ChainOK([anc |-> Append(st.anc, st.anchor), anchor |-> s, visiting |-> 0, back |-> 0], S)
<1> DEFINE longer == Append(st.anc, st.anchor)
           new == [anc |-> longer, anchor |-> s, visiting |-> 0, back |-> 0]
<1>a. Depth \in Nat /\ st.anc \in Seq(S) /\ st.anchor \in S /\ Len(st.anc) \in Nat /\ s # 0
  BY ExploreAssumption DEF ChainOK
<1>1. longer \in Seq(S) /\ Len(longer) = Len(st.anc) + 1
  BY <1>a
<1>2. \A i \in 1..Len(longer) : longer[i] = IF i <= Len(st.anc) THEN st.anc[i] ELSE st.anchor
  BY <1>a
<1>3. \A i \in 1..Len(st.anc) : st.anc[i] \in S /\ st.anc[i] # st.anchor /\ st.anc[i] # s
  BY <1>a DEF ChainOK
<1>4. \A i, j \in 1..Len(st.anc) : i # j => st.anc[i] # st.anc[j]
  BY DEF ChainOK
<1>5. \A i, j \in 1..Len(longer) : i # j => longer[i] # longer[j]
  BY <1>a, <1>1, <1>2, <1>3, <1>4
<1>6. \A i \in 1..Len(longer) : longer[i] # s /\ longer[i] # 0
  BY <1>a, <1>1, <1>2, <1>3 DEF ChainOK
<1>7. new.anc = longer /\ new.anchor = s /\ new.visiting = 0 /\ new.back = 0
  OBVIOUS
<1> HIDE DEF longer
<1>8. Len(new.anc) + (IF new.anchor = 0 THEN 0 ELSE 1) <= Depth
  BY <1>a, <1>1, <1>7
<1> QED
  BY <1>a, <1>1, <1>5, <1>6, <1>7, <1>8 DEF ChainOK, longer

\* Back up to an ancestor, whose own ancestors are those before it.
LEMMA UpToOK ==
  ASSUME NEW S, NEW st, ChainOK(st, S), 0 \notin S, NEW i \in 1..Len(st.anc)
  PROVE  ChainOK(UpTo(st, i), S)
<1> DEFINE rest == SubSeq(st.anc, 1, i - 1)
<1>a. Depth \in Nat /\ st.anc \in Seq(S) /\ Len(st.anc) \in Nat /\ st.anc[i] \in S
  BY ExploreAssumption DEF ChainOK
<1>1. rest \in Seq(S) /\ Len(rest) = i - 1 /\ \A j \in 1..(i - 1) : rest[j] = st.anc[j]
  BY <1>a
<1>2. \A j, k \in 1..Len(st.anc) : j # k => st.anc[j] # st.anc[k]
  BY DEF ChainOK
<1>3. \A j \in 1..(i - 1) : st.anc[j] \in S
  BY <1>a
<1>4. i <= Depth
  BY <1>a, NoPortIsZero DEF ChainOK
<1>5. /\ UpTo(st, i) = [anc |-> rest, anchor |-> st.anc[i], visiting |-> 0, back |-> 0]
      /\ UpTo(st, i).anc = rest /\ UpTo(st, i).anchor = st.anc[i] /\ UpTo(st, i).visiting = 0 /\ UpTo(st, i).back = 0
  BY DEF UpTo
<1> HIDE DEF rest
<1>6. \A j, k \in 1..Len(rest) : j # k => rest[j] # rest[k]
  <2>1. 1..Len(rest) = 1..(i - 1) /\ \A j \in 1..(i - 1) : j \in 1..Len(st.anc)
    BY <1>a, <1>1
  <2> QED BY ONLY <1>1, <1>2, <2>1
<1>7. \A j \in 1..Len(rest) : rest[j] # st.anc[i] /\ rest[j] # 0
  BY <1>a, <1>1, <1>2, <1>3
<1>8. Len(rest) + (IF st.anc[i] = 0 THEN 0 ELSE 1) <= Depth
  BY <1>a, <1>1, <1>4
<1> QED
  BY <1>a, <1>1, <1>5, <1>6, <1>7, <1>8 DEF ChainOK

\* Ports that come on record take nothing from a chain.
LEMMA MorePortsOK ==
  ASSUME NEW S, NEW T, S \subseteq T, NEW st, ChainOK(st, S) PROVE ChainOK(st, T)
<1>1. st.anc \in Seq(T)
  BY DEF ChainOK
<1> QED
  BY <1>1 DEF ChainOK

\* The planner's ways of heading somewhere and of giving up.
LEMMA HeadsOK ==
  ASSUME NEW S, NEW s, NEW g, NEW st, ChainOK(st, S), NEW gone, ChainsOK(gone, S)
  PROVE  ChainsOK(Heads(s, g, st, gone), S)
BY PlanCarries DEF Heads, ChainsOK

\* Filling the map carries the chain hunt's state along unchanged.
LEMMA MapFillOK ==
  ASSUME NEW S, NEW s, NEW st, ChainOK(st, S) PROVE ChainsOK(MapFill(s, st), S)
BY PlanCarries DEF MapFill, ChainsOK

\* So does the last resort, which walks back along the anchors or goes on mapping.
LEMMA LastResortOK ==
  ASSUME NEW S, NEW s, NEW st, ChainOK(st, S) PROVE ChainsOK(LastResort(s, st), S)
<1>1. CASE st.anc # <<>>
  BY <1>1, PlanCarries DEF LastResort, ChainsOK
<1>2. CASE st.anc = <<>>
  BY <1>2, MapFillOK DEF LastResort
<1> QED
  BY <1>1, <1>2

\* At the anchor: a sibling that is not on record, an ancestor with siblings
\* left, or the end.
LEMMA AtAnchorOK ==
  ASSUME NEW s, NEW st, ChainOK(st, PortsKnown) PROVE ChainsOK(AtAnchor(s, st), PortsKnown)
<1> DEFINE mine == Unmapped(st.anchor)
           open == {i \in 1..Len(st.anc) : Unmapped(st.anc[i]) # {}}
<1>1. CASE mine # {}
  <2>1. AtAnchor(s, st) = {Hop(s, v, [st EXCEPT !.visiting = v, !.back = 0]) : v \in Smallest(mine)}
    BY <1>1 DEF AtAnchor
  <2>2. ASSUME NEW v \in Smallest(mine) PROVE ChainOK([st EXCEPT !.visiting = v, !.back = 0], PortsKnown)
    <3>1. v \notin PortsKnown
      BY <2>2 DEF Smallest, Unmapped, PortsKnown
    <3> QED
      BY <3>1, VisitOK, NoPortIsZero
  <2>3. ASSUME NEW p \in AtAnchor(s, st) PROVE ChainOK(p.chain, PortsKnown)
    <3>1. PICK v \in Smallest(mine) : p = Hop(s, v, [st EXCEPT !.visiting = v, !.back = 0])
      BY <2>1, <2>3, Zenon
    <3>2. p.chain = [st EXCEPT !.visiting = v, !.back = 0]
      BY <3>1, PlanCarries
    <3> QED
      BY <3>2, <2>2
  <2> QED
    BY <2>3 DEF ChainsOK
<1>2. CASE mine = {} /\ open # {}
  <2>1. AtAnchor(s, st) =
          UNION {Heads(s, st.anc[i], UpTo(st, i), {Plan(0, "backtrack_unreachable", UpTo(st, i))}) :
                   i \in {i \in open : \A j \in open : j <= i}}
    BY <1>2 DEF AtAnchor
  <2>2. ASSUME NEW i \in open
        PROVE  ChainsOK(Heads(s, st.anc[i], UpTo(st, i), {Plan(0, "backtrack_unreachable", UpTo(st, i))}), PortsKnown)
    <3>1. ChainOK(UpTo(st, i), PortsKnown)
      BY UpToOK, NoPortIsZero
    <3>2. ChainsOK({Plan(0, "backtrack_unreachable", UpTo(st, i))}, PortsKnown)
      BY <3>1, PlanCarries DEF ChainsOK
    <3> QED
      BY <3>1, <3>2, HeadsOK
  <2>3. ASSUME NEW p \in AtAnchor(s, st) PROVE ChainOK(p.chain, PortsKnown)
    <3>1. PICK i \in open : p \in Heads(s, st.anc[i], UpTo(st, i), {Plan(0, "backtrack_unreachable", UpTo(st, i))})
      BY <2>1, <2>3, Zenon
    <3> QED
      BY <3>1, <2>2 DEF ChainsOK
  <2> QED
    BY <2>3 DEF ChainsOK
<1>3. CASE mine = {} /\ open = {}
  BY <1>3, NoChainOK, LastResortOK DEF AtAnchor
<1> QED
  BY <1>1, <1>2, <1>3

\* Away from the anchor: to it, or to the last of its ancestors.
LEMMA AnchoredOK ==
  ASSUME NEW s, NEW st, ChainOK(st, PortsKnown) PROVE ChainsOK(Anchored(s, st), PortsKnown)
<1>1. CASE s = st.anchor
  BY <1>1, AtAnchorOK DEF Anchored
<1>2. CASE s # st.anchor /\ st.anc = <<>>
  BY <1>2, LastResortOK, HeadsOK DEF Anchored
<1>3. CASE s # st.anchor /\ st.anc # <<>>
  <2> DEFINE n == Len(st.anc)
  <2>1. n \in 1..Len(st.anc)
    BY <1>3 DEF ChainOK
  <2>2. ChainOK(UpTo(st, n), PortsKnown)
    BY <2>1, UpToOK, NoPortIsZero
  <2>3. ChainsOK(Heads(s, st.anc[n], UpTo(st, n), LastResort(s, st)), PortsKnown)
    BY <2>2, HeadsOK, LastResortOK
  <2>4. Anchored(s, st) = Heads(s, st.anchor, st, Heads(s, st.anc[n], UpTo(st, n), LastResort(s, st)))
    BY <1>3 DEF Anchored
  <2> QED
    BY <2>3, <2>4, HeadsOK
<1> QED
  BY <1>1, <1>2, <1>3

\* The first anchor, from a sector on record.
LEMMA SeekAnchorOK ==
  ASSUME NEW s \in known PROVE ChainsOK(SeekAnchor(s), PortsKnown)
<1> DEFINE seeds == {p \in known \cap PortSectors : Unmapped(p) # {} /\ Reaches(s, p)}
           near == {p \in seeds : \A q \in seeds : HopCount(s, p) <= HopCount(s, q)}
<1>1. CASE s \in PortSectors
  <2>1. s \in PortsKnown
    BY <1>1 DEF PortsKnown
  <2>2. ChainOK([NoChain EXCEPT !.anchor = s], PortsKnown)
    BY <2>1, FirstAnchorOK, NoPortIsZero
  <2> QED
    BY <1>1, <2>2, AtAnchorOK DEF SeekAnchor
<1>2. CASE s \notin PortSectors /\ near = {}
  <2>1. SeekAnchor(s) = LastResort(s, NoChain)
    BY <1>2 DEF SeekAnchor
  <2> QED
    BY <2>1, NoChainOK, LastResortOK
<1>3. CASE s \notin PortSectors /\ near # {}
  <2>1. SeekAnchor(s) = UNION {Heads(s, p, [NoChain EXCEPT !.anchor = p], LastResort(s, NoChain)) : p \in Smallest(near)}
    BY <1>3 DEF SeekAnchor
  <2>2. ASSUME NEW p \in Smallest(near)
        PROVE  ChainsOK(Heads(s, p, [NoChain EXCEPT !.anchor = p], LastResort(s, NoChain)), PortsKnown)
    <3>1. p \in PortsKnown
      BY <2>2 DEF Smallest, PortsKnown
    <3>2. ChainOK([NoChain EXCEPT !.anchor = p], PortsKnown)
      BY <3>1, FirstAnchorOK, NoPortIsZero
    <3> QED
      BY <3>2, NoChainOK, LastResortOK, HeadsOK
  <2> QED
    BY <2>1, <2>2 DEF ChainsOK
<1> QED
  BY <1>1, <1>2, <1>3

\* A dealer's way changes nothing of the chain.
LEMMA FindStarDockOK ==
  ASSUME NEW s, ChainOK(chain, PortsKnown) PROVE ChainsOK(FindStarDock(s), PortsKnown)
BY PlanCarries DEF FindStarDock, ChainsOK

\* The chain hunt from a sector on record: whatever it decides, the chain it
\* goes on with is one.
LEMMA ChainHuntOK ==
  ASSUME NEW s \in known, ChainOK(chain, PortsKnown) PROVE ChainsOK(ChainHunt(s), PortsKnown)
<1> DEFINE st == IF chain.back = s THEN [chain EXCEPT !.visiting = 0, !.back = 0] ELSE chain
           home == [st EXCEPT !.visiting = 0, !.back = st.anchor]
           deeper == [anc |-> Append(st.anc, st.anchor), anchor |-> s, visiting |-> 0, back |-> 0]
<1>1. ChainOK(st, PortsKnown)
  BY VisitOK, NoPortIsZero
<1> HIDE DEF st
<1>2. ChainOK(home, PortsKnown)
  BY <1>1, VisitOK, NoPortIsZero
<1>3. ChainsOK(Heads(s, st.anchor, home, {Plan(0, "return_unreachable", home)}), PortsKnown)
  <2>1. ChainsOK({Plan(0, "return_unreachable", home)}, PortsKnown)
    BY <1>2, PlanCarries DEF ChainsOK
  <2> HIDE DEF home
  <2> QED
    BY <1>2, <2>1, HeadsOK
<1>4. ChainsOK(Heads(s, st.back, st, {Plan(0, "return_unreachable", st)}), PortsKnown)
  <2>1. ChainsOK({Plan(0, "return_unreachable", st)}, PortsKnown)
    BY <1>1, PlanCarries DEF ChainsOK
  <2> QED
    BY <1>1, <2>1, HeadsOK
<1>5. st.anchor # 0 /\ st.visiting = s /\ Deeper(s, st) => ChainsOK(Anchored(s, deeper), PortsKnown)
  <2> SUFFICES ASSUME st.anchor # 0, st.visiting = s, Deeper(s, st) PROVE ChainsOK(Anchored(s, deeper), PortsKnown)
    OBVIOUS
  <2>1. s \in PortsKnown /\ Len(st.anc) + 1 < Depth
    BY DEF Deeper, PortsKnown
  <2>2. ChainOK(deeper, PortsKnown)
    BY <1>1, <2>1, DeeperOK, NoPortIsZero
  <2> HIDE DEF deeper
  <2> QED
    BY <2>2, AnchoredOK
<1>6. ChainsOK(SeekAnchor(s), PortsKnown) /\ ChainsOK(Anchored(s, st), PortsKnown)
  BY <1>1, SeekAnchorOK, AnchoredOK
<1>7. ChainHunt(s) =
        IF st.back # 0 THEN Heads(s, st.back, st, {Plan(0, "return_unreachable", st)})
        ELSE IF st.anchor # 0 /\ st.visiting = s /\ s # st.anchor
        THEN IF Deeper(s, st) THEN Anchored(s, deeper)
             ELSE Heads(s, st.anchor, home, {Plan(0, "return_unreachable", home)})
        ELSE IF st.anchor = 0 THEN SeekAnchor(s)
        ELSE Anchored(s, st)
  BY DEF ChainHunt, st
<1> HIDE DEF home, deeper
<1> QED
  BY <1>3, <1>4, <1>5, <1>6, <1>7

\* Whatever is planned from a sector on record.
LEMMA PlansOK ==
  ASSUME place \in known, ChainOK(chain, PortsKnown) PROVE ChainsOK(Plans, PortsKnown)
BY FindStarDockOK, ChainHuntOK, MapFillOK DEF Plans

\* A run that plans stands in a sector it has recorded, and its chain is one.
ChainInv ==
  /\ sail = "idle" => chain = NoChain
  /\ sail = "plan" => place \in known
  /\ ChainOK(chain, PortsKnown)

\* Steps that leave the chain alone, lose nothing on record and do not go to
\* the planner.
LEMMA ChainRests ==
  ASSUME ChainInv, UNCHANGED chain, known \subseteq known', sail' \notin {"idle"},
         sail' = "plan" => place' \in known'
  PROVE  ChainInv'
<1>1. PortsKnown \subseteq PortsKnown'
  BY DEF PortsKnown
<1>2. ChainOK(chain, PortsKnown)
  BY DEF ChainInv
<1>3. ChainOK(chain, PortsKnown')
  BY <1>1, <1>2, MorePortsOK
<1> QED
  BY <1>3 DEF ChainInv, ChainOK

\* Every step of a run keeps the chain one.
LEMMA ChainStep == ChainInv /\ [ExploreNext]_exploreVars => ChainInv'
<1> SUFFICES ASSUME ChainInv, [ExploreNext]_exploreVars PROVE ChainInv'
  OBVIOUS
<1> USE DEF exploreOrderVars, exploreRunVars, galaxyVars
<1>1. CASE \E task \in Intents, n \in Turns : ExploreStarts(task, n)
  <2>1. sail = "idle" /\ sail' = "look" /\ chain' = chain
    BY <1>1 DEF ExploreStarts
  <2>2. chain' = NoChain
    BY <2>1 DEF ChainInv
  <2>3. ChainOK(chain', PortsKnown')
    BY <2>2, NoChainOK
  <2> QED
    BY <2>1, <2>3 DEF ChainInv, ChainOK
<1>2. CASE StopSeen \/ RunRaises \/ SettleFails \/ Declares \/ GoalMet \/ BudgetSpent
  <2>1. UNCHANGED <<chain, known>> /\ sail' = "over"
    BY <1>2 DEF StopSeen, RunRaises, SettleFails, Declares, GoalMet, BudgetSpent, Finishes
  <2> QED
    BY <2>1, ChainRests
<1>3. CASE AnswersConfirm
  <2>1. UNCHANGED <<chain, known>> /\ sail' \in {"look", "over"}
    BY <1>3 DEF AnswersConfirm
  <2> QED
    BY <2>1, ChainRests
<1>4. CASE Fights
  <2>1. UNCHANGED <<chain, known>> /\ sail' \in {"look", "over"}
    BY <1>4 DEF Fights, Finishes
  <2> QED
    BY <2>1, ChainRests
<1>5. CASE WaitsForLogin
  <2>1. UNCHANGED <<chain, known>> /\ sail' = "look"
    BY <1>5 DEF WaitsForLogin, Undrivable
  <2> QED
    BY <2>1, ChainRests
<1>6. CASE Records
  <2>1. UNCHANGED chain /\ known \subseteq known' /\ sail' \in {"plan", "over"} /\ (sail' = "plan" => place' \in known')
    BY <1>6 DEF Records, Finishes
  <2> QED
    BY <2>1, ChainRests
<1>7. CASE DocksPort
  <2>1. sail = "plan" /\ UNCHANGED <<chain, known, place>> /\ sail' \in {"plan", "over"}
    BY <1>7 DEF DocksPort
  <2> QED
    BY <2>1, ChainRests DEF ChainInv
<1>8. CASE DecidesPosture
  <2>1. sail = "plan" /\ UNCHANGED <<chain, known, place>> /\ sail' \in {"plan", "over"}
    BY <1>8 DEF DecidesPosture, Planning
  <2> QED
    BY <2>1, ChainRests DEF ChainInv
<1>9. ASSUME sail = "plan", NEW p \in Plans, chain' = p.chain \/ chain' = chain, sail' \in {"look", "over"}, known' = known
      PROVE  ChainInv'
  <2>1. PortsKnown' = PortsKnown
    BY <1>9 DEF PortsKnown
  <2>2. ChainOK(chain', PortsKnown)
    BY <1>9, PlansOK DEF ChainInv, ChainsOK
  <2> QED
    BY <1>9, <2>1, <2>2 DEF ChainInv, ChainOK
<1>10. CASE Lands
  <2>1. PICK p \in Plans : chain' = p.chain \/ chain' = chain
    BY <1>10 DEF Lands
  <2>2. sail = "plan" /\ sail' \in {"look", "over"} /\ known' = known
    BY <1>10 DEF Lands, Planning
  <2> QED
    BY <2>1, <2>2, <1>9
<1>11. CASE Departs
  <2>1. PICK p \in Plans : chain' = p.chain
    BY <1>11 DEF Departs
  <2>2. sail = "plan" /\ sail' = "look" /\ known' = known
    BY <1>11 DEF Departs, Planning
  <2> QED
    BY <2>1, <2>2, <1>9
<1>12. CASE WarpEnds
  <2>1. UNCHANGED <<chain, known, place, sail>>
    BY <1>12 DEF WarpEnds
  <2> QED
    BY <2>1 DEF ChainInv, PortsKnown, ChainOK
<1>13. CASE LoginBursts
  <2>1. UNCHANGED <<chain, known, place, sail>>
    BY <1>13 DEF LoginBursts
  <2> QED
    BY <2>1 DEF ChainInv, PortsKnown, ChainOK
<1>14. CASE UNCHANGED exploreVars
  <2>1. UNCHANGED <<chain, known, place, sail>>
    BY <1>14 DEF exploreVars
  <2> QED
    BY <2>1 DEF ChainInv, PortsKnown, ChainOK
<1> QED
  BY <1>1, <1>2, <1>3, <1>4, <1>5, <1>6, <1>7, <1>8, <1>10, <1>11, <1>12, <1>13, <1>14 DEF ExploreNext, ExploreStep

\* As many anchors as the two fields of the chain have, and each once.
LEMMA AnchorsCounted ==
  ASSUME NEW S, NEW st, ChainOK(st, S), 0 \notin S
  PROVE  LET anchors == st.anc \o (IF st.anchor = 0 THEN <<>> ELSE <<st.anchor>>)
         IN /\ Len(anchors) <= Depth
            /\ ToSet(anchors) \subseteq S
            /\ Cardinality(ToSet(anchors)) = Len(anchors)
<1> DEFINE anchors == st.anc \o (IF st.anchor = 0 THEN <<>> ELSE <<st.anchor>>)
<1>a. Depth \in Nat /\ st.anc \in Seq(S) /\ Len(st.anc) \in Nat
  BY ExploreAssumption DEF ChainOK
<1>1. /\ anchors \in Seq(S) /\ Len(anchors) <= Depth
      /\ \A i, j \in 1..Len(anchors) : i # j => anchors[i] # anchors[j]
  <2>1. CASE st.anchor = 0
    <3>1. anchors = st.anc
      BY <1>a, <2>1
    <3> HIDE DEF anchors
    <3> QED
      BY <1>a, <2>1, <3>1 DEF ChainOK
  <2>2. CASE st.anchor # 0
    <3>1. st.anchor \in S
      BY <2>2 DEF ChainOK
    <3>2. anchors = st.anc \o <<st.anchor>>
      BY <2>2
    <3>3. /\ anchors \in Seq(S) /\ Len(anchors) = Len(st.anc) + 1
          /\ \A i \in 1..Len(anchors) : anchors[i] = IF i <= Len(st.anc) THEN st.anc[i] ELSE st.anchor
      <4>1. <<st.anchor>> \in Seq(S) /\ Len(<<st.anchor>>) = 1 /\ <<st.anchor>>[1] = st.anchor
        BY <3>1
      <4> DEFINE one == <<st.anchor>>
      <4> HIDE DEF one
      <4>2. /\ st.anc \o one \in Seq(S) /\ Len(st.anc \o one) = Len(st.anc) + 1
            /\ \A i \in 1..Len(st.anc \o one) :
                  (st.anc \o one)[i] = IF i <= Len(st.anc) THEN st.anc[i] ELSE one[i - Len(st.anc)]
        BY <1>a, <4>1, ConcatProperties DEF one
      <4>3. \A i \in 1..(Len(st.anc) + 1) : i <= Len(st.anc) \/ i - Len(st.anc) = 1
        BY <1>a
      <4> QED
        BY <4>1, <4>2, <4>3, <3>2 DEF one
    <3> HIDE DEF anchors
    <3>4. Len(st.anc) + 1 <= Depth
      BY <2>2 DEF ChainOK
    <3>5. /\ \A i, j \in 1..Len(st.anc) : i # j => st.anc[i] # st.anc[j]
          /\ \A i \in 1..Len(st.anc) : st.anc[i] # st.anchor
      BY DEF ChainOK
    <3> QED
      BY <1>a, <3>3, <3>4, <3>5
  <2> QED
    BY <2>1, <2>2
<1> HIDE DEF anchors
<1>2. Len(anchors) \in Nat /\ DOMAIN anchors = 1..Len(anchors)
  BY <1>1
<1>3. ToSet(anchors) = {anchors[i] : i \in 1..Len(anchors)}
  BY <1>2 DEF ToSet
<1>4. anchors \in Bijection(1..Len(anchors), ToSet(anchors))
  <2>1. anchors \in [1..Len(anchors) -> ToSet(anchors)]
    BY <1>1, <1>2, <1>3
  <2> QED
    BY <1>1, <1>3, <2>1 DEF Bijection, Injection, Surjection, IsInjective
<1>5. IsFiniteSet(1..Len(anchors)) /\ Cardinality(1..Len(anchors)) = Len(anchors)
  <2>1. 1 \in Int /\ Len(anchors) \in Int
    BY <1>2
  <2>2. /\ IsFiniteSet(1..Len(anchors))
        /\ Cardinality(1..Len(anchors)) = IF 1 > Len(anchors) THEN 0 ELSE Len(anchors) - 1 + 1
    BY <2>1, FS_Interval
  <2> QED
    BY <1>2, <2>2
<1>6. Cardinality(ToSet(anchors)) = Len(anchors)
  BY <1>4, <1>5, FS_Bijection DEF ExistsBijection
<1>7. ToSet(anchors) \subseteq S
  BY <1>1, <1>2, <1>3
<1> QED
  BY <1>1, <1>6, <1>7 DEF anchors

\* An explore run makes no more hops and docks than the turns of its order, and
\* costs no more than that many warps of its ship, whatever confirms, declined
\* hops and fights come between, and the anchors of a chain hunt are
\* known ports, each once and no deeper than asked (ExploreSound): in every
\* galaxy, with any ports and dealers, for every budget and depth.
THEOREM ExploreKeepsItsBounds == ExploreSpec => []ExploreSound
<1>1. ExploreInit => TurnsInv /\ ChainInv
  <2> SUFFICES ASSUME ExploreInit PROVE TurnsInv /\ ChainInv
    OBVIOUS
  <2>1. chain = NoChain /\ sail = "idle" /\ spent = 0 /\ left = 0 /\ asked = 0 /\ pending = 0
    BY DEF ExploreInit
  <2>2. ChainInv
    BY <2>1, NoChainOK DEF ChainInv
  <2>3. TurnsInv
    BY <2>1, WorthAdds DEF TurnsInv, TurnTypes
  <2> QED
    BY <2>2, <2>3
<1>2. TurnsInv /\ ChainInv /\ [ExploreNext]_exploreVars => (TurnsInv /\ ChainInv)'
  BY TurnsStep, ChainStep
<1>3. TurnsInv /\ ChainInv => ExploreSound
  <2> SUFFICES ASSUME TurnsInv, ChainInv PROVE ExploreSound
    OBVIOUS
  <2>1. ChainOK(chain, PortsKnown)
    BY DEF ChainInv
  <2>2. ChainWellFormed
    BY <2>1, AnchorsCounted, NoPortIsZero DEF ChainWellFormed, PortsKnown, ChainOK
  <2> QED
    BY <2>2 DEF ExploreSound, TurnsWithinBudget, TurnsInv, Worth
<1> QED
  BY <1>1, <1>2, <1>3, PTL DEF ExploreSpec

-----------------------------------------------------------------------------
(* Where an explore run may be, and where it may plan to go *)

Somewhere == Galaxy \cup {0}
StateFits(st) == DOMAIN st = {"anc", "anchor", "visiting", "back"} /\ st.visiting \in Somewhere
PlanFits(p) == p.next \in Somewhere /\ StateFits(p.chain)
OnChart == warps \in [Galaxy -> SUBSET Galaxy] /\ known \subseteq Galaxy

\* A hop to a sector of the galaxy, and no hop at all.
LEMMA HopFits ==
  /\ \A s, v, st : v \in Galaxy /\ StateFits(st) => PlanFits(Hop(s, v, st))
  /\ \A why, st : StateFits(st) => PlanFits(Plan(0, why, st))
BY DEF PlanFits, Hop, Plan, Somewhere

\* Whatever is on record or beyond it lies in the galaxy.
LEMMA WaysInGalaxy ==
  ASSUME OnChart, NEW s, NEW g
  PROVE  Toward(s, g) \subseteq Galaxy /\ TowardNode(s, g) \subseteq Galaxy /\ Unmapped(s) \subseteq Galaxy
         /\ EdgeHops(s) \subseteq Galaxy /\ RecoveryHops(s) \subseteq Galaxy
<1>1. \A t, h : Toward(t, h) \subseteq Galaxy
  BY DEF Toward, OnChart
<1>2. \A t \in known : warps[t] \subseteq Galaxy
  BY DEF OnChart
<1>3. TowardNode(s, g) \subseteq Galaxy
  BY <1>1, <1>2 DEF TowardNode
<1>4. Unmapped(s) \subseteq Galaxy
  BY <1>2 DEF Unmapped
<1>5. \A e \in Frontier(s) : e[2] \in Galaxy
  BY DEF Frontier
<1>6. EdgeHops(s) \subseteq Galaxy
  BY <1>1, <1>5 DEF EdgeHops
<1>7. UNION {Toward(s, d) : d \in NearestDocks(s)} \subseteq Galaxy
  BY <1>1
<1>8. RecoveryHops(s) \subseteq Galaxy
  <2> DEFINE toDock == UNION {Toward(s, d) : d \in NearestDocks(s)}
  <2>1. RecoveryHops(s) = IF toDock # {} THEN toDock ELSE Toward(s, Densest(s))
    BY DEF RecoveryHops
  <2>2. toDock \subseteq Galaxy /\ Toward(s, Densest(s)) \subseteq Galaxy
    BY <1>1, <1>7
  <2> HIDE DEF toDock
  <2> QED BY <2>1, <2>2
<1> QED BY <1>1, <1>3, <1>4, <1>6, <1>8

\* Every way a hunt goes on fits the galaxy when the ways it falls back on do.
LEMMA HeadsFit ==
  ASSUME OnChart, NEW s, NEW g, NEW st, StateFits(st), NEW gone, \A p \in gone : PlanFits(p)
  PROVE  \A p \in Heads(s, g, st, gone) : PlanFits(p)
BY HopFits, WaysInGalaxy DEF Heads

\* Filling the map leads along known warps, or off their edge.
LEMMA MapFillFits ==
  ASSUME OnChart, NEW s, NEW st, StateFits(st) PROVE \A p \in MapFill(s, st) : PlanFits(p)
BY HopFits, WaysInGalaxy DEF MapFill

\* So does the last resort.
LEMMA LastResortFits ==
  ASSUME OnChart, NEW s, NEW st, StateFits(st) PROVE \A p \in LastResort(s, st) : PlanFits(p)
<1>1. PlanFits(Plan(0, "ancestor_open", st))
  BY HopFits
<1> QED BY <1>1, MapFillFits DEF LastResort

\* The states a hunt makes from one that fits.
LEMMA StatesFit ==
  /\ StateFits(NoChain)
  /\ \A g : StateFits([NoChain EXCEPT !.anchor = g])
  /\ \A st, i : StateFits(UpTo(st, i))
  /\ \A st, v, b : StateFits(st) /\ v \in Somewhere => StateFits([st EXCEPT !.visiting = v, !.back = b])
<1>1. StateFits(NoChain) /\ \A g : StateFits([NoChain EXCEPT !.anchor = g])
  BY DEF StateFits, NoChain, Somewhere
<1>2. \A st, i : StateFits(UpTo(st, i))
  BY DEF StateFits, UpTo, Somewhere
<1>3. \A st, v, b : StateFits(st) /\ v \in Somewhere => StateFits([st EXCEPT !.visiting = v, !.back = b])
  BY DEF StateFits
<1> QED BY <1>1, <1>2, <1>3

\* The siblings of an anchor are in the galaxy.
LEMMA AtAnchorFits ==
  ASSUME OnChart, NEW s, NEW st, StateFits(st) PROVE \A p \in AtAnchor(s, st) : PlanFits(p)
<1> DEFINE mine == Unmapped(st.anchor)
           open == {i \in 1..Len(st.anc) : Unmapped(st.anc[i]) # {}}
<1>1. CASE mine # {}
  <2>1. AtAnchor(s, st) = {Hop(s, v, [st EXCEPT !.visiting = v, !.back = 0]) : v \in Smallest(mine)}
    BY <1>1 DEF AtAnchor
  <2>2. Smallest(mine) \subseteq Galaxy
    BY WaysInGalaxy DEF Smallest
  <2>3. \A v \in Smallest(mine) : StateFits([st EXCEPT !.visiting = v, !.back = 0])
    BY <2>2, StatesFit DEF Somewhere
  <2>4. \A v \in Smallest(mine) : PlanFits(Hop(s, v, [st EXCEPT !.visiting = v, !.back = 0]))
    <3> SUFFICES ASSUME NEW v \in Smallest(mine) PROVE PlanFits(Hop(s, v, [st EXCEPT !.visiting = v, !.back = 0]))
      OBVIOUS
    <3>1. v \in Galaxy /\ StateFits([st EXCEPT !.visiting = v, !.back = 0])
      BY <2>2, <2>3
    <3> QED BY ONLY <3>1, HopFits
  <2> HIDE DEF mine
  <2> QED BY <2>1, <2>4
<1>2. CASE mine = {} /\ open # {}
  <2>1. AtAnchor(s, st) = UNION {Heads(s, st.anc[i], UpTo(st, i), {Plan(0, "backtrack_unreachable", UpTo(st, i))}) :
                                   i \in {i \in open : \A j \in open : j <= i}}
    BY <1>2 DEF AtAnchor
  <2>2. ASSUME NEW i PROVE \A p \in Heads(s, st.anc[i], UpTo(st, i), {Plan(0, "backtrack_unreachable", UpTo(st, i))}) : PlanFits(p)
    <3>1. PlanFits(Plan(0, "backtrack_unreachable", UpTo(st, i))) /\ StateFits(UpTo(st, i))
      BY HopFits, StatesFit
    <3> QED BY <3>1, HeadsFit
  <2> HIDE DEF open
  <2> QED BY <2>1, <2>2
<1>3. CASE mine = {} /\ open = {}
  <2>1. AtAnchor(s, st) = LastResort(s, NoChain)
    BY <1>3 DEF AtAnchor
  <2> QED BY <2>1, LastResortFits, StatesFit
<1> QED BY <1>1, <1>2, <1>3

\* So is the way to the anchor, and to its ancestors.
LEMMA AnchoredFits ==
  ASSUME OnChart, NEW s, NEW st, StateFits(st) PROVE \A p \in Anchored(s, st) : PlanFits(p)
<1>1. \A p \in LastResort(s, st) : PlanFits(p)
  BY LastResortFits
<1>2. \A p \in Heads(s, st.anc[Len(st.anc)], UpTo(st, Len(st.anc)), LastResort(s, st)) : PlanFits(p)
  BY <1>1, StatesFit, HeadsFit
<1>3. \A p \in Heads(s, st.anchor, st, IF st.anc # <<>> THEN Heads(s, st.anc[Len(st.anc)], UpTo(st, Len(st.anc)), LastResort(s, st))
                                       ELSE LastResort(s, st)) : PlanFits(p)
  BY <1>1, <1>2, HeadsFit
<1> QED BY <1>3, AtAnchorFits DEF Anchored

\* A hunt that looks for its first anchor.
LEMMA SeekAnchorFits ==
  ASSUME OnChart, NEW s PROVE \A p \in SeekAnchor(s) : PlanFits(p)
<1> DEFINE seeds == {p \in known \cap PortSectors : Unmapped(p) # {} /\ Reaches(s, p)}
           near == {p \in seeds : \A q \in seeds : HopCount(s, p) <= HopCount(s, q)}
<1>1. \A p \in AtAnchor(s, [NoChain EXCEPT !.anchor = s]) : PlanFits(p)
  BY AtAnchorFits, StatesFit
<1>2. \A p \in LastResort(s, NoChain) : PlanFits(p)
  BY LastResortFits, StatesFit
<1>3. ASSUME NEW n PROVE \A p \in Heads(s, n, [NoChain EXCEPT !.anchor = n], LastResort(s, NoChain)) : PlanFits(p)
  BY <1>2, HeadsFit, StatesFit
<1>4. SeekAnchor(s) = IF s \in PortSectors THEN AtAnchor(s, [NoChain EXCEPT !.anchor = s])
                      ELSE IF near = {} THEN LastResort(s, NoChain)
                      ELSE UNION {Heads(s, p, [NoChain EXCEPT !.anchor = p], LastResort(s, NoChain)) : p \in Smallest(near)}
  BY DEF SeekAnchor
<1> HIDE DEF near
<1> QED BY <1>1, <1>2, <1>3, <1>4

\* The way to a StarDock.
LEMMA FindStarDockFits ==
  ASSUME OnChart, NEW s, StateFits(chain) PROVE \A p \in FindStarDock(s) : PlanFits(p)
<1>1. \A d : Toward(s, d) \subseteq Galaxy
  BY WaysInGalaxy
<1>2. UNION {Toward(s, d) : d \in NearestDocks(s)} \subseteq Galaxy
  BY <1>1
<1>3. EdgeHops(s) \subseteq Galaxy /\ RecoveryHops(s) \subseteq Galaxy
  BY WaysInGalaxy
<1>4. PlanFits(Plan(0, "arrived", chain)) /\ PlanFits(Plan(0, "exhausted", chain))
  BY HopFits
<1>5. \A v \in Galaxy : PlanFits(Hop(s, v, chain))
  BY HopFits
<1> QED BY <1>2, <1>3, <1>4, <1>5 DEF FindStarDock

\* A chain hunt, wherever it stands.
LEMMA ChainHuntFits ==
  ASSUME OnChart, NEW s, StateFits(chain) PROVE \A p \in ChainHunt(s) : PlanFits(p)
<1> DEFINE st == IF chain.back = s THEN [chain EXCEPT !.visiting = 0, !.back = 0] ELSE chain
           home == [st EXCEPT !.visiting = 0, !.back = st.anchor]
           deeper == [anc |-> Append(st.anc, st.anchor), anchor |-> s, visiting |-> 0, back |-> 0]
<1>1. StateFits(st)
  BY StatesFit DEF Somewhere
<1>2. StateFits(home)
  <2> HIDE DEF st
  <2> QED BY <1>1, StatesFit DEF Somewhere
<1>3. StateFits(deeper)
  BY DEF StateFits, Somewhere
<1>4. ChainHunt(s) = IF st.back # 0 THEN Heads(s, st.back, st, {Plan(0, "return_unreachable", st)})
                     ELSE IF st.anchor # 0 /\ st.visiting = s /\ s # st.anchor
                     THEN IF Deeper(s, st)
                          THEN Anchored(s, deeper)
                          ELSE Heads(s, st.anchor, home, {Plan(0, "return_unreachable", home)})
                     ELSE IF st.anchor = 0 THEN SeekAnchor(s)
                     ELSE Anchored(s, st)
  BY DEF ChainHunt
<1> HIDE DEF st, home, deeper
<1>5. PlanFits(Plan(0, "return_unreachable", st)) /\ PlanFits(Plan(0, "return_unreachable", home))
  BY <1>1, <1>2, HopFits
<1>6. /\ \A p \in Heads(s, st.back, st, {Plan(0, "return_unreachable", st)}) : PlanFits(p)
      /\ \A p \in Heads(s, st.anchor, home, {Plan(0, "return_unreachable", home)}) : PlanFits(p)
  BY <1>1, <1>2, <1>5, HeadsFit
<1>7. (\A p \in Anchored(s, deeper) : PlanFits(p)) /\ (\A p \in Anchored(s, st) : PlanFits(p)) /\ (\A p \in SeekAnchor(s) : PlanFits(p))
  BY <1>1, <1>3, AnchoredFits, SeekAnchorFits
<1> QED BY <1>4, <1>6, <1>7

\* Whatever the planner makes of the map, it sends the ship to a sector of the
\* galaxy or nowhere.
LEMMA PlansFit ==
  ASSUME OnChart, StateFits(chain) PROVE \A p \in Plans : PlanFits(p)
BY FindStarDockFits, ChainHuntFits, MapFillFits DEF Plans

Views == {"main", "display", "confirm", "avoid", "fighters", "other"}
\* What is on record, where the ship is and where it is sent, all in the galaxy.
SeaInv ==
  /\ OnChart /\ surveyed \subseteq PortSectors /\ denied \subseteq Galaxy
  /\ view \in Views /\ posture \in {"open", "seeking", "done"}
  /\ place \in Somewhere /\ (sail # "idle" => place \in Galaxy)
  /\ pending \in Somewhere /\ left <= asked /\ fights.steps \in 0..FightLimit
  /\ StateFits(chain)

\* Steps that leave the ship, the map and the hunt alone.
LEMMA SeaRests ==
  ASSUME SeaInv, UNCHANGED <<warps, known, denied, place, pending, asked, left, fights, chain>>,
         surveyed' \subseteq PortSectors, view' \in Views, posture' \in {"open", "seeking", "done"}, sail = "idle" => sail' = "idle"
  PROVE  SeaInv'
BY DEF SeaInv, OnChart, StateFits

\* Every step of a run keeps the ship on the map.
LEMMA SeaKept ==
  ASSUME SeaInv, TurnsInv, [ExploreNext]_exploreVars PROVE SeaInv'
<1> USE DEF exploreOrderVars, exploreRunVars, galaxyVars
<1>0. /\ OnChart /\ surveyed \subseteq PortSectors /\ denied \subseteq Galaxy /\ view \in Views
      /\ posture \in {"open", "seeking", "done"} /\ place \in Somewhere /\ pending \in Somewhere
      /\ left <= asked /\ fights.steps \in 0..FightLimit /\ StateFits(chain) /\ left \in Nat /\ asked \in Nat
      /\ (sail # "idle" => place \in Galaxy)
  BY DEF SeaInv, TurnsInv, TurnTypes
<1>a. 0 \notin Galaxy /\ 0 \in Somewhere /\ Galaxy \subseteq Somewhere /\ PortSectors \subseteq Galaxy /\ FightLimit \in Nat /\ 0 \in 0..FightLimit
  BY ExploreAssumption DEF Somewhere
<1>b. \A v \in {"main", "display", "confirm", "avoid", "fighters", "other"} : v \in Views
  BY DEF Views
<1>1. CASE \E task \in Intents, n \in Turns : ExploreStarts(task, n)
  <2>1. PICK task \in Intents, n \in Turns : ExploreStarts(task, n)
    BY <1>1
  <2>2. n \in Nat /\ Recorded \subseteq SUBSET Galaxy
    BY ExploreAssumption
  <2>3. place' \in Galaxy /\ known' \subseteq Galaxy /\ left' = n /\ asked' = n /\ posture' \in {"open", "done"}
        /\ UNCHANGED <<warps, view, surveyed, pending, denied, fights, chain>>
    BY <2>1, <2>2 DEF ExploreStarts
  <2> QED BY <1>0, <1>a, <2>2, <2>3 DEF SeaInv, OnChart, StateFits
<1>2. CASE StopSeen \/ RunRaises \/ SettleFails \/ Declares \/ GoalMet \/ BudgetSpent
  BY <1>0, <1>2, SeaRests DEF StopSeen, RunRaises, SettleFails, Declares, Undrivable, GoalMet, BudgetSpent, Finishes
<1>3. CASE WaitsForLogin
  <2>1. sail = "look" /\ place' \in known \cup {place} /\ view' \in Views
        /\ UNCHANGED <<warps, known, surveyed, denied, pending, left, asked, fights, chain, posture, sail>>
    BY <1>3, <1>b DEF WaitsForLogin, Undrivable
  <2>2. place' \in Galaxy
    BY <1>0, <2>1 DEF OnChart
  <2> QED BY <1>0, <1>a, <2>1, <2>2 DEF SeaInv, OnChart, StateFits
<1>4. CASE AnswersConfirm
  <2>1. sail = "look" /\ pending # 0 /\ pending' = 0 /\ UNCHANGED <<warps, known, surveyed, left, asked, fights, chain, posture>>
    BY <1>4 DEF AnswersConfirm
  <2>2. pending \in Galaxy
    BY <1>0, <2>1 DEF Somewhere
  <2>3. place' \in {place, pending} /\ view' \in Views /\ denied' \subseteq denied \cup {pending}
    BY <1>4, <1>b DEF AnswersConfirm, Stays, Moves
  <2>4. place' \in Galaxy /\ denied' \subseteq Galaxy
    BY <1>0, <2>1, <2>2, <2>3
  <2> QED BY <1>0, <1>a, <2>1, <2>3, <2>4 DEF SeaInv, OnChart, StateFits
<1>5. CASE Fights
  <2>1. CASE \E why : Finishes(why) /\ UNCHANGED galaxyVars
    BY <1>0, <2>1, <1>5, SeaRests DEF Fights, Finishes
  <2>2. CASE ~\E why : Finishes(why) /\ UNCHANGED galaxyVars
    <3>0. ~(Finishes("fight_limit") /\ UNCHANGED galaxyVars) /\ ~(Finishes("policy_stop") /\ UNCHANGED galaxyVars)
      BY <2>2
    <3>1. /\ sail = "look" /\ fights.steps < FightLimit /\ place' \in {place} \cup {s \in known : place \in warps[s]}
          /\ view' \in {"fighters", "main", "other"} /\ (\E same \in BOOLEAN : fights' = Fought(same))
          /\ UNCHANGED <<warps, known, surveyed, left, asked, pending, denied, chain, posture>>
      BY <1>5, <3>0 DEF Fights
    <3>a. fights'.steps = fights.steps + 1
      BY <3>1 DEF Fought
    <3>2. place' \in Galaxy /\ view' \in Views
      BY <1>0, <1>b, <3>1 DEF OnChart
    <3>3. fights'.steps \in 0..FightLimit
      BY <1>0, <1>a, <3>1, <3>a
    <3> QED BY <1>0, <1>a, <3>1, <3>2, <3>3 DEF SeaInv, OnChart, StateFits
  <2> QED BY <2>1, <2>2
<1>6. CASE Records
  <2>1. CASE \E why : Finishes(why) /\ UNCHANGED galaxyVars
    BY <1>0, <2>1, <1>6, SeaRests DEF Records, Finishes
  <2>2. CASE ~\E why : Finishes(why) /\ UNCHANGED galaxyVars
    <3>1. /\ sail = "look" /\ known' = known \cup {place} /\ fights'.steps = 0 /\ pending' = 0
          /\ UNCHANGED <<warps, place, view, surveyed, left, asked, denied, chain, posture>>
      BY <1>6, <2>2 DEF Records
    <3>2. known' \subseteq Galaxy /\ place' \in Galaxy
      BY <1>0, <3>1 DEF OnChart
    <3> QED BY <1>0, <1>a, <3>1, <3>2 DEF SeaInv, OnChart, StateFits
  <2> QED BY <2>1, <2>2
<1>7. CASE DocksPort
  <2>1. /\ sail = "plan" /\ place \in PortSectors /\ left > 0 /\ surveyed' \subseteq surveyed \cup {place}
        /\ left' \in {left, left - 1} /\ view' \in {view, "main", "other"}
        /\ UNCHANGED <<warps, known, place, asked, pending, denied, fights, chain, posture>>
    BY <1>7 DEF DocksPort, NeedsDock, DockCharged
  <2>2. left' <= asked /\ view' \in Views /\ surveyed' \subseteq PortSectors
    BY <1>0, <1>b, <2>1
  <2> QED BY <1>0, <2>1, <2>2 DEF SeaInv, OnChart, StateFits
<1>8. CASE DecidesPosture
  BY <1>0, <1>8, SeaRests DEF DecidesPosture, Planning
<1>9. CASE Lands
  <2>1. PICK p \in Plans : (posture' \in {posture, "done"}) /\ chain' \in {chain, p.chain}
    BY <1>9 DEF Lands
  <2>2. sail = "plan" /\ UNCHANGED <<warps, known, surveyed, denied, place, view, pending, left, asked, fights>>
    BY <1>9 DEF Lands, Planning
  <2>3. StateFits(chain')
    BY <1>0, <2>1, PlansFit DEF PlanFits
  <2> QED BY <1>0, <2>1, <2>2, <2>3 DEF SeaInv, OnChart
<1>10. CASE Departs
  <2>1. PICK p \in Plans : /\ p.next # 0 /\ chain' = p.chain /\ pending' = p.next
                           /\ \/ Moves(p.next)
                              \/ Stays /\ view' \in {"confirm", "avoid", "main", "other"}
    BY <1>10 DEF Departs
  <2>2. sail = "plan" /\ left > 0 /\ left' = left - 1 /\ posture' \in {posture, "open"}
        /\ UNCHANGED <<warps, known, surveyed, denied, asked, fights>>
    BY <1>10 DEF Departs, Planning
  <2>3. p.next \in Galaxy /\ StateFits(chain')
    BY <1>0, <2>1, PlansFit DEF PlanFits, Somewhere
  <2>4. place' \in Galaxy /\ view' \in Views
    BY <1>0, <1>b, <2>1, <2>2, <2>3 DEF Moves, Stays
  <2>5. left' <= asked
    BY <1>0, <2>2
  <2> QED BY <1>0, <1>a, <2>1, <2>2, <2>3, <2>4, <2>5 DEF SeaInv, OnChart
<1>11. CASE WarpEnds \/ LoginBursts \/ UNCHANGED exploreVars
  BY <1>0, <1>b, <1>11, SeaRests DEF WarpEnds, LoginBursts, exploreVars
<1> QED BY <1>1, <1>2, <1>3, <1>4, <1>5, <1>6, <1>7, <1>8, <1>9, <1>10, <1>11 DEF ExploreNext, ExploreStep

\* ExploreTypeOK, in every galaxy: the ship and every hop it is sent on are in it.
LEMMA ExploreIsTyped == ExploreSpec => []ExploreTypeOK
<1>1. ExploreInit => TurnsInv /\ ChainInv /\ SeaInv
  <2> SUFFICES ASSUME ExploreInit PROVE TurnsInv /\ ChainInv /\ SeaInv
    OBVIOUS
  <2>1. /\ chain = NoChain /\ sail = "idle" /\ spent = 0 /\ left = 0 /\ asked = 0 /\ pending = 0 /\ place = 0 /\ known = {}
        /\ surveyed = {} /\ denied = {} /\ fights.steps = 0 /\ view = "main" /\ posture = "done" /\ warps \in Galaxies
    BY DEF ExploreInit
  <2>2. ChainInv
    BY <2>1, NoChainOK DEF ChainInv
  <2>3. TurnsInv
    BY <2>1, WorthAdds DEF TurnsInv, TurnTypes
  <2>4. warps \in [Galaxy -> SUBSET Galaxy] /\ 0 \in 0..FightLimit
    BY <2>1, ExploreAssumption
  <2>5. SeaInv
    <3>1. OnChart /\ StateFits(chain)
      BY <2>1, <2>4, StatesFit DEF OnChart
    <3>2. place \in Somewhere /\ pending \in Somewhere /\ view \in Views /\ left <= asked /\ fights.steps \in 0..FightLimit
      BY <2>1, <2>4 DEF Somewhere, Views
    <3> QED BY <2>1, <3>1, <3>2 DEF SeaInv
  <2> QED BY <2>2, <2>3, <2>5
<1>2. TurnsInv /\ ChainInv /\ SeaInv => ExploreTypeOK
  <2> SUFFICES ASSUME TurnsInv, ChainInv, SeaInv PROVE ExploreTypeOK
    OBVIOUS
  <2>1. chain.anchor \in Galaxy \cup {0}
    BY ExploreAssumption DEF ChainInv, ChainOK, PortsKnown
  <2>2. left \in 0..asked
    BY DEF TurnsInv, TurnTypes, SeaInv
  <2> QED BY <2>1, <2>2 DEF TurnsInv, TurnTypes, SeaInv, OnChart, Views, Somewhere, StateFits, ExploreTypeOK
<1> QED BY <1>1, <1>2, TurnsStep, ChainStep, SeaKept, PTL DEF ExploreSpec
================================================================================

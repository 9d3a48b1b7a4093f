---------------------- MODULE DaemonLifecycleProofs ----------------------
(***************************************************************************)
(* For any number of processes and of callers, killed at any moment: the   *)
(* pidfile its maker's in any overlap; the Single-Connection Invariant     *)
(* until a start begins amid another; and, until a start overlaps a start  *)
(* or a stop or twd is launched by hand, a daemon that serves is reached   *)
(* and no leftover stops a start.                                          *)
(***************************************************************************)
EXTENDS DaemonLifecycle, TLAPS

\* What starts have overlapped is never forgotten.
LEMMA PastGrows == ASSUME [Next]_vars PROVE past \subseteq past'
<1>1. ASSUME NEW p \in Procs, Main(p) \/ Stops(p) \/ Killed(p) PROVE past' = past
  BY <1>1 DEF Main, ProbeBinds, ProbeUnlinks, ClaimOpens, ClaimReads, ClaimUnlinks, ClaimWrites, RefusesHeld, ClearsSocket,
     Connects, ConnectFails, Binds, Stops, CleansPidfile, CleansSocket, Killed
<1>2. ASSUME NEW c \in Clients, EnsureChecks(c) \/ EnsureUnlinks(c) \/ EnsureSpawns(c) PROVE past \subseteq past'
  BY <1>2 DEF EnsureChecks, EnsureUnlinks, EnsureSpawns
<1>3. CASE LaunchedByHand
  BY <1>3 DEF LaunchedByHand
<1>4. CASE UNCHANGED vars
  BY <1>4 DEF vars
<1> QED BY <1>1, <1>2, <1>3, <1>4 DEF Next

\* Nothing runs and nothing is on disk at the start.
LEMMA InitSerial == Init => SerialInv
<1> SUFFICES ASSUME Init PROVE SerialInv
  OBVIOUS
<1> USE DEF Init
<1>1. TypeOK
  <2>1. pc \in [Procs -> Running \cup {"unborn", "dead"}]
    OBVIOUS
  <2>2. attempt \in [Procs -> 1..2]
    OBVIOUS
  <2>3. client \in [Clients -> {"idle", "recovering", "spawning"}]
    OBVIOUS
  <2> QED BY <2>1, <2>2, <2>3 DEF TypeOK
<1>2. \A p \in Procs : pc[p] \notin Starting \cup Claimed \cup {"opened", "stale"}
  BY DEF Starting, Claimed
<1>3. StartsAreSerial
  BY <1>2 DEF StartsAreSerial
<1>4. ClaimIsOwned
  BY <1>2 DEF ClaimIsOwned
<1> QED BY <1>1, <1>3, <1>4 DEF SerialInv

\* A process moves from one place of main to another and the rest keep theirs.
LEMMA MoveKeepsType ==
  ASSUME TypeOK, NEW p \in Procs, NEW from, NEW to \in Running \cup {"dead"},
         Goes(p, from, to)
  PROVE  /\ pc' \in [Procs -> Running \cup {"unborn", "dead"}]
         /\ pc[p] = from /\ pc'[p] = to
         /\ \A q \in Procs : q # p => pc'[q] = pc[q]
  BY DEF TypeOK, Goes

\* A start that goes on, or ends, leaves starts serial.
LEMMA StartGoesOn ==
  ASSUME StartsAreSerial, NEW p \in Procs, UNCHANGED client,
         \A q \in Procs : q # p => pc'[q] = pc[q],
         pc[p] \in Starting \/ pc'[p] \notin Starting
  PROVE  StartsAreSerial'
  BY DEF StartsAreSerial

\* While one process starts, those past the claim are past the start.
LEMMA StartsAlone ==
  ASSUME StartsAreSerial, NEW p \in Procs, pc[p] \in Starting
  PROVE  \A q \in Procs : q # p => pc[q] \notin Starting
  BY DEF StartsAreSerial

\* A start that begins amid no other does so alone.
LEMMA BeginsAlone ==
  ASSUME "start" \notin past', Amid \subseteq past'
  PROVE  /\ \A c \in Clients : client[c] = "idle"
         /\ \A p \in Procs : pc[p] \notin Starting
<1>1. ~StartUnderWay
  BY DEF Amid
<1> QED BY <1>1 DEF StartUnderWay

-----------------------------------------------------------------------------

\* Every step of a process or of a caller keeps the strengthened invariant
\* unless it begins a start amid another.
LEMMA NextSerial ==
  ASSUME SerialInv, "start" \notin past', [Next]_vars
  PROVE  SerialInv'
<1> USE LifecycleAssumption DEF SerialInv
<1>1. ASSUME NEW c \in Clients, EnsureChecks(c) PROVE SerialInv'
  <2>1. /\ UNCHANGED <<pc, attempt, pidOwner, pidWritten, sock>>
        /\ past' = past \cup Amid
        /\ client' = [client EXCEPT ![c] = "recovering"]
    BY <1>1 DEF EnsureChecks
  <2>2. TypeOK'
    BY <2>1 DEF TypeOK, Amid
  <2>3. StartsAreSerial'
    BY <1>1, <2>1, BeginsAlone DEF EnsureChecks, StartsAreSerial, TypeOK
  <2> QED BY <2>1, <2>2, <2>3 DEF ClaimIsOwned
<1>2. ASSUME NEW c \in Clients, EnsureUnlinks(c) PROVE SerialInv'
  <2>1. /\ UNCHANGED <<pc, attempt, pidOwner, pidWritten, past>> /\ sock' = Nobody
        /\ client[c] = "recovering"
        /\ client' = [client EXCEPT ![c] = "spawning"]
    BY <1>2 DEF EnsureUnlinks, UnlinkSocket
  <2>2. TypeOK'
    BY <2>1 DEF TypeOK
  <2>3. StartsAreSerial'
    BY <2>1 DEF StartsAreSerial, TypeOK
  <2> QED BY <2>1, <2>2, <2>3 DEF ClaimIsOwned
<1>3. ASSUME NEW c \in Clients, EnsureSpawns(c) PROVE SerialInv'
  <2>1. PICK p \in Procs : Goes(p, "unborn", "probing")
    BY <1>3 DEF EnsureSpawns
  <2>2. /\ client[c] = "spawning" /\ client' = [client EXCEPT ![c] = "idle"]
        /\ UNCHANGED <<attempt, pidOwner, pidWritten, sock, past>>
    BY <1>3 DEF EnsureSpawns
  <2>3. /\ pc' \in [Procs -> Running \cup {"unborn", "dead"}]
        /\ pc'[p] = "probing" /\ \A q \in Procs : q # p => pc'[q] = pc[q]
    BY <2>1, MoveKeepsType DEF Running, Starting
  <2>4. TypeOK'
    BY <2>2, <2>3 DEF TypeOK
  <2>5. StartsAreSerial'
    BY <2>2, <2>3 DEF StartsAreSerial, TypeOK
  <2>6. ClaimIsOwned'
    BY <2>2, <2>3 DEF ClaimIsOwned, Claimed
  <2> QED BY <2>4, <2>5, <2>6
<1>4. CASE LaunchedByHand
  <2>1. PICK p \in Procs : Goes(p, "unborn", "probing")
    BY <1>4 DEF LaunchedByHand
  <2>2. past' = past \cup Amid \cup {"hand"} /\ UNCHANGED <<attempt, pidOwner, pidWritten, sock, client>>
    BY <1>4 DEF LaunchedByHand
  <2>3. /\ pc' \in [Procs -> Running \cup {"unborn", "dead"}]
        /\ pc'[p] = "probing" /\ \A q \in Procs : q # p => pc'[q] = pc[q]
    BY <2>1, MoveKeepsType DEF Running, Starting
  <2>4. TypeOK'
    BY <2>2, <2>3 DEF TypeOK, Amid
  <2>5. StartsAreSerial'
    BY <2>2, <2>3, BeginsAlone DEF StartsAreSerial
  <2>6. ClaimIsOwned'
    BY <2>2, <2>3 DEF ClaimIsOwned, Claimed
  <2> QED BY <2>4, <2>5, <2>6
\* Steps that leave the pidfile alone and bring nobody past the claim.
<1>5. ASSUME NEW p \in Procs, NEW from \in Starting, NEW to \in Starting \cup {"dead"},
             from # "opened", to \notin Claimed \cup {"opened", "stale"},
             Goes(p, from, to), UNCHANGED <<pidOwner, pidWritten, client, past>>,
             sock' \in Procs \cup {Nobody}, attempt' \in [Procs -> 1..2]
      PROVE  SerialInv'
  <2>1. /\ pc' \in [Procs -> Running \cup {"unborn", "dead"}]
        /\ pc[p] = from /\ pc'[p] = to
        /\ \A q \in Procs : q # p => pc'[q] = pc[q]
    BY <1>5, MoveKeepsType DEF Running
  <2>2. TypeOK'
    BY <1>5, <2>1 DEF TypeOK
  <2>3. StartsAreSerial'
    BY <1>5, <2>1, StartGoesOn
  <2>4. ClaimIsOwned'
    BY <1>5, <2>1 DEF ClaimIsOwned
  <2> QED BY <2>2, <2>3, <2>4
<1>6. ASSUME NEW p \in Procs, ProbeBinds(p) PROVE SerialInv'
  BY <1>5, <1>6 DEF ProbeBinds, Starting, Claimed, TypeOK
<1>7. ASSUME NEW p \in Procs, ProbeUnlinks(p) PROVE SerialInv'
  BY <1>5, <1>7 DEF ProbeUnlinks, UnlinkSocket, Starting, Claimed, TypeOK
<1>8. ASSUME NEW p \in Procs, ClaimOpens(p) PROVE SerialInv'
  <2>1. CASE pidOwner # Nobody
    BY <1>5, <1>8, <2>1 DEF ClaimOpens, Starting, Claimed, TypeOK
  <2>2. CASE pidOwner = Nobody
    <3>1. /\ Goes(p, "claiming", "opened") /\ pidOwner' = p /\ pidWritten' = FALSE
          /\ UNCHANGED <<attempt, sock, client, past>>
      BY <1>8, <2>2 DEF ClaimOpens
    <3>2. /\ pc' \in [Procs -> Running \cup {"unborn", "dead"}]
          /\ pc[p] = "claiming" /\ pc'[p] = "opened"
          /\ \A q \in Procs : q # p => pc'[q] = pc[q]
      BY <3>1, MoveKeepsType DEF Running, Starting
    <3>3. TypeOK'
      BY <3>1, <3>2 DEF TypeOK
    <3>4. StartsAreSerial'
      BY <3>1, <3>2, StartGoesOn DEF Starting
    <3>5. \A q \in Procs : q # p => pc[q] \notin Claimed \cup {"opened"}
      BY <2>2, <3>2, StartsAlone DEF ClaimIsOwned, Starting
    <3>6. ClaimIsOwned'
      BY <3>1, <3>2, <3>5 DEF ClaimIsOwned, Claimed
    <3> QED BY <3>3, <3>4, <3>6
  <2> QED BY <2>1, <2>2
<1>9. ASSUME NEW p \in Procs, ClaimReads(p) PROVE SerialInv'
  <2>1. CASE DaemonAlive
    BY <1>5, <1>9, <2>1 DEF ClaimReads, Starting, Claimed, TypeOK
  <2>2. CASE ~DaemonAlive
    <3>1. /\ Goes(p, "colliding", "stale")
          /\ UNCHANGED <<attempt, pidOwner, pidWritten, sock, client, past>>
      BY <1>9, <2>2 DEF ClaimReads
    <3>2. /\ pc' \in [Procs -> Running \cup {"unborn", "dead"}]
          /\ pc[p] = "colliding" /\ pc'[p] = "stale"
          /\ \A q \in Procs : q # p => pc'[q] = pc[q]
      BY <3>1, MoveKeepsType DEF Running, Starting
    <3>3. TypeOK'
      BY <3>1, <3>2 DEF TypeOK
    <3>4. StartsAreSerial'
      BY <3>1, <3>2, StartGoesOn DEF Starting
    <3>5. \A q \in Procs : pc[q] \notin Claimed
      BY <2>2, LifecycleAssumption
         DEF DaemonAlive, ClaimIsOwned, Claimed, Running, Starting, Stopping
    <3>6. ClaimIsOwned'
      BY <3>1, <3>2, <3>5 DEF ClaimIsOwned, Claimed
    <3> QED BY <3>3, <3>4, <3>6
  <2> QED BY <2>1, <2>2
<1>10. ASSUME NEW p \in Procs, ClaimUnlinks(p) PROVE SerialInv'
  <2>1. PICK to \in {"claiming", "held"} : Goes(p, "stale", to)
    BY <1>10 DEF ClaimUnlinks
  <2>2. /\ pidOwner' = Nobody /\ pidWritten' = FALSE /\ UNCHANGED <<sock, client, past>>
        /\ attempt' \in [Procs -> 1..2]
    BY <1>10 DEF ClaimUnlinks, UnlinkPidfile, TypeOK
  <2>3. /\ pc' \in [Procs -> Running \cup {"unborn", "dead"}]
        /\ pc[p] = "stale" /\ pc'[p] = to
        /\ \A q \in Procs : q # p => pc'[q] = pc[q]
    BY <2>1, MoveKeepsType DEF Running, Starting
  <2>4. TypeOK'
    BY <2>2, <2>3 DEF TypeOK
  <2>5. StartsAreSerial'
    BY <2>2, <2>3, StartGoesOn DEF Starting
  <2>6. \A q \in Procs : pc[q] \notin Claimed
    BY <2>3 DEF ClaimIsOwned
  <2>7. \A q \in Procs : q # p => pc[q] \notin {"opened", "stale"}
    BY <2>3, StartsAlone DEF Starting
  <2>8. ClaimIsOwned'
    BY <2>2, <2>3, <2>6, <2>7 DEF ClaimIsOwned, Claimed
  <2> QED BY <2>4, <2>5, <2>8
<1>11. ASSUME NEW p \in Procs, ClaimWrites(p) PROVE SerialInv'
  <2>1. /\ Goes(p, "opened", "claimed") /\ UNCHANGED <<attempt, pidOwner, sock, client, past>>
    BY <1>11 DEF ClaimWrites
  <2>2. /\ pc' \in [Procs -> Running \cup {"unborn", "dead"}]
        /\ pc[p] = "opened" /\ pc'[p] = "claimed"
        /\ \A q \in Procs : q # p => pc'[q] = pc[q]
    BY <2>1, MoveKeepsType DEF Running, Starting
  <2>3. pidOwner = p
    BY <2>2 DEF ClaimIsOwned
  <2>4. pidWritten'
    BY <1>11, <2>3 DEF ClaimWrites
  <2>5. pidWritten' \in BOOLEAN
    BY <1>11 DEF ClaimWrites, TypeOK
  <2>6. TypeOK'
    BY <2>1, <2>2, <2>5 DEF TypeOK
  <2>7. StartsAreSerial'
    BY <2>1, <2>2, StartGoesOn DEF Starting
  <2>8. \A q \in Procs : q # p => pc[q] \notin {"opened", "stale"} \cup Claimed
    BY <2>2, <2>3, StartsAlone DEF Starting, ClaimIsOwned
  <2>9. ClaimIsOwned'
    BY <2>1, <2>2, <2>3, <2>4, <2>8 DEF ClaimIsOwned, Claimed
  <2> QED BY <2>6, <2>7, <2>9
<1>12. ASSUME NEW p \in Procs, RefusesHeld(p) PROVE SerialInv'
  BY <1>5, <1>12 DEF RefusesHeld, Starting, Claimed, TypeOK
\* Steps of a process past the claim that leave the pidfile alone.
<1>13. ASSUME NEW p \in Procs, NEW from \in Claimed, NEW to \in Claimed \cup {"dead"},
              to \notin Starting \/ from \in Starting,
              Goes(p, from, to), UNCHANGED <<attempt, pidOwner, pidWritten, client, past>>,
              sock' \in Procs \cup {Nobody}
       PROVE  SerialInv'
  <2>1. /\ pc' \in [Procs -> Running \cup {"unborn", "dead"}]
        /\ pc[p] = from /\ pc'[p] = to
        /\ \A q \in Procs : q # p => pc'[q] = pc[q]
    BY <1>13, MoveKeepsType DEF Running, Claimed, Starting, Stopping
  <2>2. TypeOK'
    BY <1>13, <2>1 DEF TypeOK
  <2>3. StartsAreSerial'
    BY <1>13, <2>1, StartGoesOn
  <2>4. ClaimIsOwned'
    BY <1>13, <2>1 DEF ClaimIsOwned, Claimed
  <2> QED BY <2>2, <2>3, <2>4
<1>14. ASSUME NEW p \in Procs, ClearsSocket(p) \/ Connects(p) \/ Binds(p) \/ Stops(p)
       PROVE  SerialInv'
  <2>1. CASE ClearsSocket(p)
    BY <1>13, <2>1 DEF ClearsSocket, UnlinkSocket, Starting, Claimed
  <2>2. CASE Connects(p)
    BY <1>13, <2>2 DEF Connects, Starting, Claimed, TypeOK
  <2>3. CASE Binds(p)
    BY <1>13, <2>3 DEF Binds, Starting, Claimed, TypeOK
  <2>4. CASE Stops(p)
    BY <1>13, <2>4 DEF Stops, Starting, Claimed, TypeOK
  <2> QED BY <1>14, <2>1, <2>2, <2>3, <2>4
<1>15. ASSUME NEW p \in Procs, ConnectFails(p) \/ CleansPidfile(p) PROVE SerialInv'
  <2>1. PICK from \in {"connecting", "stopping"}, to \in {"dead", "unlinking"} :
          Goes(p, from, to)
    BY <1>15 DEF ConnectFails, CleansPidfile
  <2>2. /\ pidOwner' = Nobody /\ pidWritten' = FALSE
        /\ UNCHANGED <<attempt, sock, client, past>>
    BY <1>15 DEF ConnectFails, CleansPidfile, UnlinkPidfile
  <2>3. /\ pc' \in [Procs -> Running \cup {"unborn", "dead"}]
        /\ pc[p] = from /\ pc'[p] = to
        /\ \A q \in Procs : q # p => pc'[q] = pc[q]
    BY <2>1, MoveKeepsType DEF Running, Stopping
  <2>4. TypeOK'
    BY <2>2, <2>3 DEF TypeOK
  <2>5. StartsAreSerial'
    BY <2>2, <2>3, StartGoesOn DEF Starting
  <2>6. pidOwner = p
    BY <2>3 DEF ClaimIsOwned, Claimed
  <2>7. \A q \in Procs : q # p => pc[q] \notin Claimed \cup {"opened"}
    BY <2>6 DEF ClaimIsOwned
  <2>8. ClaimIsOwned'
    BY <2>2, <2>3, <2>7 DEF ClaimIsOwned, Claimed
  <2> QED BY <2>4, <2>5, <2>8
<1>16. ASSUME NEW p \in Procs, CleansSocket(p) \/ Killed(p) PROVE SerialInv'
  <2>1. /\ pc' = [pc EXCEPT ![p] = "dead"]
        /\ sock' \in Procs \cup {Nobody}
        /\ UNCHANGED <<attempt, pidOwner, pidWritten, client, past>>
    BY <1>16 DEF CleansSocket, UnlinkSocket, Goes, Killed, TypeOK
  <2>2. /\ pc' \in [Procs -> Running \cup {"unborn", "dead"}] /\ pc'[p] = "dead"
        /\ \A q \in Procs : q # p => pc'[q] = pc[q]
    BY <2>1 DEF TypeOK
  <2>3. TypeOK'
    BY <2>1, <2>2 DEF TypeOK
  <2>4. StartsAreSerial'
    BY <2>1, <2>2, StartGoesOn DEF Starting
  <2>5. ClaimIsOwned'
    BY <2>1, <2>2 DEF ClaimIsOwned, Claimed
  <2> QED BY <2>3, <2>4, <2>5
<1>17. CASE UNCHANGED vars
  BY <1>17 DEF vars, TypeOK, StartsAreSerial, ClaimIsOwned
<1> QED
  BY <1>1, <1>2, <1>3, <1>4, <1>6, <1>7, <1>8, <1>9, <1>10, <1>11, <1>12, <1>14,
     <1>15, <1>16, <1>17
  DEF Next, Main

-----------------------------------------------------------------------------

\* The strengthened invariant holds until a start begins amid another.
THEOREM SerialKept == Spec => []("start" \notin past => SerialInv)
<1>1. Init => ("start" \notin past => SerialInv)
  BY InitSerial
<1>2. ("start" \notin past => SerialInv) /\ [Next]_vars => ("start" \notin past => SerialInv)'
  BY NextSerial, PastGrows
<1> QED BY <1>1, <1>2, PTL DEF Spec

\* One connection, and the pidfile leads to it, until a start begins amid
\* another: a kill at any point, a start during a stop and a launch by hand
\* do not break it.
THEOREM ConnectionKept == Spec => []ConnectionInv
<1>1. SerialInv => PidfileNamesTheConnection
  BY DEF SerialInv, ClaimIsOwned, PidfileNamesTheConnection, Connected, Claimed
<1>2. SerialInv => OneConnection
  BY DEF SerialInv, ClaimIsOwned, OneConnection, Connected, Claimed
<1>3. ("start" \notin past => SerialInv) => ConnectionInv
  BY <1>1, <1>2 DEF ConnectionInv
<1> QED BY <1>3, SerialKept, PTL

-----------------------------------------------------------------------------
(* However starts overlap *)

\* Where a process has not written its pid, or never will.
NotWritten == {"unborn", "probing", "probed", "blocked", "claiming", "colliding", "stale", "held", "opened"}

MakerInv == PidfileInv /\ (pidWritten => pidOwner \in Procs)

\* A process that moves on without making, writing or removing the pidfile,
\* from before the claim to no later than the open, or after it.
LEMMA MoveKeepsMaker ==
  ASSUME MakerInv, NEW p \in Procs, NEW from, NEW to \in Running \cup {"dead"}, Goes(p, from, to),
         from \in NotWritten \/ to \notin NotWritten,
         UNCHANGED <<pidOwner, pidWritten, client, past>>,
         sock' \in Procs \cup {Nobody}, attempt' \in [Procs -> 1..2]
  PROVE  MakerInv'
<1> USE DEF MakerInv, PidfileInv
<1>1. pc' \in [Procs -> Running \cup {"unborn", "dead"}] /\ pc[p] = from /\ pc'[p] = to
      /\ \A q \in Procs : q # p => pc'[q] = pc[q]
  BY MoveKeepsType
<1>2. TypeOK'
  BY <1>1 DEF TypeOK
<1> QED BY <1>1, <1>2 DEF PidfileNamesItsMaker, NotWritten

\* The pidfile is made afresh or removed.
LEMMA FileKeepsMaker ==
  ASSUME MakerInv, NEW p \in Procs, NEW from, NEW to \in Running \cup {"dead"}, Goes(p, from, to),
         pidOwner' \in Procs \cup {Nobody}, pidWritten' = FALSE, UNCHANGED <<sock, client, past>>, attempt' \in [Procs -> 1..2]
  PROVE  MakerInv'
<1>1. pc' \in [Procs -> Running \cup {"unborn", "dead"}]
  BY MoveKeepsType DEF MakerInv, PidfileInv
<1> QED BY <1>1 DEF MakerInv, PidfileInv, TypeOK, PidfileNamesItsMaker

\* Every step keeps the pidfile its maker's.
LEMMA NextMaker == ASSUME MakerInv, [Next]_vars PROVE MakerInv'
<1> USE LifecycleAssumption DEF Running, Starting, Stopping, NotWritten
<1>1. ASSUME NEW c \in Clients, EnsureChecks(c) \/ EnsureUnlinks(c) PROVE MakerInv'
  <2>1. /\ UNCHANGED <<pc, attempt, pidOwner, pidWritten>>
        /\ sock' \in Procs \cup {Nobody}
        /\ client' \in [Clients -> {"idle", "recovering", "spawning"}]
    BY <1>1 DEF EnsureChecks, EnsureUnlinks, UnlinkSocket, MakerInv, PidfileInv, TypeOK
  <2>2. past' \subseteq {"start", "stop", "hand"}
    BY <1>1 DEF EnsureChecks, EnsureUnlinks, Amid, MakerInv, PidfileInv, TypeOK
  <2> QED BY <2>1, <2>2 DEF MakerInv, PidfileInv, TypeOK, PidfileNamesItsMaker
<1>2. ASSUME NEW p \in Procs, Goes(p, "unborn", "probing"), UNCHANGED <<attempt, pidOwner, pidWritten, sock>>,
             past' \subseteq {"start", "stop", "hand"}, client' \in [Clients -> {"idle", "recovering", "spawning"}]
      PROVE  MakerInv'
  <2>1. pc' \in [Procs -> Running \cup {"unborn", "dead"}] /\ pc[p] = "unborn"
        /\ \A q \in Procs : q # p => pc'[q] = pc[q]
    BY <1>2, MoveKeepsType DEF MakerInv, PidfileInv
  <2> QED BY <1>2, <2>1 DEF MakerInv, PidfileInv, TypeOK, PidfileNamesItsMaker
<1>3. ASSUME NEW c \in Clients, EnsureSpawns(c) PROVE MakerInv'
  BY <1>2, <1>3 DEF EnsureSpawns, MakerInv, PidfileInv, TypeOK
<1>4. CASE LaunchedByHand
  BY <1>2, <1>4 DEF LaunchedByHand, Amid, MakerInv, PidfileInv, TypeOK
<1>5. ASSUME NEW p \in Procs, ProbeBinds(p) \/ ProbeUnlinks(p) \/ RefusesHeld(p) \/ ClaimReads(p) PROVE MakerInv'
  BY <1>5, MoveKeepsMaker DEF ProbeBinds, ProbeUnlinks, UnlinkSocket, RefusesHeld, ClaimReads, MakerInv, PidfileInv, TypeOK
<1>6. ASSUME NEW p \in Procs, ClaimOpens(p) PROVE MakerInv'
  BY <1>6, MoveKeepsMaker, FileKeepsMaker DEF ClaimOpens, MakerInv, PidfileInv, TypeOK
<1>7. ASSUME NEW p \in Procs, ClaimUnlinks(p) \/ ConnectFails(p) \/ CleansPidfile(p) PROVE MakerInv'
  <2>1. attempt' \in [Procs -> 1..2]
    BY <1>7 DEF ClaimUnlinks, ConnectFails, CleansPidfile, MakerInv, PidfileInv, TypeOK
  <2>2. PICK from \in {"stale", "connecting", "stopping"}, to \in {"claiming", "held", "dead", "unlinking"} : Goes(p, from, to)
    BY <1>7 DEF ClaimUnlinks, ConnectFails, CleansPidfile
  <2>3. pidOwner' = Nobody /\ pidWritten' = FALSE /\ UNCHANGED <<sock, client, past>>
    BY <1>7 DEF ClaimUnlinks, ConnectFails, CleansPidfile, UnlinkPidfile
  <2> QED BY <2>1, <2>2, <2>3, FileKeepsMaker
<1>8. ASSUME NEW p \in Procs, ClaimWrites(p) PROVE MakerInv'
  <2>1. pc' \in [Procs -> Running \cup {"unborn", "dead"}] /\ pc[p] = "opened" /\ pc'[p] = "claimed"
        /\ \A q \in Procs : q # p => pc'[q] = pc[q]
    BY <1>8, MoveKeepsType DEF ClaimWrites, MakerInv, PidfileInv
  <2>2. UNCHANGED <<attempt, pidOwner, sock, client, past>> /\ pidWritten' = (pidWritten \/ pidOwner = p)
    BY <1>8 DEF ClaimWrites
  <2> QED BY <2>1, <2>2 DEF MakerInv, PidfileInv, TypeOK, PidfileNamesItsMaker
<1>9. ASSUME NEW p \in Procs, ClearsSocket(p) \/ Connects(p) \/ Binds(p) \/ Stops(p) \/ CleansSocket(p) PROVE MakerInv'
  BY <1>9, MoveKeepsMaker
     DEF ClearsSocket, UnlinkSocket, Connects, Binds, Stops, CleansSocket, MakerInv, PidfileInv, TypeOK
<1>10. ASSUME NEW p \in Procs, Killed(p) PROVE MakerInv'
  BY <1>10, MoveKeepsMaker DEF Killed, Goes, MakerInv, PidfileInv, TypeOK
<1>11. CASE UNCHANGED vars
  BY <1>11 DEF vars, MakerInv, PidfileInv, TypeOK, PidfileNamesItsMaker
<1> QED BY <1>1, <1>3, <1>4, <1>5, <1>6, <1>7, <1>8, <1>9, <1>10, <1>11 DEF Next, Main

\* The pid in the pidfile is that of the process that made this very file, in
\* any overlap of starts and stops, whoever is killed.
THEOREM MakerKept == Spec => []MakerInv
<1>1. Init => MakerInv
  BY InitSerial DEF Init, SerialInv, MakerInv, PidfileInv, PidfileNamesItsMaker
<1>2. MakerInv /\ [Next]_vars => MakerInv'
  BY NextMaker
<1> QED BY <1>1, <1>2, PTL DEF Spec

\* The same without the strengthening, in any overlap of starts and stops.
THEOREM PidfileKept == Spec => []PidfileInv
<1>1. MakerInv => PidfileInv
  BY DEF MakerInv
<1> QED BY <1>1, MakerKept, PTL

\* Every variable keeps its type, however starts overlap.
THEOREM DaemonTypeCorrect == Spec => []TypeOK
<1>1. PidfileInv => TypeOK
  BY DEF PidfileInv
<1> QED BY <1>1, PidfileKept, PTL

-----------------------------------------------------------------------------
(* As long as ensure is the only way to start, and nothing overlaps *)

\* At most one process runs, and none while a caller is starting one.
Alone ==
  \A p \in Procs : pc[p] \in Running =>
    /\ \A c \in Clients : client[c] = "idle"
    /\ \A q \in Procs : pc[q] \in Running => q = p

\* A start finds the way cleared: no socket node, and no pidfile the second
\* time round.
WayIsClear ==
  /\ \A c \in Clients : client[c] = "spawning" => sock = Nobody
  /\ \A p \in Procs :
       /\ pc[p] = "probing" => sock = Nobody
       /\ pc[p] \in {"unborn", "probing", "probed", "colliding", "stale"} => attempt[p] = 1
       /\ pc[p] = "claiming" /\ attempt[p] = 2 => pidOwner = Nobody
       /\ pc[p] \notin {"blocked", "held"}

EnsuredInv == SerialInv /\ MakerInv /\ Alone /\ SocketIsItsOwn /\ WayIsClear

\* What a step of one process leaves alone.
LEMMA ProcessSteps ==
  ASSUME TypeOK, NEW p \in Procs, Main(p) \/ Stops(p) \/ Killed(p)
  PROVE  /\ pc[p] \in Running
         /\ \A q \in Procs : q # p => pc'[q] = pc[q] /\ attempt'[q] = attempt[q]
         /\ UNCHANGED client
<1> USE DEF TypeOK, Goes, Running, Starting, Stopping
<1>1. UNCHANGED client /\ pc[p] \in Running /\ \E to : pc' = [pc EXCEPT ![p] = to]
  BY DEF Main, ProbeBinds, ProbeUnlinks, ClaimOpens, ClaimReads, ClaimUnlinks, ClaimWrites, RefusesHeld, ClearsSocket,
     Connects, ConnectFails, Binds, Stops, CleansPidfile, CleansSocket, Killed
<1>2. attempt' = attempt \/ attempt' = [attempt EXCEPT ![p] = 2]
  BY DEF Main, ProbeBinds, ProbeUnlinks, ClaimOpens, ClaimReads, ClaimUnlinks, ClaimWrites, RefusesHeld, ClearsSocket,
     Connects, ConnectFails, Binds, Stops, CleansPidfile, CleansSocket, Killed
<1> QED BY <1>1, <1>2

\* Every step keeps it, a kill at any point included, unless it begins a start
\* by hand or amid another start or a stop.
LEMMA NextEnsured == ASSUME EnsuredInv, past' = {}, [Next]_vars PROVE EnsuredInv'
<1>1. SerialInv' /\ MakerInv'
  BY NextSerial, NextMaker DEF EnsuredInv
<1> USE DEF EnsuredInv
<1>2. ASSUME NEW c \in Clients, EnsureChecks(c) PROVE EnsuredInv'
  <2>1. \A p \in Procs : pc[p] \notin Running
    <3>1. \A p \in Procs : pc[p] \notin Starting \cup Stopping
      <4>1. Amid \subseteq past'
        BY <1>2 DEF EnsureChecks
      <4>2. ~StopUnderWay
        BY <4>1 DEF Amid
      <4> QED BY <4>1, <4>2, BeginsAlone DEF StopUnderWay
    <3>2. \A p \in Procs : pc[p] # "serving"
      BY <1>2, LifecycleAssumption DEF EnsureChecks, DaemonAlive, SocketIsItsOwn, SerialInv, ClaimIsOwned, Claimed, Running
    <3> QED BY <3>1, <3>2 DEF Running
  <2>2. UNCHANGED <<pc, attempt, pidOwner, sock>> /\ client' = [client EXCEPT ![c] = "recovering"]
    BY <1>2 DEF EnsureChecks
  <2>3. Alone' /\ SocketIsItsOwn'
    BY <2>1, <2>2 DEF Alone, SocketIsItsOwn
  <2>4. WayIsClear'
    BY <2>2 DEF WayIsClear, SerialInv, TypeOK
  <2> QED BY <1>1, <2>3, <2>4
<1>3. ASSUME NEW c \in Clients, EnsureUnlinks(c) PROVE EnsuredInv'
  <2>1. UNCHANGED <<pc, attempt, pidOwner>> /\ sock' = Nobody /\ client' = [client EXCEPT ![c] = "spawning"]
    BY <1>3 DEF EnsureUnlinks, UnlinkSocket
  <2>2. \A p \in Procs : pc[p] \notin Running
    BY <1>3 DEF EnsureUnlinks, Alone
  <2>3. Alone' /\ SocketIsItsOwn'
    BY <2>1, <2>2 DEF Alone, SocketIsItsOwn, Running
  <2>4. WayIsClear'
    BY <2>1 DEF WayIsClear
  <2> QED BY <1>1, <2>3, <2>4
<1>4. ASSUME NEW c \in Clients, EnsureSpawns(c) PROVE EnsuredInv'
  <2>1. PICK p \in Procs : Goes(p, "unborn", "probing")
    BY <1>4 DEF EnsureSpawns
  <2>2. UNCHANGED <<attempt, pidOwner, sock>> /\ client[c] = "spawning" /\ client' = [client EXCEPT ![c] = "idle"]
    BY <1>4 DEF EnsureSpawns
  <2>3. pc[p] = "unborn" /\ pc'[p] = "probing" /\ \A q \in Procs : q # p => pc'[q] = pc[q]
    BY <2>1, MoveKeepsType DEF SerialInv, Running, Starting
  <2>4. sock = Nobody
    BY <2>2 DEF WayIsClear
  <2>5. \A q \in Procs : pc[q] \notin Running
    BY <2>2 DEF Alone
  <2>6. \A d \in Clients : client'[d] = "idle"
    BY <2>2 DEF SerialInv, StartsAreSerial, TypeOK
  <2>7. Alone' /\ SocketIsItsOwn'
    BY <2>3, <2>5, <2>6 DEF Alone, SocketIsItsOwn, Running
  <2>8. WayIsClear'
    BY <2>2, <2>3, <2>4, <2>6 DEF WayIsClear
  <2> QED BY <1>1, <2>7, <2>8
<1>5. ASSUME NEW p \in Procs, Main(p) \/ Stops(p) \/ Killed(p) PROVE EnsuredInv'
  <2>1. pc[p] \in Running /\ UNCHANGED client
        /\ \A q \in Procs : q # p => pc'[q] = pc[q] /\ attempt'[q] = attempt[q]
    BY <1>5, ProcessSteps DEF SerialInv
  <2>2. \A q \in Procs : q # p => pc[q] \notin Running
    BY <2>1 DEF Alone
  <2>3. \A c \in Clients : client[c] = "idle"
    BY <2>1 DEF Alone
  <2>4. Alone'
    BY <2>1, <2>2, <2>3 DEF Alone
  <2>5. pc[p] # pc'[p] /\ pc'[p] \notin {"unborn", "probing"}
    BY <1>5, MoveKeepsType
       DEF Main, ProbeBinds, ProbeUnlinks, ClaimOpens, ClaimReads, ClaimUnlinks, ClaimWrites, RefusesHeld, ClearsSocket,
       Connects, ConnectFails, Binds, Stops, CleansPidfile, CleansSocket, Killed, Goes, SerialInv, TypeOK, Running, Starting, Stopping
  <2>6. SocketIsItsOwn'
    <3>1. pc'[p] = "serving" => sock' = p
      BY <1>5
         DEF Main, ProbeBinds, ProbeUnlinks, ClaimOpens, ClaimReads, ClaimUnlinks, ClaimWrites, RefusesHeld, ClearsSocket,
         Connects, ConnectFails, Binds, Stops, CleansPidfile, CleansSocket, Killed, Goes, SerialInv, TypeOK
    <3> QED BY <2>1, <2>2, <3>1 DEF SocketIsItsOwn, Running
  <2>7. WayIsClear'
    <3>1. pc'[p] \in {"probed", "colliding", "stale"} => attempt'[p] = 1
      BY <1>5
         DEF Main, ProbeBinds, ProbeUnlinks, ClaimOpens, ClaimReads, ClaimUnlinks, ClaimWrites, RefusesHeld, ClearsSocket,
         Connects, ConnectFails, Binds, Stops, CleansPidfile, CleansSocket, Killed, Goes, SerialInv, TypeOK, WayIsClear
    <3>2. pc'[p] = "claiming" /\ attempt'[p] = 2 => pidOwner' = Nobody
      BY <1>5
         DEF Main, ProbeBinds, ProbeUnlinks, ClaimOpens, ClaimReads, ClaimUnlinks, UnlinkPidfile, ClaimWrites, RefusesHeld, ClearsSocket,
         Connects, ConnectFails, Binds, Stops, CleansPidfile, CleansSocket, Killed, Goes, SerialInv, TypeOK, WayIsClear
    <3>3. pc[p] = "colliding" => ~DaemonAlive
      BY <2>2 DEF DaemonAlive, MakerInv, PidfileInv, PidfileNamesItsMaker
    <3>4. pc'[p] \notin {"blocked", "held"}
      BY <1>5, <3>3
         DEF Main, ProbeBinds, ProbeUnlinks, ClaimOpens, ClaimReads, ClaimUnlinks, ClaimWrites, RefusesHeld, ClearsSocket,
         Connects, ConnectFails, Binds, Stops, CleansPidfile, CleansSocket, Killed, Goes, SerialInv, TypeOK, WayIsClear
    <3>5. \A q \in Procs : q # p => pc'[q] \notin {"probing", "claiming", "blocked", "held"}
      BY <2>1, <2>2 DEF Running, Starting
    <3>6. \A q \in Procs : q # p => (pc'[q] \in {"unborn", "probing", "probed", "colliding", "stale"} => attempt'[q] = 1)
      BY <2>1 DEF WayIsClear
    <3> QED BY <2>1, <2>3, <2>5, <3>1, <3>2, <3>4, <3>5, <3>6 DEF WayIsClear
  <2> QED BY <1>1, <2>4, <2>6, <2>7
<1>6. CASE UNCHANGED vars
  BY <1>1, <1>6 DEF vars, Alone, SocketIsItsOwn, WayIsClear
<1> QED BY <1>2, <1>3, <1>4, <1>5, <1>6 DEF Next, LaunchedByHand

\* As long as only ensure has started daemons, one start or stop at a time,
\* they run alone and find their way cleared.
THEOREM EnsuredKept == Spec => [](past = {} => EnsuredInv)
<1>1. Init => EnsuredInv
  <2> SUFFICES ASSUME Init PROVE EnsuredInv
    OBVIOUS
  <2>1. SerialInv
    BY InitSerial
  <2> QED BY <2>1 DEF Init, EnsuredInv, SerialInv, MakerInv, PidfileInv, PidfileNamesItsMaker, Alone, SocketIsItsOwn,
          WayIsClear, Running, Starting, Stopping
<1>2. (past = {} => EnsuredInv) /\ [Next]_vars => (past = {} => EnsuredInv)'
  BY NextEnsured, PastGrows
<1>3. Init => (past = {} => EnsuredInv)
  BY <1>1
<1> QED BY <1>2, <1>3, PTL DEF Spec

\* A daemon that serves holds the socket node, so its clients reach it, until
\* a start overlaps a start or a stop or twd is launched by hand.
THEOREM Reachable == Spec => []ServingIsReachable
<1>1. (past = {} => EnsuredInv) => ServingIsReachable
  BY DEF EnsuredInv, ServingIsReachable
<1> QED BY <1>1, EnsuredKept, PTL

\* Until then no start is turned away by what a killed process left: the
\* socket node and the pidfile of the dead are always stepped over.
THEOREM NeverBlocked == Spec => []LeftoversNeverBlock
<1>1. (past = {} => EnsuredInv) => LeftoversNeverBlock
  BY DEF EnsuredInv, WayIsClear, LeftoversNeverBlock
<1> QED BY <1>1, EnsuredKept, PTL
=============================================================================

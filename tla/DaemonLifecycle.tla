-------------------------- MODULE DaemonLifecycle --------------------------
(***************************************************************************)
(* The life of the daemon `twd' on its run directory: how a process comes  *)
(* to own the pidfile, the telnet connection and the control socket, and   *)
(* how it leaves them, next to the clients whose `ensure' starts it.       *)
(*                                                                         *)
(* Nothing but two files orders these processes: the pidfile, created with *)
(* O_EXCL and written by a second call, and the socket node.  Each unlink  *)
(* is by name, whoever made the file.  A process may be killed between any *)
(* two calls and leaves behind what it had made.                           *)
(*                                                                         *)
(* Nothing keeps starts apart either: `past' remembers what they have      *)
(* overlapped, and the properties name the overlaps they do not survive.   *)
(*                                                                         *)
(* Abstracted: a process is spawned once and its pid is not used again;    *)
(* permission errors; the socket path is short enough to bind; a listening *)
(* socket serves as soon as it is bound.                                   *)
(***************************************************************************)
EXTENDS Naturals, FiniteSets

CONSTANTS
  Procs,      \* daemon processes, each spawned at most once
  Clients,    \* callers of ensure_raw
  Nobody      \* no file

ASSUME LifecycleAssumption == Nobody \notin Procs

VARIABLES
  pc,         \* process -> the call it makes next
  attempt,    \* process -> round of _claim_pidfile
  pidOwner,   \* who made the pidfile, or Nobody
  pidWritten, \* whether the pid is in it
  sock,       \* who bound the socket node, or Nobody
  client,     \* client -> where it is in ensure_raw
  past        \* history: what starts have overlapped, and whether one was by hand

vars == <<pc, attempt, pidOwner, pidWritten, sock, client, past>>

Starting == {"probing", "probed", "blocked", "claiming", "colliding", "stale",
             "held", "opened", "claimed", "connecting", "connected"}
Stopping == {"stopping", "unlinking"}
Running == Starting \cup Stopping \cup {"serving"}

\* Where a process holds a telnet connection.
Connected == {"connected", "serving"}

Init ==
  /\ pc = [p \in Procs |-> "unborn"]
  /\ attempt = [p \in Procs |-> 1]
  /\ pidOwner = Nobody
  /\ pidWritten = FALSE
  /\ sock = Nobody
  /\ client = [c \in Clients |-> "idle"]
  /\ past = {}

TypeOK ==
  /\ pc \in [Procs -> Running \cup {"unborn", "dead"}]
  /\ attempt \in [Procs -> 1..2]
  /\ pidOwner \in Procs \cup {Nobody}
  /\ pidWritten \in BOOLEAN
  /\ sock \in Procs \cup {Nobody}
  /\ client \in [Clients -> {"idle", "recovering", "spawning"}]
  /\ past \subseteq {"start", "stop", "hand"}

-----------------------------------------------------------------------------
(* Reading and removing the files *)

\* The pidfile holds a pid and that process still exists.
DaemonAlive == pidOwner # Nobody /\ pidWritten /\ pc[pidOwner] \in Running

UnlinkPidfile == pidOwner' = Nobody /\ pidWritten' = FALSE
UnlinkSocket == sock' = Nobody

Goes(p, from, to) == pc[p] = from /\ pc' = [pc EXCEPT ![p] = to]

-----------------------------------------------------------------------------
(* ensure_raw *)

\* Mutated form: the orphan socket is left for the daemon to step over.
EnsureUnlinksNothing(c) ==
  /\ client[c] = "recovering"
  /\ client' = [client EXCEPT ![c] = "spawning"]
  /\ UNCHANGED <<pc, attempt, pidOwner, pidWritten, sock, past>>

\* What a start that begins now overlaps.
StartUnderWay ==
  \/ \E c \in Clients : client[c] # "idle"
  \/ \E p \in Procs : pc[p] \in Starting

StopUnderWay == \E p \in Procs : pc[p] \in Stopping

Amid == {o \in {"start", "stop"} : IF o = "start" THEN StartUnderWay ELSE StopUnderWay}

\* Mutated form: the spawn asks neither for a pid nor for a socket.
EnsureChecksNothing(c) ==
  /\ client[c] = "idle"
  /\ client' = [client EXCEPT ![c] = "recovering"]
  /\ past' = past \cup Amid
  /\ UNCHANGED <<pc, attempt, pidOwner, pidWritten, sock>>

EnsureChecks(c) ==
  /\ client[c] = "idle"
  /\ ~(DaemonAlive /\ sock # Nobody)
  /\ client' = [client EXCEPT ![c] = "recovering"]
  /\ past' = past \cup Amid
  /\ UNCHANGED <<pc, attempt, pidOwner, pidWritten, sock>>

EnsureUnlinks(c) ==
  /\ client[c] = "recovering"
  /\ UnlinkSocket
  /\ client' = [client EXCEPT ![c] = "spawning"]
  /\ UNCHANGED <<pc, attempt, pidOwner, pidWritten, past>>

EnsureSpawns(c) ==
  /\ client[c] = "spawning"
  /\ client' = [client EXCEPT ![c] = "idle"]
  /\ \E p \in Procs : Goes(p, "unborn", "probing")
  /\ UNCHANGED <<attempt, pidOwner, pidWritten, sock, past>>

\* The launcher `twd', started by hand.
LaunchedByHand ==
  /\ past' = past \cup Amid \cup {"hand"}
  /\ \E p \in Procs : Goes(p, "unborn", "probing")
  /\ UNCHANGED <<attempt, pidOwner, pidWritten, sock, client>>

-----------------------------------------------------------------------------
(* main: the probe *)

\* bind() makes the node, or fails because there is one.
ProbeBinds(p) ==
  /\ pc[p] = "probing"
  /\ IF sock = Nobody
     THEN sock' = p /\ Goes(p, "probing", "probed")
     ELSE UNCHANGED sock /\ Goes(p, "probing", "blocked")
  /\ UNCHANGED <<attempt, pidOwner, pidWritten, client, past>>

\* The finally clause; after a failed bind the process dies of the OSError.
ProbeUnlinks(p) ==
  /\ UnlinkSocket
  /\ Goes(p, "probed", "claiming") \/ Goes(p, "blocked", "dead")
  /\ UNCHANGED <<attempt, pidOwner, pidWritten, client, past>>

-----------------------------------------------------------------------------
(* _claim_pidfile *)

ClaimOpens(p) ==
  /\ pc[p] = "claiming"
  /\ IF pidOwner = Nobody
     THEN Goes(p, "claiming", "opened") /\ pidOwner' = p /\ pidWritten' = FALSE
     ELSE Goes(p, "claiming", "colliding") /\ UNCHANGED <<pidOwner, pidWritten>>
  /\ UNCHANGED <<attempt, sock, client, past>>

\* A pid of a process that exists, or else a pidfile to step over: of a dead
\* process, empty, or gone.
ClaimReads(p) ==
  /\ IF DaemonAlive
     THEN Goes(p, "colliding", "held")
     ELSE Goes(p, "colliding", "stale")
  /\ UNCHANGED <<attempt, pidOwner, pidWritten, sock, client, past>>

\* Mutated form: stepping over a stale pidfile is retried for ever.
ClaimUnlinksUnboundedly(p) ==
  /\ UnlinkPidfile
  /\ Goes(p, "stale", "claiming") /\ attempt' = [attempt EXCEPT ![p] = attempt[p] + 1]
  /\ UNCHANGED <<sock, client, past>>

\* One retry: the second collision is reported as held.
ClaimUnlinks(p) ==
  /\ UnlinkPidfile
  /\ IF attempt[p] = 1
     THEN Goes(p, "stale", "claiming") /\ attempt' = [attempt EXCEPT ![p] = 2]
     ELSE Goes(p, "stale", "held") /\ UNCHANGED attempt
  /\ UNCHANGED <<sock, client, past>>

\* "already running": sys.exit
RefusesHeld(p) ==
  /\ Goes(p, "held", "dead")
  /\ UNCHANGED <<attempt, pidOwner, pidWritten, sock, client, past>>

\* Mutated form: the pid is written by name, into whatever file is there.
ClaimWritesByName(p) ==
  /\ Goes(p, "opened", "claimed")
  /\ pidWritten' = (pidOwner # Nobody)
  /\ UNCHANGED <<attempt, pidOwner, sock, client, past>>

\* The pid goes to the file this process opened, unlinked meanwhile or not.
ClaimWrites(p) ==
  /\ Goes(p, "opened", "claimed")
  /\ pidWritten' = (pidWritten \/ pidOwner = p)
  /\ UNCHANGED <<attempt, pidOwner, sock, client, past>>

-----------------------------------------------------------------------------
(* main: connecting, serving, leaving *)

ClearsSocket(p) ==
  /\ Goes(p, "claimed", "connecting")
  /\ UnlinkSocket
  /\ UNCHANGED <<attempt, pidOwner, pidWritten, client, past>>

Connects(p) ==
  /\ Goes(p, "connecting", "connected")
  /\ UNCHANGED <<attempt, pidOwner, pidWritten, sock, client, past>>

ConnectFails(p) ==
  /\ Goes(p, "connecting", "dead")
  /\ UnlinkPidfile
  /\ UNCHANGED <<attempt, sock, client, past>>

\* A bind that finds a node ends the process with its pidfile in place.
Binds(p) ==
  /\ pc[p] = "connected"
  /\ IF sock = Nobody
     THEN sock' = p /\ Goes(p, "connected", "serving")
     ELSE UNCHANGED sock /\ Goes(p, "connected", "dead")
  /\ UNCHANGED <<attempt, pidOwner, pidWritten, client, past>>

\* Mutated form: the files go before the connection does.
StopsCleaningFirst(p) ==
  /\ pc[p] = "serving" /\ sock = p
  /\ UnlinkPidfile
  /\ UNCHANGED <<pc, attempt, sock, client, past>>

\* The `stop' verb, over the socket: _shutdown closes the session and ends
\* serve_forever.
Stops(p) ==
  /\ sock = p
  /\ Goes(p, "serving", "stopping")
  /\ UNCHANGED <<attempt, pidOwner, pidWritten, sock, client, past>>

CleansPidfile(p) ==
  /\ Goes(p, "stopping", "unlinking")
  /\ UnlinkPidfile
  /\ UNCHANGED <<attempt, sock, client, past>>

CleansSocket(p) ==
  /\ Goes(p, "unlinking", "dead")
  /\ UnlinkSocket
  /\ UNCHANGED <<attempt, pidOwner, pidWritten, client, past>>

\* The process is killed: no clause of it runs.
Killed(p) ==
  /\ pc[p] \in Running
  /\ pc' = [pc EXCEPT ![p] = "dead"]
  /\ UNCHANGED <<attempt, pidOwner, pidWritten, sock, client, past>>

-----------------------------------------------------------------------------

Main(p) ==
  \/ ProbeBinds(p) \/ ProbeUnlinks(p)
  \/ ClaimOpens(p) \/ ClaimReads(p) \/ ClaimUnlinks(p) \/ ClaimWrites(p)
  \/ RefusesHeld(p) \/ ClearsSocket(p)
  \/ Connects(p) \/ ConnectFails(p) \/ Binds(p)
  \/ CleansPidfile(p) \/ CleansSocket(p)

Next ==
  \/ \E c \in Clients : EnsureChecks(c) \/ EnsureUnlinks(c) \/ EnsureSpawns(c)
  \/ LaunchedByHand
  \/ \E p \in Procs : Main(p) \/ Stops(p) \/ Killed(p)

Spec == Init /\ [][Next]_vars

-----------------------------------------------------------------------------
(* Properties *)

\* The Single-Connection Invariant: at most one process holds a telnet
\* connection, whatever was left behind and whenever processes were killed.
OneConnection ==
  \A p, q \in Procs : pc[p] \in Connected /\ pc[q] \in Connected => p = q

\* The pidfile names the process that holds the connection, so that `ensure',
\* `stop' and the next claim find it.
PidfileNamesTheConnection ==
  \A p \in Procs : pc[p] \in Connected => pidOwner = p /\ pidWritten

\* One connection, and the pidfile leads to it, as long as no start has begun
\* amid another: the claim orders a start after a stop and a launch by hand,
\* but not two starts.
ConnectionInv == "start" \notin past => OneConnection /\ PidfileNamesTheConnection

\* A daemon that serves can be reached, as long as ensure alone has started
\* daemons, one start or stop at a time: the socket node is its own.
SocketIsItsOwn == \A p \in Procs : pc[p] = "serving" => sock = p

ServingIsReachable == past = {} => SocketIsItsOwn

\* What a killed or refused process left behind never costs the next start, as
\* long as ensure alone has started daemons, one at a time: no start is turned
\* away by a socket node nobody listens on or by a pidfile nobody holds.
LeftoversNeverBlock ==
  past = {} => \A p \in Procs : pc[p] \in {"blocked", "held"} =>
                 \E q \in Procs : q # p /\ pc[q] \in Running

\* The pid in the pidfile is that of the process that made this very file,
\* however often others unlinked and made it between its two calls.
PidfileNamesItsMaker ==
  pidWritten => pc[pidOwner] \notin {"unborn", "probing", "probed", "blocked",
                                     "claiming", "colliding", "stale", "held", "opened"}

\* The files stay what the processes made them, in any overlap of starts.
PidfileInv == TypeOK /\ PidfileNamesItsMaker

\* The strengthening that makes OneConnection inductive when starts come one
\* at a time: who is past the claim owns the pidfile, and nobody is past it
\* while a pidfile is being stepped over.
Claimed == {"claimed", "connecting", "connected", "serving", "stopping"}

StartsAreSerial ==
  /\ \A c, d \in Clients : client[c] # "idle" /\ client[d] # "idle" => c = d
  /\ \A c \in Clients, p \in Procs : client[c] # "idle" => pc[p] \notin Starting
  /\ \A p, q \in Procs : pc[p] \in Starting /\ pc[q] \in Starting => p = q

ClaimIsOwned ==
  \A p \in Procs :
    /\ pc[p] \in Claimed => pidOwner = p /\ pidWritten
    /\ pc[p] = "opened" => pidOwner = p
    /\ pc[p] = "stale" => \A q \in Procs : pc[q] \notin Claimed

SerialInv == TypeOK /\ StartsAreSerial /\ ClaimIsOwned
=============================================================================

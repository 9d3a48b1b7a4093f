------------------------------ MODULE AttachKeys ------------------------------
(***************************************************************************)
(* What becomes of the keys an operator presses in `tw attach`: the client *)
(* (cli.py, cmd_attach, with AttachInputConn), the connection's thread in  *)
(* the daemon (_handle_attach, Session.send_raw), and the ledger's row of  *)
(* each key (record_attach_keystroke, LedgerWriter).                       *)
(*                                                                         *)
(* The client waits 5 s for an ack, the thread 10 s and 1 s more for a  *)
(* run that winds down: a client may say a key was not sent while it is    *)
(* still going to be.  An operator who was told so may attach and press it *)
(* again.                                                                  *)
(*                                                                         *)
(* A key is its place in what is keyed.  One run at a time stands for    *)
(* all drivers; a sendall of a key returns or raises.                      *)
(***************************************************************************)
EXTENDS Naturals, FiniteSets, Sequences, SequencesExt

CONSTANTS
  Attempts,   \* attachments, in this order: an interval from 1
  Pressings,  \* what may be pressed: sequences of "plain", "eight", "wide", "detach"
  MaxMishaps  \* bound: kills of the daemon and returns of a lost connection, together

ASSUME AttachAssumption ==
  /\ Attempts \subseteq Nat \ {0} /\ IsFiniteSet(Attempts) \* 0 is nobody's
  /\ Pressings \subseteq Seq({"plain", "eight", "wide", "detach"}) /\ MaxMishaps \in Nat

VARIABLES
  keyed,   \* the keys, the next one to be read, how they come in
  client,  \* attempt -> where its client is
  frame,   \* attempt -> the keys of the request under way
  ack,     \* attempt -> the answer under way
  handler, \* attempt -> where its thread is
  hosted,  \* the daemon: the seat, the run, the game's connection
  wire,    \* the requests whose bytes reached the game, in order
  ledger,  \* the lines of the file, and of how many keys there is none
  said     \* what the operator was told: keys named NOT SENT, attempts failed

attachVars == <<keyed, client, frame, ack, handler, hosted, wire, ledger, said>>

Nothing == <<>>
AppText == <<0>>                     \* what the guardian's login sends
RowOf(text) == [is |-> "row", text |-> text]
TornLine == [is |-> "torn", text |-> Nothing]   \* the last line has no end
Garbled == [is |-> "garbled", text |-> Nothing] \* two lines in one

AttachInit ==
  /\ \E keys \in Pressings, how \in {"tty", "strict tty", "script"} :
       /\ how = "strict tty" => "eight" \in ToSet(keys) \* elsewhere it is as "tty"
       /\ keyed = [keys |-> keys, next |-> 1, how |-> how]
  /\ client = [a \in Attempts |-> "off"] /\ handler = [a \in Attempts |-> "none"]
  /\ frame = [a \in Attempts |-> Nothing] /\ ack = [a \in Attempts |-> "none"]
  /\ \E run \in {"none", "running"} :
       hosted = [up |-> TRUE, seat |-> 0, run |-> run, online |-> TRUE, last |-> Nothing, kills |-> 0, replays |-> 0]
  /\ wire = <<>> /\ ledger = [lines |-> <<>>, unwritten |-> 0]
  /\ said = [unsent |-> {}, timedOut |-> {}, failed |-> {}]

AllPressed == keyed.next > Len(keyed.keys)
Key == IF AllPressed THEN "detach" ELSE keyed.keys[keyed.next] \* the end of the input is as Ctrl-]
EndsFailed(a) == client' = [client EXCEPT ![a] = "closed"] /\ said' = [said EXCEPT !.failed = @ \cup {a}]
GoneEarlier(a) == \A b \in Attempts : b < a => client[b] = "closed"

-------------------------------------------------------------------------------
(* The client                                                              *)

\* connect: the request to attach, the first line of its connection.
AsksToAttach(a) ==
  /\ client[a] = "off" /\ GoneEarlier(a) /\ hosted.up /\ ~AllPressed
  /\ keyed.how = "script" => a = 1
  /\ client' = [client EXCEPT ![a] = "asking"] /\ handler' = [handler EXCEPT ![a] = "asked"]
  /\ UNCHANGED <<keyed, frame, ack, hosted, wire, ledger, said>>

HearsIfAttached(a) ==
  /\ client[a] = "asking" /\ (ack[a] # "none" \/ handler[a] = "gone")
  /\ IF ack[a] = "ok" THEN client' = [client EXCEPT ![a] = "reading"] /\ UNCHANGED said ELSE EndsFailed(a)
  /\ ack' = [ack EXCEPT ![a] = "none"]
  /\ UNCHANGED <<keyed, frame, handler, hosted, wire, ledger>>

\* Whether the terminal's input cannot be read further, though it is a byte that
\* the game takes: stdin could not be made to keep what it cannot decode.
Undecodable(k) == k = "eight" /\ keyed.how = "strict tty"

\* Whether the key has a form of 8 bits.
Encoded(k) == k # "wide"

\* One key, and an answer before the next.
SendsKey(a) ==
  /\ client[a] = "reading" /\ keyed.how # "script"
  /\ Key # "detach" /\ ~Undecodable(Key) /\ Encoded(Key)
  /\ frame' = [frame EXCEPT ![a] = <<keyed.next>>] /\ client' = [client EXCEPT ![a] = "waiting"]
  /\ UNCHANGED <<keyed, ack, handler, hosted, wire, ledger, said>>
RefusesKey(a) ==
  /\ client[a] = "reading" /\ keyed.how # "script"
  /\ Key # "detach" /\ ~Encoded(Key)
  /\ keyed' = [keyed EXCEPT !.next = @ + 1] /\ said' = [said EXCEPT !.unsent = @ \cup {keyed.next}]
  /\ UNCHANGED <<client, frame, ack, handler, hosted, wire, ledger>>
Detached(a) ==
  /\ client[a] = "reading" /\ Key = "detach" /\ (keyed.how = "script" => AllPressed)
  /\ client' = [client EXCEPT ![a] = "closed"]
  /\ UNCHANGED <<keyed, frame, ack, handler, hosted, wire, ledger, said>>
LosesInput(a) ==
  /\ client[a] = "reading" /\ Undecodable(Key)
  /\ EndsFailed(a)
  /\ UNCHANGED <<keyed, frame, ack, handler, hosted, wire, ledger>>

\* --keys: all of them in one request, or none.
SendsScript(a) ==
  /\ client[a] = "reading" /\ keyed.how = "script" /\ ~AllPressed
  /\ IF \A i \in DOMAIN keyed.keys : Encoded(keyed.keys[i])
     THEN /\ frame' = [frame EXCEPT ![a] = [i \in DOMAIN keyed.keys |-> i]]
          /\ client' = [client EXCEPT ![a] = "waiting"]
          /\ UNCHANGED said
     ELSE EndsFailed(a) /\ UNCHANGED frame
  /\ UNCHANGED <<keyed, ack, handler, hosted, wire, ledger>>

DeliveredAnyhow(a) == TRUE
Delivered(a) == ack[a] = "ok"
\* send_key: answered, or the connection ended.
HearsOfKey(a) ==
  /\ client[a] = "waiting" /\ (ack[a] # "none" \/ handler[a] = "gone")
  /\ ack' = [ack EXCEPT ![a] = "none"]
  /\ IF Delivered(a)
     THEN /\ keyed' = [keyed EXCEPT !.next = IF @ = 1 /\ keyed.how = "script" THEN Len(keyed.keys) + 1 ELSE @ + 1]
          /\ client' = [client EXCEPT ![a] = "reading"] /\ UNCHANGED said
     ELSE EndsFailed(a) /\ UNCHANGED keyed
  /\ UNCHANGED <<frame, handler, hosted, wire, ledger>>
\* _SOCKET_TIMEOUT_S: "keystrokes are NOT reaching the game".
GivesUpOnKey(a) ==
  /\ client[a] = "waiting" /\ ack[a] = "none" /\ handler[a] \in {"fence", "unblock", "sending", "sent"}
  /\ client' = [client EXCEPT ![a] = "closed"]
  /\ said' = [said EXCEPT !.failed = @ \cup {a}, !.timedOut = @ \cup {a}]
  /\ UNCHANGED <<keyed, frame, ack, handler, hosted, wire, ledger>>

-------------------------------------------------------------------------------
(* The connection's thread                                                 *)

MayTakeAnyhow == TRUE
MayTake == hosted.seat = 0
\* take_human, which fences the run it preempts; a refused request ends there.
TakesSeat(a) ==
  /\ handler[a] = "asked"
  /\ ack' = [ack EXCEPT ![a] = IF MayTake THEN "ok" ELSE "refused"]
  /\ handler' = [handler EXCEPT ![a] = IF MayTake THEN "reading" ELSE "gone"]
  /\ hosted' = IF MayTake THEN [hosted EXCEPT !.seat = a, !.run = IF @ = "running" THEN "fenced" ELSE @] ELSE hosted
  /\ UNCHANGED <<keyed, client, frame, wire, ledger, said>>

ReadsRequest(a) ==
  /\ handler[a] = "reading" /\ frame[a] # Nothing
  /\ handler' = [handler EXCEPT ![a] = "fence"]
  /\ UNCHANGED <<keyed, client, frame, ack, hosted, wire, ledger, said>>

\* send_raw's wait for the fence: over, or over its bound, when the socket is shut
\* so that the run may unwind; and after a second bound the key goes all the same.
FenceDown(a) ==
  /\ handler[a] \in {"fence", "unblock"} /\ hosted.run # "fenced"
  /\ handler' = [handler EXCEPT ![a] = "sending"]
  /\ UNCHANGED <<keyed, client, frame, ack, hosted, wire, ledger, said>>
WaitsTooLong(a) ==
  /\ handler[a] \in {"fence", "unblock"} /\ hosted.run = "fenced"
  /\ handler' = [handler EXCEPT ![a] = IF @ = "fence" THEN "unblock" ELSE "sending"]
  /\ hosted' = [hosted EXCEPT !.online = @ /\ handler[a] # "fence"]
  /\ UNCHANGED <<keyed, client, frame, ack, wire, ledger, said>>

PutsOnWire(a) ==
  /\ handler[a] = "sending" /\ hosted.online
  /\ wire' = Append(wire, frame[a]) /\ hosted' = [hosted EXCEPT !.last = frame[a]]
  /\ handler' = [handler EXCEPT ![a] = "sent"]
  /\ UNCHANGED <<keyed, client, frame, ack, ledger, said>>
FailedSendRecorded == "sent"
FailedSendNext == "leaving"
KeySendRaises(a) ==
  /\ handler[a] = "sending" /\ ~hosted.online
  /\ handler' = [handler EXCEPT ![a] = FailedSendNext]
  /\ UNCHANGED <<keyed, client, frame, ack, hosted, wire, ledger, said>>

\* LedgerWriter.append: after a torn line it continues that line.
Appended(line) ==
  IF ledger.lines # <<>> /\ Last(ledger.lines) = TornLine
  THEN Append(Front(ledger.lines), IF line = TornLine THEN TornLine ELSE Garbled)
  ELSE Append(ledger.lines, line)
\* record_attach_keystroke, of what session.last_sent is by now; a failure is
\* swallowed.
RecordsKey(a) ==
  /\ handler[a] = "sent"
  /\ \/ ledger' = [ledger EXCEPT !.lines = Appended(RowOf(hosted.last))]
     \/ ledger' = [ledger EXCEPT !.unwritten = @ + 1]
  /\ handler' = [handler EXCEPT ![a] = "answering"]
  /\ UNCHANGED <<keyed, client, frame, ack, hosted, wire, said>>
\* The ack, or a write into a closed connection.
AnswersKey(a) ==
  /\ handler[a] = "answering"
  /\ frame' = [frame EXCEPT ![a] = Nothing]
  /\ IF client[a] = "closed"
     THEN handler' = [handler EXCEPT ![a] = "leaving"] /\ UNCHANGED ack
     ELSE handler' = [handler EXCEPT ![a] = "reading"] /\ ack' = [ack EXCEPT ![a] = "ok"]
  /\ UNCHANGED <<keyed, client, hosted, wire, ledger, said>>
HearsEnd(a) ==
  /\ handler[a] = "reading" /\ frame[a] = Nothing /\ client[a] = "closed"
  /\ handler' = [handler EXCEPT ![a] = "leaving"]
  /\ UNCHANGED <<keyed, client, frame, ack, hosted, wire, ledger, said>>
SeatAfterAnswered(a) == IF frame[a] = Nothing THEN 0 ELSE hosted.seat
SeatAfter(a) == 0
\* The finally: release_human.
Released(a) ==
  /\ handler[a] = "leaving"
  /\ handler' = [handler EXCEPT ![a] = "gone"] /\ hosted' = [hosted EXCEPT !.seat = SeatAfter(a)]
  /\ UNCHANGED <<keyed, client, frame, ack, wire, ledger, said>>

-------------------------------------------------------------------------------
(* What else happens in the daemon and to it                               *)

RunBegins ==
  /\ hosted.up /\ hosted.seat = 0 /\ hosted.run = "none"
  /\ hosted' = [hosted EXCEPT !.run = "running"]
  /\ UNCHANGED <<keyed, client, frame, ack, handler, wire, ledger, said>>
RunUnwinds ==
  /\ hosted.run # "none"
  /\ hosted' = [hosted EXCEPT !.run = "none"]
  /\ UNCHANGED <<keyed, client, frame, ack, handler, wire, ledger, said>>
ConnectionLost ==
  /\ hosted.online
  /\ hosted' = [hosted EXCEPT !.online = FALSE]
  /\ UNCHANGED <<keyed, client, frame, ack, handler, wire, ledger, said>>
\* The guardian logs in again.
Replayed ==
  /\ hosted.up /\ ~hosted.online /\ hosted.kills + hosted.replays < MaxMishaps
  /\ hosted' = [hosted EXCEPT !.online = TRUE, !.last = AppText, !.replays = @ + 1]
  /\ UNCHANGED <<keyed, client, frame, ack, handler, wire, ledger, said>>
\* The daemon is killed, perhaps while a line is being written.
DaemonKilled ==
  /\ hosted.up /\ hosted.kills + hosted.replays < MaxMishaps
  /\ \/ UNCHANGED ledger
     \/ /\ \E a \in Attempts : handler[a] = "sent"
        /\ ledger' = [ledger EXCEPT !.lines = Appended(TornLine)]
  /\ hosted' = [hosted EXCEPT !.up = FALSE, !.seat = 0, !.run = "none", !.online = FALSE, !.kills = @ + 1]
  /\ handler' = [a \in Attempts |-> IF handler[a] = "none" THEN "none" ELSE "gone"]
  /\ UNCHANGED <<keyed, client, frame, ack, wire, said>>
DaemonRestarted ==
  /\ ~hosted.up
  /\ hosted' = [hosted EXCEPT !.up = TRUE, !.online = TRUE, !.last = AppText]
  /\ UNCHANGED <<keyed, client, frame, ack, handler, wire, ledger, said>>

HandlerStep(a) ==
  \/ TakesSeat(a) \/ ReadsRequest(a) \/ FenceDown(a) \/ WaitsTooLong(a) \/ PutsOnWire(a) \/ KeySendRaises(a)
  \/ RecordsKey(a) \/ AnswersKey(a) \/ HearsEnd(a) \/ Released(a)
ClientStep(a) ==
  \/ AsksToAttach(a) \/ HearsIfAttached(a) \/ SendsKey(a) \/ RefusesKey(a) \/ Detached(a) \/ LosesInput(a)
  \/ SendsScript(a) \/ HearsOfKey(a) \/ GivesUpOnKey(a)
AttachNext ==
  \/ \E a \in Attempts : HandlerStep(a) \/ ClientStep(a)
  \/ RunBegins \/ RunUnwinds \/ ConnectionLost \/ Replayed \/ DaemonKilled \/ DaemonRestarted

AttachSpec == AttachInit /\ [][AttachNext]_attachVars

-------------------------------------------------------------------------------
AttachTypeOK ==
  /\ \A a \in Attempts : /\ client[a] \in {"off", "asking", "reading", "waiting", "closed"}
                         /\ ack[a] \in {"none", "ok", "refused"}
  /\ hosted.seat \in Attempts \cup {0} /\ keyed.next \in 1..(Len(keyed.keys) + 1)

OnWire == UNION {ToSet(wire[i]) : i \in DOMAIN wire}

\* A key that outlives its client reaches the game before any key of the next
\* attachment: the seat is the dead client's until its thread has sent it
\* (take_human refuses, the finally of _handle_attach releases).
KeysInOrder ==
  \A i, j \in DOMAIN wire : i < j => Last(wire[i]) <= Head(wire[j])

\* What was answered or passed over is accounted for, each key either sent or
\* named NOT SENT; of the others none was sent, but the one under way and what
\* a timeout or a kill misreported; and a client ends well only when it read all
\* there was to read (cmd_attach: the exit code is honest about delivery).
KeysAccounted ==
  /\ \A i \in 1..(keyed.next - 1) : (i \in OnWire) # (i \in said.unsent)
  /\ (\A a \in Attempts : client[a] # "waiting") /\ said.timedOut = {} /\ hosted.kills = 0
       => \A i \in OnWire : i < keyed.next
  /\ \A a \in Attempts : client[a] = "closed" /\ a \notin said.failed => Key = "detach"

\* A key is sent twice only if it was wrongly told to be lost.
KeysOnce ==
  Len(wire) > Cardinality({wire[i] : i \in DOMAIN wire}) => said.timedOut # {} \/ hosted.kills > 0

\* Each request on the wire has its line, but the one being recorded and what a
\* failed write or a kill lost, two lines for a kill at most; and a line tells
\* its own keys, unless the guardian sent something before it was written.
RowsKept ==
  LET rows == {i \in DOMAIN ledger.lines : ledger.lines[i].is = "row"}
      due == Len(wire) - ledger.unwritten - Cardinality({a \in Attempts : handler[a] = "sent"})
  IN /\ Cardinality(rows) <= due /\ due <= Cardinality(rows) + 2 * hosted.kills
     /\ \A i \in rows : ledger.lines[i].text \in ToSet(wire) \cup {AppText}
     /\ Cardinality({i \in rows : ledger.lines[i].text = AppText}) <= hosted.replays

AttachSound == KeysInOrder /\ KeysAccounted /\ KeysOnce /\ RowsKept

\* A client that has gone gives the seat back, however it went (a crashed attach
\* cannot wedge the human mode, _handle_attach).
SeatReturned == \A a \in Attempts : client[a] = "closed" ~> hosted.seat # a
===============================================================================

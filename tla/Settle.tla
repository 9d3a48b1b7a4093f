-------------------------------- MODULE Settle --------------------------------
(***************************************************************************)
(* Send, wait, decide whether the send landed (session/settle.py).  The    *)
(* game answers a send in chunks; the reader counts them and repaints the  *)
(* screen.  A chunk of an earlier send may still be under way when the     *)
(* next send goes out: the counter cannot tell whose answer it is.         *)
(*                                                                         *)
(* Time is two facts: no byte for debounce_ms (quiet), and timeout_s gone  *)
(* (expired).  Both may become true at any moment the clock allows.        *)
(***************************************************************************)
EXTENDS Naturals, Sequences

CONSTANTS
  MaxChunks,  \* chunks the game may send in answer to one send
  MaxStale    \* chunks of earlier sends that may be under way

ASSUME SettleAssumption == MaxChunks \in Nat /\ MaxStale \in Nat

\* SETTLE_PROFILES: positive_shape matches a prompt, the other two wait for
\* silence, and warp_unstable waits again when the silence breaks.
Profiles == {"positive_shape", "stable_idle", "warp_unstable"}

VARIABLES
  profile, \* the caller's profile
  caller,  \* where send_and_confirm is
  due,     \* chunks under way: whose answer, and whether the screen then matches
  rx,      \* rx_count, from the state the model starts in
  match,   \* confirm_prompt matches the screen
  quiet,   \* now - last_rx >= debounce
  expired, \* elapsed >= timeout_s
  atSend,  \* rx_at_send
  atCall,  \* start_rx_count of the running wait_for_settle
  atIdle,  \* rx_at_settle
  result,  \* [reason, confirmed]
  answered,\* a chunk of this send's answer has arrived (history)
  crossed  \* chunks of earlier sends were under way at the send (history)

settleVars == <<profile, caller, due, rx, match, quiet, expired, atSend, atCall,
                atIdle, result, answered, crossed>>
waitVars == <<profile, atSend, atCall, atIdle, crossed>>
gameSide == <<due, rx, match, answered>>

Chunks == [mine : BOOLEAN, matches : BOOLEAN]
Answers(n) == UNION {[1..k -> {c \in Chunks : c.mine}] : k \in 0..n}
Stale(n) == UNION {[1..k -> {c \in Chunks : ~c.mine}] : k \in 0..n}
NoResult == [reason |-> "none", confirmed |-> FALSE]

SettleInit ==
  /\ profile = "stable_idle" /\ caller = "idle" /\ due = <<>> /\ rx = 1
  /\ match = FALSE /\ quiet = TRUE /\ expired = FALSE
  /\ atSend = 0 /\ atCall = 0 /\ atIdle = 0 /\ result = NoResult
  /\ answered = FALSE /\ crossed = FALSE

\* send_and_confirm up to its session.send: rx_at_send is read before the send.
Calls(p) ==
  /\ caller = "idle"
  /\ \E stale \in Stale(MaxStale), m \in BOOLEAN :
       due' = stale /\ crossed' = (stale # <<>>) /\ match' = m
  /\ profile' = p /\ caller' = "sending" /\ atSend' = rx
  /\ UNCHANGED <<rx, quiet, expired, atCall, atIdle, result, answered>>

\* The reader thread: one chunk painted, counted and timed.
ChunkArrives ==
  /\ due # <<>>
  /\ due' = Tail(due) /\ rx' = rx + 1 /\ quiet' = FALSE
  /\ match' = Head(due).matches
  /\ answered' = (answered \/ Head(due).mine)
  /\ UNCHANGED <<waitVars, caller, expired, result>>

DebouncePasses ==
  /\ ~quiet /\ quiet' = TRUE
  /\ UNCHANGED <<waitVars, gameSide, caller, expired, result>>

TimeoutPasses ==
  /\ caller \notin {"idle", "sending", "over"} /\ ~expired /\ expired' = TRUE
  /\ UNCHANGED <<waitVars, gameSide, caller, quiet, result>>

Returns(reason, confirmed) ==
  /\ caller' = "over" /\ result' = [reason |-> reason, confirmed |-> confirmed]
  /\ UNCHANGED <<waitVars, gameSide, quiet, expired>>

GoesTo(step) ==
  /\ caller' = step
  /\ UNCHANGED <<waitVars, gameSide, quiet, expired, result>>

\* session.send: it returns, or raises on a connection that is down.
Sends ==
  /\ caller = "sending"
  /\ \/ Returns("raised", FALSE)
     \/ /\ \E answer \in Answers(MaxChunks) : due' = due \o answer
        /\ caller' = "sent"
        /\ UNCHANGED <<waitVars, rx, match, quiet, expired, result, answered>>

\* The head of the loop: out of time, or a call of wait_for_settle begins and
\* reads the counter anew.
WaitBegins ==
  /\ caller = "sent"
  /\ \/ expired /\ Returns("timeout", FALSE)
     \/ /\ ~expired /\ atCall' = rx
        /\ caller' = IF profile = "positive_shape" THEN "matching" ELSE "first idle"
        /\ UNCHANGED <<profile, atSend, atIdle, crossed, gameSide, quiet, expired, result>>

PollsPromptAsPainted ==
  /\ caller = "matching"
  /\ \/ match /\ GoesTo("match pause")
     \/ ~match /\ expired /\ Returns("timeout", FALSE)
     \/ ~match /\ ~expired /\ rx > atCall /\ quiet /\ GoesTo("sent")
\* One poll of wait_for_settle for a prompt.  A match without a byte since the
\* send polls on; silence before a match starts the wait again.
PollsPrompt ==
  /\ caller = "matching"
  /\ \/ match /\ rx > atSend /\ GoesTo("match pause")
     \/ match /\ rx <= atSend /\ expired /\ Returns("timeout", FALSE)
     \/ ~match /\ expired /\ Returns("timeout", FALSE)
     \/ ~match /\ ~expired /\ rx > atCall /\ quiet /\ GoesTo("sent")

RematchesBlindly == caller = "match pause" /\ Returns("prompt", TRUE)
\* The stability pause over, the prompt is matched a second time.
RematchesPrompt ==
  /\ caller = "match pause"
  /\ Returns("prompt", match)

PollsIdleForever ==
  /\ caller \in {"first idle", "next idle"}
  /\ quiet /\ (caller = "first idle" => rx > atCall)
  /\ caller' = "idle pause" /\ atIdle' = rx
  /\ UNCHANGED <<profile, atSend, atCall, crossed, gameSide, quiet, expired, result>>
\* The first wait for silence asks for a byte since the call, the later ones
\* (wait_until_settled) only for silence.
PollsIdle ==
  /\ caller \in {"first idle", "next idle"}
  /\ \/ expired /\ Returns("timeout", FALSE)
     \/ /\ ~expired /\ quiet /\ (caller = "first idle" => rx > atCall)
        /\ caller' = "idle pause" /\ atIdle' = rx
        /\ UNCHANGED <<profile, atSend, atCall, crossed, gameSide, quiet, expired, result>>

ChecksIdle ==
  /\ caller = "idle pause"
  /\ \/ rx = atIdle /\ Returns("idle", TRUE)
     \/ rx # atIdle /\ profile = "stable_idle" /\ Returns("idle", FALSE)
     \/ rx # atIdle /\ profile = "warp_unstable" /\ ~expired /\ GoesTo("next idle")
     \/ rx # atIdle /\ profile = "warp_unstable" /\ expired /\ Returns("timeout", FALSE)

CallerStep == Sends \/ WaitBegins \/ PollsPrompt \/ RematchesPrompt \/ PollsIdle \/ ChecksIdle

SettleNext ==
  \/ \E p \in Profiles : Calls(p)
  \/ CallerStep
  \/ ChunkArrives
  \/ DebouncePasses
  \/ TimeoutPasses
SettleSpec == SettleInit /\ [][SettleNext]_settleVars

-------------------------------------------------------------------------------
SettleTypeOK ==
  /\ profile \in Profiles
  /\ caller \in {"idle", "sending", "sent", "matching", "match pause", "first idle",
                 "next idle", "idle pause", "over"}
  /\ due \in Seq(Chunks) /\ rx \in Nat /\ atSend \in Nat /\ atCall \in Nat /\ atIdle \in Nat
  /\ {match, quiet, expired, answered, crossed} \subseteq BOOLEAN
  /\ result.confirmed \in BOOLEAN

\* A send is reported as confirmed only when the game has begun to answer it,
\* unless bytes of an earlier send were still under way when it went out: the
\* old prompt on the screen, or silence before the first byte, confirm nothing
\* (send_and_confirm's two anti-desync rules).
ConfirmedIsAnswered == result.confirmed /\ ~crossed => answered

\* A confirmed match is a match twice: at the instant the caller is told, the
\* screen shows the prompt it asked for (the re-check after the pause).
ConfirmedStillMatches ==
  result' # result /\ result'.confirmed /\ profile = "positive_shape" => match

\* Every send is decided: an answer, a timeout or instability ends the wait.
SendDecided == caller = "sending" ~> caller = "over"
===============================================================================

------------------------------- MODULE WireLog -------------------------------
(***************************************************************************)
(* What the session writes down about the wire: the transcript log         *)
(* (connection.py), the tail and last_sent (session.py).  A secret is sent *)
(* by the login or typed by the human at a prompt that asks for one; its   *)
(* echo comes back through the reader thread, which knows of it by a flag  *)
(* the sending thread sets AFTER its sendall has returned.                 *)
(***************************************************************************)
EXTENDS Naturals, Sequences

CONSTANTS
  MaxTexts, \* text sends of a run
  MaxDue    \* chunks that may be under way

ASSUME WireLogAssumption == MaxTexts \in Nat /\ MaxDue \in Nat

VARIABLES
  writer,  \* the thread that holds send_lock: "free", "sending", "wired"
  text,    \* its send: [kind, secret]
  texts,   \* text sends so far
  inbound, \* chunks under way from the game
  prompt,  \* the prompt line on the screen asks for a secret
  flag,    \* _redact_rx
  lost,    \* the last send failed
  raced,   \* an echo came in before its send was written down (history)
  later,   \* a send went out with a secret's echo under way (history)
  clear    \* where a secret was written in clear (history)

wireLogVars == <<writer, text, texts, inbound, prompt, flag, lost, raced, later, clear>>

\* send(): the caller says whether the text is a secret.  send_raw(): the
\* prompt line says it for the human's keys.
Texts == [kind : {"send", "send_raw"}, secret : BOOLEAN]
\* A chunk echoes a secret or not, looks like a secret prompt by itself
\* (should_redact_rx), and may ask for a telnet option.
Chunk == [echo : BOOLEAN, asks : BOOLEAN, option : BOOLEAN]

WireLogInit ==
  /\ writer = "free" /\ text = [kind |-> "send", secret |-> FALSE] /\ texts = 0
  /\ inbound = <<>> /\ prompt = FALSE /\ flag = FALSE
  /\ lost = FALSE /\ raced = FALSE /\ later = FALSE /\ clear = {}

EchoUnderWay == \E i \in DOMAIN inbound : inbound[i].echo

\* A send takes the lock.  The human's keys are secret when the prompt is.
SendBegins(kind) ==
  /\ writer = "free" /\ texts < MaxTexts
  /\ \E secret \in BOOLEAN :
       /\ kind = "send_raw" => secret = prompt
       /\ text' = [kind |-> kind, secret |-> secret]
  /\ writer' = "sending" /\ texts' = texts + 1
  /\ later' = (later \/ EchoUnderWay)
  /\ UNCHANGED <<inbound, prompt, flag, lost, raced, clear>>

\* sendall: the bytes are on the wire and the game may answer at once; or it
\* raises with some of them out.
SendsAll ==
  /\ writer = "sending"
  /\ lost' \in BOOLEAN
  /\ inbound' \in {inbound} \cup
       (IF Len(inbound) < MaxDue
        THEN {Append(inbound, c) : c \in {d \in Chunk : d.echo => text.secret}} ELSE {})
  /\ writer' = "wired"
  /\ UNCHANGED <<text, texts, prompt, flag, raced, later, clear>>

\* The places a text send is written to: the log, the tail, and last_sent,
\* which a failed send does not touch.  A secret is written as a note.
WrittenInTail(places) == IF text.secret THEN places \ {"log"} ELSE places
Written(places) == IF text.secret THEN {} ELSE places
WritesDown ==
  /\ writer = "wired"
  /\ flag' = text.secret
  /\ LET places == Written({"log", "tail"} \cup (IF lost THEN {} ELSE {"last_sent"}))
     IN clear' = IF text.secret THEN clear \cup places ELSE clear
  /\ writer' = "free"
  /\ UNCHANGED <<text, texts, inbound, prompt, lost, raced, later>>

\* The reader: logs the chunk, paints it, and answers an option by itself; the
\* answer is logged too, and leaves the flag alone.
LogsReplyAsText(option) == flag' = (flag /\ ~option)
LogsReply(option) == UNCHANGED flag
ReaderReads ==
  /\ inbound # <<>>
  /\ LET c == Head(inbound)
     IN /\ clear' = IF c.echo /\ ~flag /\ ~c.asks THEN clear \cup {"echo"} ELSE clear
        /\ raced' = (raced \/ (c.echo /\ writer # "free"))
        /\ prompt' = c.asks
        /\ LogsReply(c.option)
  /\ inbound' = Tail(inbound)
  /\ UNCHANGED <<writer, text, texts, lost, later>>

\* The game speaks unasked.
GameSpeaks ==
  /\ Len(inbound) < MaxDue
  /\ \E c \in {d \in Chunk : ~d.echo} : inbound' = Append(inbound, c)
  /\ UNCHANGED <<writer, text, texts, prompt, flag, lost, raced, later, clear>>

WireLogNext ==
  \/ \E kind \in {"send", "send_raw"} : SendBegins(kind)
  \/ SendsAll
  \/ WritesDown
  \/ ReaderReads
  \/ GameSpeaks
WireLogSpec == WireLogInit /\ [][WireLogNext]_wireLogVars

-------------------------------------------------------------------------------
WireLogTypeOK ==
  /\ writer \in {"free", "sending", "wired"} /\ text \in Texts
  /\ texts \in 0..MaxTexts /\ inbound \in Seq(Chunk) /\ Len(inbound) <= MaxDue
  /\ {prompt, flag, lost, raced, later} \subseteq BOOLEAN
  /\ clear \subseteq {"log", "tail", "last_sent", "echo"}

\* A secret is never written down in clear by the thread that sends it, whether
\* the send succeeds or dies half way, into the log, the tail or last_sent.
SecretNotWritten == clear \subseteq {"echo"}

\* The echo of a secret is redacted, through option negotiation in between,
\* unless it overtook the flag or another text send had taken the flag away.
EchoRedacted == "echo" \in clear => raced \/ later

\* No secret is in the log, neither as it was sent nor as it was echoed.
SecretsRedacted == SecretNotWritten /\ EchoRedacted
===============================================================================

--------------------------- MODULE Reconnection ---------------------------
(***************************************************************************)
(* Losing the telnet connection and getting it back.  Two threads do it:   *)
(* the SessionGuardian's poll, which replays the login after a drop and    *)
(* nudges an idle session, and an ensure dispatch, which repairs the       *)
(* connection and logs in for a client.  Both go through the same steps of *)
(* Session.reconnect() and login.run_login().  The guardian takes no       *)
(* control lock: nothing keeps the two apart, and nothing makes the game   *)
(* answer before the next input.  Two history variables remember the       *)
(* interleavings the code leaves to luck, and the safety properties say    *)
(* what holds until one of them has happened.                              *)
(*                                                                         *)
(* The login is kept down to the prompts the properties tell apart.  Left  *)
(* out: registration of a new character, the ship-info probe after a       *)
(* successful ensure, and the identity check of profile against session.   *)
(***************************************************************************)
EXTENDS Naturals, Sequences

CONSTANTS
  MaxReconnectAttempts,  \* attempts in one burst of the guardian
  MaxSockets,            \* bound: telnet sockets up at once; a closed one's number is used again
  MaxUnanswered          \* bound: inputs on a socket the game has not answered yet

ASSUME ReconnectionAssumption ==
  /\ MaxReconnectAttempts \in Nat \ {0}
  /\ MaxSockets \in Nat \ {0}
  /\ MaxUnanswered \in Nat \ {0}

Sockets == 1..MaxSockets
Threads == {"guardian", "ensure"}
\* Where the game's end of a socket stands: "stuck" is a screen the login has
\* no answer for.
Prompts == {"door", "password", "command", "stuck"}
Inputs == {"name", "password", "enter"}

VARIABLES
  open,       \* sockets up at both ends
  prompt,     \* socket -> the game's prompt
  unanswered, \* socket -> inputs on their way to the game
  conn,       \* Session.conn: its socket, 0 before connect(), its connected flag,
              \* and whether it was closed before its connect()
  armed,      \* auto_login_profile is set
  exhausted,  \* reconnect_exhausted
  attempt,    \* attempt of the guardian's burst, 0 outside it
  tickError,  \* last_reconnect_error is a guardian_tick_error
  stopped,    \* the daemon has been shut down
  thread,     \* thread -> phase, and whether this login has sent the password
  raced,      \* history: both threads have been in Session.reconnect() at once
  blind       \* history: a thread read a screen with an input still unanswered,
              \* or the wire was used between another's read and its send

wireVars == <<open, prompt, unanswered>>
flagVars == <<armed, exhausted, attempt, tickError, stopped>>
pastVars == <<raced, blind>>
vars == <<open, prompt, unanswered, conn, armed, exhausted, attempt,
          tickError, stopped, thread, raced, blind>>

Phases == {"idle", "nudging", "closing", "replacing", "connecting",
           "reading", "naming", "typing", "settling", "failed"}

Init ==
  /\ open = {1}
  /\ prompt = [s \in Sockets |-> "door"]
  /\ unanswered = [s \in Sockets |-> <<>>]
  /\ conn = [sock |-> 1, connected |-> TRUE, stillborn |-> FALSE]
  /\ armed = FALSE
  /\ exhausted = FALSE
  /\ attempt = 0
  /\ tickError = FALSE
  /\ stopped = FALSE
  /\ raced = FALSE
  /\ blind = FALSE
  /\ thread = [t \in Threads |-> [phase |-> "idle", sent |-> FALSE]]

TypeOK ==
  /\ open \subseteq Sockets
  /\ prompt \in [Sockets -> Prompts]
  /\ unanswered \in [Sockets -> Seq(Inputs)]
  /\ conn \in [sock : 0..MaxSockets, connected : BOOLEAN, stillborn : BOOLEAN]
  /\ armed \in BOOLEAN
  /\ exhausted \in BOOLEAN
  /\ attempt \in 0..MaxReconnectAttempts
  /\ tickError \in BOOLEAN
  /\ stopped \in BOOLEAN
  /\ raced \in BOOLEAN
  /\ blind \in BOOLEAN
  /\ thread \in [Threads -> [phase : Phases, sent : BOOLEAN]]

\* What a login has sent is forgotten with it.
Goes(t, p) ==
  thread' = [thread EXCEPT ![t] =
    [phase |-> p, sent |-> @.sent /\ p \in {"reading", "naming", "typing"}]]

\* What run_login and the guardian see: a blank terminal until the first
\* connect, then the game's prompt; it stays when the socket goes.  Nothing
\* is read from a stillborn connection.
Shown == IF conn.sock = 0 \/ conn.stillborn THEN "stuck" ELSE prompt[conn.sock]

\* The game has not answered all of its input yet.
Owes == conn.sock # 0 /\ unanswered[conn.sock] # <<>>

\* Another thread is between its read of the screen and its send.
Deciding(t) ==
  \E u \in Threads \ {t} : thread[u].phase \in {"naming", "typing", "nudging"}

\* Another thread is in Session.reconnect().
Repairing(t) ==
  \E u \in Threads \ {t} : thread[u].phase \in {"closing", "replacing", "connecting"}

\* Past the bound an input is not kept.
Types(s, input) ==
  unanswered' = [unanswered EXCEPT ![s] =
                   IF Len(@) < MaxUnanswered THEN Append(@, input) ELSE @]

-----------------------------------------------------------------------------
(* The game and the network *)

Answers == {<<"door", "name", "password">>, <<"door", "name", "stuck">>,
            <<"door", "password", "password">>, <<"door", "enter", "door">>,
            <<"password", "password", "command">>, <<"password", "password", "password">>,
            <<"password", "password", "stuck">>,
            <<"password", "name", "password">>, <<"password", "name", "door">>,
            <<"password", "enter", "password">>,
            <<"command", "enter", "command">>, <<"command", "name", "stuck">>,
            <<"command", "password", "stuck">>,
            <<"stuck", "enter", "stuck">>, <<"stuck", "name", "stuck">>,
            <<"stuck", "password", "stuck">>}

GameAnswers(s) ==
  /\ s \in open
  /\ unanswered[s] # <<>>
  /\ \E next \in Prompts :
       /\ <<prompt[s], Head(unanswered[s]), next>> \in Answers
       /\ prompt' = [prompt EXCEPT ![s] = next]
  /\ unanswered' = [unanswered EXCEPT ![s] = Tail(@)]
  /\ UNCHANGED <<open, conn, flagVars, thread, pastVars>>

GoesDown(s) ==
  /\ open' = open \ {s}
  /\ unanswered' = [r \in Sockets |-> IF r = s THEN <<>> ELSE unanswered[r]]

PeerDrops(s) ==
  /\ s \in open
  /\ GoesDown(s)
  /\ UNCHANGED <<prompt, conn, flagVars, thread, pastVars>>

\* Mutated form: a reader that dies of an exception leaves the flag up.
ReaderEndsUnsaid ==
  /\ conn.connected
  /\ conn.sock \notin open \/ conn.stillborn
  /\ UNCHANGED conn
  /\ UNCHANGED <<wireVars, flagVars, thread, pastVars>>

\* The reader thread of the current connection comes to its end: the socket
\* is gone, or _stop was set before the thread began.
ReaderEnds ==
  /\ conn.connected
  /\ conn.sock \notin open \/ conn.stillborn
  /\ conn' = [conn EXCEPT !.connected = FALSE]
  /\ UNCHANGED <<wireVars, flagVars, thread, pastVars>>

\* A close that comes before connect() has only _stop to set: the connect
\* goes ahead and its reader ends at once.
CloseConnection ==
  /\ GoesDown(conn.sock)
  /\ conn' = [conn EXCEPT !.connected = FALSE, !.stillborn = @ \/ conn.sock = 0]
  /\ UNCHANGED <<prompt, pastVars>>

\* What the game does with a socket the session has left is not followed.
LeavesSocket ==
  /\ prompt' = [s \in Sockets |-> IF s = conn.sock THEN "door" ELSE prompt[s]]
  /\ unanswered' = [s \in Sockets |-> IF s = conn.sock THEN <<>> ELSE unanswered[s]]

\* The disconnect verb.
Disconnect ==
  /\ CloseConnection
  /\ UNCHANGED <<flagVars, thread, pastVars>>

-----------------------------------------------------------------------------
(* Who begins *)

\* Mutated form: the nudge is decided by the idle clock alone.
TickNudgesAnywhere ==
  /\ thread["guardian"].phase = "idle"
  /\ conn.connected
  /\ exhausted' = FALSE
  /\ \/ Goes("guardian", "nudging") /\ blind' = (blind \/ Owes)
     \/ UNCHANGED <<thread, blind>>
  /\ UNCHANGED <<wireVars, conn, armed, attempt, tickError, stopped, raced>>

\* _tick with the connection up: the sticky flag falls, and a session that
\* has been idle for the whole window at the command prompt gets a nudge.
TickConnected ==
  /\ thread["guardian"].phase = "idle"
  /\ conn.connected
  /\ exhausted' = FALSE
  /\ \/ /\ Shown = "command"
        /\ Goes("guardian", "nudging")
        /\ blind' = (blind \/ Owes)
     \/ UNCHANGED <<thread, blind>>
  /\ UNCHANGED <<wireVars, conn, armed, attempt, tickError, stopped, raced>>

\* The blank Enter; on a dead socket its OSError is swallowed.
Nudges ==
  /\ thread["guardian"].phase = "nudging"
  /\ IF conn.sock \in open
     THEN Types(conn.sock, "enter")
     ELSE UNCHANGED unanswered
  /\ blind' = (blind \/ Deciding("guardian"))
  /\ Goes("guardian", "idle")
  /\ UNCHANGED <<open, prompt, conn, flagVars, raced>>

\* _tick with the connection down: a burst, if there is a login to replay and
\* no earlier burst has used up its attempts.
TickDropped ==
  /\ thread["guardian"].phase = "idle"
  /\ ~conn.connected
  /\ armed
  /\ ~exhausted
  /\ attempt' = 1
  /\ raced' = (raced \/ Repairing("guardian"))
  /\ Goes("guardian", "closing")
  /\ UNCHANGED <<wireVars, conn, armed, exhausted, tickError, stopped, blind>>

EnsureBegins ==
  /\ thread["ensure"].phase = "idle"
  /\ thread' = [thread EXCEPT !["ensure"] =
                  [phase |-> IF conn.connected THEN "reading" ELSE "closing",
                   sent |-> FALSE]]
  /\ raced' = (raced \/ (~conn.connected /\ Repairing("ensure")))
  /\ UNCHANGED <<wireVars, conn, flagVars, blind>>

\* The shutdown stops the guardian, whose burst looks up before its next
\* attempt, and closes the session; what is under way ends with the process,
\* and nothing of it is kept.
ShutsDown ==
  /\ stopped' = TRUE
  /\ open' = {}
  /\ prompt' = [s \in Sockets |-> "door"]
  /\ unanswered' = [s \in Sockets |-> <<>>]
  /\ conn' = [sock |-> 0, connected |-> FALSE, stillborn |-> FALSE]
  /\ armed' = FALSE
  /\ exhausted' = FALSE
  /\ attempt' = 0
  /\ tickError' = FALSE
  /\ thread' = [t \in Threads |-> [phase |-> "idle", sent |-> FALSE]]
  /\ UNCHANGED pastVars

-----------------------------------------------------------------------------
(* Session.reconnect() *)

\* Mutated form: the old connection is left to itself.
LeavesOpen(t) ==
  /\ thread[t].phase = "closing"
  /\ Goes(t, "replacing")
  /\ UNCHANGED <<wireVars, conn, flagVars, pastVars>>

Closes(t) ==
  /\ thread[t].phase = "closing"
  /\ CloseConnection
  /\ Goes(t, "replacing")
  /\ UNCHANGED <<flagVars, pastVars>>

\* The old screen goes with the old connection.
Replaces(t) ==
  /\ thread[t].phase = "replacing"
  /\ LeavesSocket
  /\ conn' = [sock |-> 0, connected |-> FALSE, stillborn |-> FALSE]
  /\ blind' = (blind \/ Deciding(t))
  /\ Goes(t, "connecting")
  /\ UNCHANGED <<open, flagVars, raced>>

Connects(t) ==
  /\ thread[t].phase = "connecting"
  /\ \E s \in Sockets \ open :
       /\ \A r \in Sockets \ open : s <= r
       /\ open' = open \cup {s}
       /\ conn' = [conn EXCEPT !.sock = s, !.connected = TRUE]
  /\ LeavesSocket
  /\ blind' = (blind \/ Deciding(t))
  /\ thread' = [thread EXCEPT ![t] = [phase |-> "reading", sent |-> FALSE]]
  /\ UNCHANGED <<flagVars, raced>>

ConnectFails(t) ==
  /\ thread[t].phase = "connecting"
  /\ Goes(t, "failed")
  /\ UNCHANGED <<wireVars, conn, flagVars, pastVars>>

-----------------------------------------------------------------------------
(* run_login *)

\* Mutated form: the whole screen is searched for the password prompt, and an
\* old one has not scrolled off it.
ReadsScrollback(t) ==
  /\ thread[t].phase = "reading"
  /\ \/ Shown = "door" /\ Goes(t, "naming")
     \/ Shown \in {"door", "password"} /\ ~thread[t].sent /\ Goes(t, "typing")
  /\ blind' = (blind \/ Owes)
  /\ UNCHANGED <<wireVars, conn, flagVars, raced>>

\* One step of the automaton: classify, decide.
ReadsPrompt(t) ==
  /\ thread[t].phase = "reading"
  /\ \/ Shown = "door" /\ Goes(t, "naming")
     \/ Shown = "password" /\ ~thread[t].sent /\ Goes(t, "typing")
  /\ blind' = (blind \/ Owes)
  /\ UNCHANGED <<wireVars, conn, flagVars, raced>>

\* An unknown screen or the password prompt again: after the grace rounds the
\* login gives up.  So it does without a saved password, and when its steps or
\* its unconfirmed rounds are used up.
GivesUp(t) ==
  /\ \/ thread[t].phase = "reading" /\ Shown \in {"stuck", "password"}
     \/ thread[t].phase = "settling"
  /\ Goes(t, "failed")
  /\ UNCHANGED <<wireVars, conn, flagVars, pastVars>>

LoggedIn(t) ==
  /\ thread[t].phase = "reading"
  /\ Shown = "command"
  /\ IF t = "guardian"
     THEN exhausted' = FALSE /\ attempt' = 0 /\ tickError' = FALSE /\ UNCHANGED armed
     ELSE armed' = TRUE /\ UNCHANGED <<exhausted, attempt, tickError>>
  /\ Goes(t, "idle")
  /\ UNCHANGED <<wireVars, conn, stopped, pastVars>>

Sends(t, phase, input) ==
  /\ thread[t].phase = phase
  /\ conn.sock \in open
  /\ Types(conn.sock, input)
  /\ blind' = (blind \/ Deciding(t))
  /\ thread' = [thread EXCEPT ![t] = [phase |-> "settling",
                                      sent |-> @.sent \/ input = "password"]]
  /\ UNCHANGED <<open, prompt, conn, flagVars, raced>>

\* The first send after the peer went may still be accepted by the kernel.
SendIsLost(t) ==
  /\ thread[t].phase \in {"naming", "typing"}
  /\ conn.sock \notin open
  /\ conn.connected
  /\ thread' = [thread EXCEPT ![t] = [phase |-> "settling",
                                      sent |-> @.sent \/ @.phase = "typing"]]
  /\ UNCHANGED <<wireVars, conn, flagVars, pastVars>>

SendRaises(t) ==
  /\ thread[t].phase \in {"naming", "typing"}
  /\ conn.sock \notin open
  /\ Goes(t, "failed")
  /\ UNCHANGED <<wireVars, conn, flagVars, pastVars>>

\* send_and_confirm returns; unconfirmed or not, the automaton reads again.
Settles(t) ==
  /\ thread[t].phase = "settling"
  /\ Goes(t, "reading")
  /\ UNCHANGED <<wireVars, conn, flagVars, pastVars>>

\* Mutated form: the attempts are counted but never used up.
FailsForEver(t) ==
  /\ thread[t].phase = "failed"
  /\ attempt' = 0
  /\ Goes(t, "idle")
  /\ UNCHANGED <<wireVars, conn, armed, exhausted, tickError, stopped, pastVars>>

\* Mutated form: one attempt too many.
FailsOnceMore(t) ==
  /\ thread[t].phase = "failed"
  /\ IF t = "guardian" /\ attempt <= MaxReconnectAttempts
     THEN /\ attempt' = attempt + 1
          /\ raced' = (raced \/ Repairing(t))
          /\ Goes(t, "closing")
          /\ UNCHANGED exhausted
     ELSE /\ attempt' = IF t = "guardian" THEN 0 ELSE attempt
          /\ exhausted' = (exhausted \/ t = "guardian")
          /\ Goes(t, "idle")
          /\ UNCHANGED raced
  /\ tickError' = (tickError /\ t # "guardian")
  /\ UNCHANGED <<wireVars, conn, armed, stopped, blind>>

\* An OSError or a LoginError: the burst backs off and tries again, or is
\* exhausted; an ensure answers with its error.
Fails(t) ==
  /\ thread[t].phase = "failed"
  /\ IF t = "guardian" /\ attempt < MaxReconnectAttempts
     THEN /\ attempt' = attempt + 1
          /\ raced' = (raced \/ Repairing(t))
          /\ Goes(t, "closing")
          /\ UNCHANGED exhausted
     ELSE /\ attempt' = IF t = "guardian" THEN 0 ELSE attempt
          /\ exhausted' = (exhausted \/ t = "guardian")
          /\ Goes(t, "idle")
          /\ UNCHANGED raced
  /\ tickError' = (tickError /\ t # "guardian")
  /\ UNCHANGED <<wireVars, conn, armed, stopped, blind>>

\* Mutated form: the poll swallows what escapes from a burst.
EscapesUnsaid(t) ==
  /\ \/ thread[t].phase = "closing" /\ t = "guardian"
     \/ thread[t].phase = "reading" /\ Shown = "password" /\ ~thread[t].sent
  /\ attempt' = IF t = "guardian" THEN 0 ELSE attempt
  /\ Goes(t, "idle")
  /\ UNCHANGED <<wireVars, conn, armed, exhausted, tickError, stopped, pastVars>>

\* Any other exception, from a profiles.toml that is no TOML before the old
\* connection is closed, or from a secrets.json that cannot be read when the
\* password is wanted: nobody retries, the socket stays as it is, and the
\* poll notes the type of the exception.  An ensure answers with it.
Escapes(t) ==
  /\ \/ thread[t].phase = "closing" /\ t = "guardian"
     \/ thread[t].phase = "reading" /\ Shown = "password" /\ ~thread[t].sent
  /\ attempt' = IF t = "guardian" THEN 0 ELSE attempt
  /\ tickError' = (tickError \/ t = "guardian")
  /\ Goes(t, "idle")
  /\ UNCHANGED <<wireVars, conn, armed, exhausted, stopped, pastVars>>

-----------------------------------------------------------------------------

ReconnectStep(t) == Closes(t) \/ Replaces(t) \/ Connects(t) \/ ConnectFails(t)

LoginStep(t) ==
  \/ ReadsPrompt(t) \/ GivesUp(t) \/ LoggedIn(t)
  \/ Sends(t, "naming", "name") \/ Sends(t, "typing", "password")
  \/ SendIsLost(t) \/ SendRaises(t) \/ Settles(t) \/ Fails(t) \/ Escapes(t)

ThreadStep(t) == ReconnectStep(t) \/ LoginStep(t)

Next ==
  /\ ~stopped
  /\ \/ \E s \in Sockets : GameAnswers(s) \/ PeerDrops(s)
     \/ ReaderEnds \/ Disconnect
     \/ TickConnected \/ Nudges \/ TickDropped \/ EnsureBegins
     \/ \E t \in Threads : ThreadStep(t)
     \/ ShutsDown

Spec == Init /\ [][Next]_vars

\* Until the shutdown the guardian polls and both threads keep going:
\* connect has a timeout, a login step a settle budget and a login a number of
\* steps, the reader thread sees a dead socket.  Nobody is obliged to ask for an ensure, and the game need
\* not answer at all.
Fairness ==
  /\ \A t \in Threads : WF_vars(~stopped /\ ThreadStep(t))
  /\ \A t \in Threads : SF_vars(~stopped /\ GivesUp(t))
  /\ WF_vars(~stopped /\ ReaderEnds)
  /\ WF_vars(~stopped /\ Nudges)
  /\ SF_vars(~stopped /\ TickDropped)

FairSpec == Spec /\ Fairness

-----------------------------------------------------------------------------
(* Properties *)

\* The single connection holds through recovery: whatever fails part-way, no
\* socket is up but the one the session reads and writes.
OneSocket == \A s \in open : s = conn.sock

\* Attempts and connections within their bounds, and one socket, until both
\* threads have been in Session.reconnect() at once.
WireInv == TypeOK /\ (~raced => OneSocket)

\* The saved password reaches the game at its password prompt only: nowhere
\* else is it echoed, or taken for a name.
SecretAtItsPrompt ==
  \A s \in open : unanswered[s] # <<>> /\ Head(unanswered[s]) = "password" =>
                    prompt[s] = "password"

\* The keepalive's blank Enter reaches the game at the command prompt only.
NudgeAtCommand ==
  \A s \in open : unanswered[s] # <<>> /\ Head(unanswered[s]) = "enter" =>
                    prompt[s] = "command"

\* Password and keepalive reach the prompts they were meant for, on whichever
\* socket and through any number of repairs of either thread, until one has
\* read a screen the game had not finished, or has been overtaken between its
\* read and its send.
InputsAtTheirPrompts == ~blind => SecretAtItsPrompt /\ NudgeAtCommand

\* A drop does not go unnoticed: a session that has logged in before and
\* whose socket is gone gets a new one, or a burst of the guardian, or status
\* says that the guardian gave up.
DropAnswered ==
  armed /\ conn.sock \notin open ~>
    conn.sock \in open \/ attempt # 0 \/ exhausted \/ stopped

\* A burst ends, and says how: verified back at the command prompt, exhausted,
\* or with the type of an exception it does not retry.
BurstDecides ==
  attempt # 0 ~>
    \/ exhausted
    \/ attempt = 0 /\ (Shown = "command" \/ tickError)
    \/ stopped

\* A drop is answered, and the answer is decided.
DropsResolved == DropAnswered /\ BurstDecides

-----------------------------------------------------------------------------
(* The strengthening the safety properties are proved from *)

\* Until the threads have raced, one at most is in Session.reconnect(), and
\* the old socket is down before its connection object is dropped.
OneRepairs ==
  \A t, u \in Threads :
    t # u => ~ /\ thread[t].phase \in {"closing", "replacing", "connecting"}
               /\ thread[u].phase \in {"closing", "replacing", "connecting"}

CloseBeforeReplace ==
  \A t \in Threads :
    /\ thread[t].phase = "replacing" => conn.sock \notin open
    /\ thread[t].phase = "connecting" => conn.sock = 0

\* A socket that is down has nothing on its way.
DownIsQuiet == \A s \in Sockets : s \notin open => unanswered[s] = <<>>

\* Until a thread has acted blindly, at most one input is on its way to a
\* socket, where the game expects it.
OneInput ==
  \A s \in open :
    unanswered[s] \in {<<>>, <<"name">>}
      \cup (IF prompt[s] = "password" THEN {<<"password">>} ELSE {})
      \cup (IF prompt[s] = "command" THEN {<<"enter">>} ELSE {})

\* What a thread has read is still there when it sends.
ReadIsFresh ==
  \A t \in Threads :
    thread[t].phase \in {"naming", "typing", "nudging"} =>
      /\ conn.sock \in Sockets
      /\ unanswered[conn.sock] = <<>>
      /\ thread[t].phase = "typing" => prompt[conn.sock] = "password"
      /\ thread[t].phase = "nudging" => prompt[conn.sock] = "command"

RepairInv == OneRepairs /\ OneSocket /\ CloseBeforeReplace

InputInv == OneInput /\ ReadIsFresh

TurnsInv ==
  /\ TypeOK
  /\ DownIsQuiet
  /\ ~raced => RepairInv
  /\ ~blind => InputInv

-----------------------------------------------------------------------------
(* Statements of the repository that this model refutes *)

\* reconnect_exhausted suppresses further auto-retry until a successful
\* reconnect or a clear (session/guardian.py:14): it does not fall while the
\* game has not seen a login.  The last attempt may leave the socket up.
ExhaustedUntilLoggedIn == [][exhausted /\ ~exhausted' /\ ~stopped' => Shown = "command"]_vars
=============================================================================

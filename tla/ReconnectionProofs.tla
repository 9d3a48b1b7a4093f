------------------------ MODULE ReconnectionProofs ------------------------
(***************************************************************************)
(* Recovery keeps one socket, and the two inputs that must not go astray   *)
(* reach the prompt they were meant for, for any number of attempts, of    *)
(* repairs and of sockets.  Nothing is assumed of who runs beside whom or  *)
(* of how fast the game answers: what the code leaves to luck is in the    *)
(* properties, as the history of what has happened so far.                 *)
(***************************************************************************)
EXTENDS Reconnection, TLAPS

RepairPhases == {"closing", "replacing", "connecting"}
DecidePhases == {"naming", "typing", "nudging"}

ConnType == [sock : 0..MaxSockets, connected : BOOLEAN, stillborn : BOOLEAN]
ThreadType == [Threads -> [phase : Phases, sent : BOOLEAN]]
FlagsOK == /\ armed \in BOOLEAN /\ exhausted \in BOOLEAN
           /\ attempt \in 0..MaxReconnectAttempts
           /\ tickError \in BOOLEAN /\ stopped \in BOOLEAN
           /\ raced \in BOOLEAN /\ blind \in BOOLEAN

\* The types, flag by flag.
LEMMA TypeParts ==
  TypeOK <=> /\ open \subseteq Sockets
             /\ prompt \in [Sockets -> Prompts]
             /\ unanswered \in [Sockets -> Seq(Inputs)]
             /\ conn \in ConnType
             /\ thread \in ThreadType
             /\ FlagsOK
  BY DEF TypeOK, ConnType, ThreadType, FlagsOK

\* The daemon's first connection is up and nothing has been typed.
LEMMA InitTurns == Init => TurnsInv
<1> SUFFICES ASSUME Init PROVE TurnsInv
  OBVIOUS
<1> USE ReconnectionAssumption DEF Init, Sockets
<1>1. TypeOK
  <2>1. unanswered \in [Sockets -> Seq(Inputs)]
    <3>1. <<>> \in Seq(Inputs)
      OBVIOUS
    <3> QED BY <3>1
  <2>2. 1 \in 0..MaxSockets /\ open \subseteq Sockets
    OBVIOUS
  <2>3. prompt \in [Sockets -> Prompts]
    BY DEF Prompts
  <2>4. conn \in ConnType
    BY <2>2 DEF ConnType
  <2>5. thread \in ThreadType
    BY DEF Phases, ThreadType
  <2>6. FlagsOK
    <3>1. attempt \in 0..MaxReconnectAttempts
      OBVIOUS
    <3>2. armed = FALSE /\ exhausted = FALSE /\ tickError = FALSE /\ stopped = FALSE
          /\ raced = FALSE /\ blind = FALSE
      OBVIOUS
    <3> HIDE DEF Init, Sockets
    <3> QED BY <3>1, <3>2 DEF FlagsOK
  <2> HIDE DEF Init, Sockets
  <2> QED BY <2>1, <2>2, <2>3, <2>4, <2>5, <2>6, TypeParts
<1>2. DownIsQuiet
  BY DEF DownIsQuiet
<1>3. OneRepairs /\ OneSocket /\ CloseBeforeReplace
  BY DEF OneRepairs, OneSocket, CloseBeforeReplace, Threads
<1>4. OneInput /\ ReadIsFresh
  BY DEF OneInput, ReadIsFresh, Threads
<1> QED BY <1>1, <1>2, <1>3, <1>4 DEF TurnsInv, RepairInv, InputInv

\* A thread that moves to another phase leaves the other alone.
LEMMA GoesKeepsType ==
  ASSUME TypeOK, NEW t \in Threads, NEW p \in Phases, Goes(t, p)
  PROVE  /\ thread' \in ThreadType
         /\ thread'[t].phase = p
         /\ \A u \in Threads : u # t => thread'[u] = thread[u]
<1>1. PICK b \in BOOLEAN : thread' = [thread EXCEPT ![t] = [phase |-> p, sent |-> b]]
  <2>1. (thread[t].sent /\ p \in {"reading", "naming", "typing"}) \in BOOLEAN
    BY DEF TypeOK
  <2> QED BY <2>1 DEF Goes
<1> QED BY <1>1 DEF TypeOK, ThreadType

\* A step that moves one thread and leaves wire and connection alone.
LEMMA QuietStep ==
  ASSUME TurnsInv, NEW t \in Threads, NEW p \in Phases,
         thread' \in ThreadType,
         thread'[t].phase = p,
         \A u \in Threads : u # t => thread'[u] = thread[u],
         UNCHANGED <<open, prompt, unanswered, conn>>,
         FlagsOK', raced => raced', blind => blind',
         p \notin {"replacing", "connecting"},
         p = "closing" /\ ~raced' => thread[t].phase \in RepairPhases \/ ~Repairing(t),
         p \in DecidePhases /\ ~blind' =>
           /\ conn.sock \in Sockets
           /\ unanswered[conn.sock] = <<>>
           /\ p = "typing" => prompt[conn.sock] = "password"
           /\ p = "nudging" => prompt[conn.sock] = "command"
  PROVE  TurnsInv'
<1> USE DEF TurnsInv
<1>1. TypeOK'
  BY TypeParts, TypeOK DEF TypeOK, FlagsOK, ThreadType
<1>2. DownIsQuiet'
  BY DEF DownIsQuiet
<1>3. ASSUME ~raced' PROVE RepairInv'
  <2>1. RepairInv
    BY <1>3
  <2>2. OneRepairs'
    BY <1>3, <2>1 DEF RepairInv, OneRepairs, RepairPhases, Repairing
  <2>3. OneSocket' /\ CloseBeforeReplace'
    BY <2>1 DEF RepairInv, OneSocket, CloseBeforeReplace
  <2> QED BY <2>2, <2>3 DEF RepairInv
<1>4. ASSUME ~blind' PROVE InputInv'
  <2>1. InputInv
    BY <1>4
  <2>2. OneInput'
    BY <2>1 DEF InputInv, OneInput
  <2>3. ReadIsFresh'
    BY <1>4, <2>1 DEF InputInv, ReadIsFresh, DecidePhases
  <2> QED BY <2>2, <2>3 DEF InputInv
<1> QED BY <1>1, <1>2, <1>3, <1>4

\* What is on the screen when nothing is owed.
LEMMA ShownIsFresh ==
  ASSUME TypeOK, Shown \in {"door", "password", "command"}
  PROVE  /\ conn.sock \in Sockets
         /\ prompt[conn.sock] = Shown
         /\ ~Owes => unanswered[conn.sock] = <<>>
<1>1. conn.sock # 0 /\ prompt[conn.sock] = Shown
  BY DEF Shown
<1>2. conn.sock \in Sockets
  BY <1>1, ReconnectionAssumption DEF TypeOK, Sockets
<1> QED BY <1>1, <1>2 DEF Owes

\* A socket that goes down takes its input with it.
LEMMA DownTypes ==
  ASSUME TypeOK, DownIsQuiet, NEW s, GoesDown(s)
  PROVE  /\ open' \subseteq Sockets
         /\ open' \subseteq open
         /\ unanswered' \in [Sockets -> Seq(Inputs)]
         /\ \A r \in Sockets : r \in open' => unanswered'[r] = unanswered[r]
         /\ \A r \in Sockets : r \notin open' => unanswered'[r] = <<>>
         /\ \A r \in Sockets : unanswered[r] = <<>> => unanswered'[r] = <<>>
<1>1. <<>> \in Seq(Inputs)
  OBVIOUS
<1> QED BY <1>1 DEF GoesDown, TypeOK, DownIsQuiet

\* close() leaves the connection object the session's, and typed.
LEMMA ClosedKeepsType ==
  ASSUME TypeOK, CloseConnection
  PROVE  conn' \in ConnType /\ conn'.sock = conn.sock
<1>1. PICK b \in BOOLEAN : conn' = [conn EXCEPT !.connected = FALSE, !.stillborn = b]
  <2>1. (conn.stillborn \/ conn.sock = 0) \in BOOLEAN
    BY DEF TypeOK
  <2> QED BY <2>1 DEF CloseConnection
<1> QED BY <1>1 DEF TypeOK, ConnType

\* A step that only takes sockets down, or flags the connection.
LEMMA DownStep ==
  ASSUME TurnsInv, UNCHANGED <<prompt, flagVars, thread, pastVars>>,
         NEW s, GoesDown(s) \/ UNCHANGED <<open, unanswered>>,
         conn' \in ConnType, conn'.sock = conn.sock
  PROVE  TurnsInv'
<1> USE DEF TurnsInv
<1>1. /\ open' \subseteq Sockets
      /\ open' \subseteq open
      /\ unanswered' \in [Sockets -> Seq(Inputs)]
      /\ \A r \in Sockets : r \in open' => unanswered'[r] = unanswered[r]
      /\ \A r \in Sockets : r \notin open' => unanswered'[r] = <<>>
      /\ \A r \in Sockets : unanswered[r] = <<>> => unanswered'[r] = <<>>
  BY DownTypes DEF TypeOK, DownIsQuiet
<1>2. TypeOK'
  BY <1>1 DEF TypeOK, flagVars, pastVars, ConnType
<1>3. DownIsQuiet'
  BY <1>1 DEF DownIsQuiet
<1>4. RepairInv => RepairInv'
  BY <1>1 DEF RepairInv, OneRepairs, OneSocket, CloseBeforeReplace
<1>5. InputInv => InputInv'
  <2> SUFFICES ASSUME InputInv PROVE OneInput' /\ ReadIsFresh'
    BY DEF InputInv
  <2>1. OneInput'
    BY <1>1 DEF InputInv, OneInput, TypeOK
  <2>2. ReadIsFresh'
    BY <1>1 DEF InputInv, ReadIsFresh
  <2> QED BY <2>1, <2>2
<1> QED BY <1>2, <1>3, <1>4, <1>5 DEF pastVars

-----------------------------------------------------------------------------

\* The single inputs a socket may hold.
LEMMA SingleInput ==
  ASSUME OneInput, NEW s \in open
  PROVE  /\ unanswered[s] \in {<<>>, <<"name">>, <<"password">>, <<"enter">>}
         /\ unanswered[s] = <<"password">> => prompt[s] = "password"
         /\ unanswered[s] = <<"enter">> => prompt[s] = "command"
<1>1. <<"password">> # <<"enter">> /\ <<"password">> # <<"name">> /\ <<"enter">> # <<"name">>
  <2>1. <<"password">>[1] # <<"enter">>[1] /\ <<"password">>[1] # <<"name">>[1]
        /\ <<"enter">>[1] # <<"name">>[1]
    OBVIOUS
  <2> QED BY <2>1
<1>2. <<"password">> # <<>> /\ <<"enter">> # <<>>
  <2>1. Len(<<"password">>) # Len(<<>>) /\ Len(<<"enter">>) # Len(<<>>)
    OBVIOUS
  <2> QED BY <2>1
<1> QED BY <1>1, <1>2 DEF OneInput

\* An answer of the game takes one input off and moves the prompt.
LEMMA AnswerKeepsTurns ==
  ASSUME TurnsInv, NEW s \in Sockets, GameAnswers(s)
  PROVE  TurnsInv'
<1> USE DEF TurnsInv
<1>1. /\ s \in open /\ unanswered[s] # <<>>
      /\ UNCHANGED <<open, conn, flagVars, thread, pastVars>>
      /\ unanswered' = [unanswered EXCEPT ![s] = Tail(@)]
  BY DEF GameAnswers
<1>2. PICK next \in Prompts : prompt' = [prompt EXCEPT ![s] = next]
  BY DEF GameAnswers
<1>3. Tail(unanswered[s]) \in Seq(Inputs)
  BY <1>1 DEF TypeOK
<1>4. TypeOK'
  BY <1>1, <1>2, <1>3 DEF TypeOK, flagVars, pastVars
<1>5. DownIsQuiet'
  BY <1>1 DEF DownIsQuiet, TypeOK
<1>6. RepairInv => RepairInv'
  BY <1>1 DEF RepairInv, OneRepairs, OneSocket, CloseBeforeReplace
<1>7. ASSUME InputInv PROVE InputInv'
  <2>1. unanswered'[s] = <<>>
    <3>1. unanswered[s] \in {<<"name">>, <<"password">>, <<"enter">>}
      BY <1>1, <1>7, SingleInput DEF InputInv
    <3>2. /\ Tail(<<"name">>) = <<>>
          /\ Tail(<<"password">>) = <<>>
          /\ Tail(<<"enter">>) = <<>>
      OBVIOUS
    <3>3. Tail(unanswered[s]) = <<>>
      BY <3>1, <3>2
    <3> QED BY <1>1, <3>3 DEF TypeOK
  <2>2. \A r \in Sockets : r # s => unanswered'[r] = unanswered[r] /\ prompt'[r] = prompt[r]
    BY <1>1, <1>2 DEF TypeOK
  <2>3. OneInput'
    BY <1>1, <1>7, <2>1, <2>2 DEF InputInv, OneInput, TypeOK
  <2>4. ReadIsFresh'
    BY <1>1, <1>7, <2>1, <2>2 DEF InputInv, ReadIsFresh
  <2> QED BY <2>3, <2>4 DEF InputInv
<1> QED BY <1>1, <1>4, <1>5, <1>6, <1>7 DEF pastVars

\* A nudge is decided on a screen, and its window may be over by the send.
LEMMA TickConnectedKeeps ==
  ASSUME TurnsInv, TickConnected
  PROVE  TurnsInv'
<1> USE DEF TurnsInv
<1>1. /\ UNCHANGED <<open, prompt, unanswered, conn, armed, attempt, tickError, stopped, raced>>
      /\ exhausted' = FALSE /\ thread["guardian"].phase = "idle"
  BY DEF TickConnected, wireVars
<1>2. CASE Shown = "command" /\ Goes("guardian", "nudging") /\ blind' = (blind \/ Owes)
  <2>1. /\ thread' \in ThreadType
        /\ thread'["guardian"].phase = "nudging"
        /\ \A u \in Threads : u # "guardian" => thread'[u] = thread[u]
    BY <1>2, GoesKeepsType DEF Threads, Phases
  <2>2. FlagsOK' /\ (blind => blind') /\ (raced => raced')
    BY <1>1, <1>2 DEF TypeOK, FlagsOK
  <2>3. /\ conn.sock \in Sockets /\ prompt[conn.sock] = "command"
        /\ ~blind' => unanswered[conn.sock] = <<>>
    BY <1>2, ShownIsFresh
  <2> QED BY <1>1, <2>1, <2>2, <2>3, QuietStep DEF Threads, Phases
<1>3. CASE UNCHANGED <<thread, blind>>
  <2>1. TypeOK'
    BY <1>1, <1>3 DEF TypeOK
  <2>2. DownIsQuiet' /\ (RepairInv => RepairInv') /\ (InputInv => InputInv')
    BY <1>1, <1>3 DEF DownIsQuiet, RepairInv, OneRepairs, OneSocket, CloseBeforeReplace,
                      InputInv, OneInput, ReadIsFresh
  <2> QED BY <1>1, <1>3, <2>1, <2>2
<1> QED BY <1>2, <1>3 DEF TickConnected

\* A thread that leaves its decision for another phase, while no other thread
\* decides, leaves nobody deciding.
LEMMA NobodyDecides ==
  ASSUME NEW t \in Threads, ~Deciding(t),
         \A u \in Threads : u # t => thread'[u] = thread[u],
         thread'[t].phase \notin DecidePhases
  PROVE  ReadIsFresh'
  BY DEF Deciding, DecidePhases, ReadIsFresh, Threads

\* One input is put on a socket that had none.
LEMMA TypesOne ==
  ASSUME TypeOK, NEW s \in Sockets, NEW input \in Inputs, Types(s, input)
  PROVE  /\ unanswered' \in [Sockets -> Seq(Inputs)]
         /\ unanswered[s] = <<>> => unanswered'[s] = <<input>>
         /\ \A r \in Sockets : r # s => unanswered'[r] = unanswered[r]
<1>1. unanswered[s] \in Seq(Inputs) /\ Append(unanswered[s], input) \in Seq(Inputs)
  BY DEF TypeOK
<1>2. unanswered' \in [Sockets -> Seq(Inputs)]
  BY <1>1 DEF Types, TypeOK
<1>3. unanswered[s] = <<>> => unanswered'[s] = <<input>>
  <2>1. Len(<<>>) < MaxUnanswered
    BY ReconnectionAssumption
  <2>2. Append(<<>>, input) = <<input>>
    OBVIOUS
  <2> QED BY <2>1, <2>2 DEF Types, TypeOK
<1>4. \A r \in Sockets : r # s => unanswered'[r] = unanswered[r]
  BY DEF Types, TypeOK
<1> QED BY <1>2, <1>3, <1>4

\* The nudge itself.
LEMMA NudgeKeeps ==
  ASSUME TurnsInv, Nudges
  PROVE  TurnsInv'
<1> USE DEF TurnsInv
<1>1. /\ thread["guardian"].phase = "nudging" /\ Goes("guardian", "idle")
      /\ UNCHANGED <<open, prompt, conn, armed, exhausted, attempt, tickError, stopped, raced>>
      /\ blind' = (blind \/ Deciding("guardian"))
  BY DEF Nudges, flagVars
<1>2. /\ thread' \in ThreadType
      /\ thread'["guardian"].phase = "idle"
      /\ \A u \in Threads : u # "guardian" => thread'[u] = thread[u]
  BY <1>1, GoesKeepsType DEF Threads, Phases
<1>3. \/ conn.sock \in open /\ Types(conn.sock, "enter")
      \/ UNCHANGED unanswered
  BY DEF Nudges
<1>4. /\ unanswered' \in [Sockets -> Seq(Inputs)]
      /\ \A r \in Sockets : r # conn.sock \/ conn.sock \notin open => unanswered'[r] = unanswered[r]
  <2>1. CASE conn.sock \in open /\ Types(conn.sock, "enter")
    BY <2>1, TypesOne DEF Inputs, TypeOK
  <2>2. CASE UNCHANGED unanswered
    BY <2>2 DEF TypeOK
  <2> QED BY <1>3, <2>1, <2>2
<1>5. TypeOK'
  <2>1. blind' \in BOOLEAN
    BY <1>1
  <2> QED BY <1>1, <1>2, <1>4, <2>1 DEF TypeOK, ThreadType
<1>6. DownIsQuiet'
  BY <1>1, <1>4 DEF DownIsQuiet
<1>7. RepairInv => RepairInv'
  BY <1>1, <1>2 DEF RepairInv, OneRepairs, OneSocket, CloseBeforeReplace
<1>8. ASSUME ~blind' PROVE InputInv'
  <2>1. InputInv /\ ~Deciding("guardian")
    BY <1>1, <1>8
  <2>2. conn.sock \in Sockets /\ unanswered[conn.sock] = <<>> /\ prompt[conn.sock] = "command"
    BY <1>1, <2>1 DEF InputInv, ReadIsFresh, Threads
  <2>3. unanswered'[conn.sock] \in {<<>>, <<"enter">>}
    <3>1. CASE conn.sock \in open /\ Types(conn.sock, "enter")
      BY <2>2, <3>1, TypesOne DEF Inputs
    <3>2. CASE UNCHANGED unanswered
      BY <2>2, <3>2
    <3> QED BY <1>3, <3>1, <3>2
  <2>4. OneInput'
    BY <1>1, <1>4, <2>1, <2>2, <2>3 DEF InputInv, OneInput, TypeOK
  <2>5. ReadIsFresh'
    BY <1>2, <2>1, NobodyDecides DEF Threads, DecidePhases
  <2> QED BY <2>4, <2>5 DEF InputInv
<1> QED BY <1>1, <1>5, <1>6, <1>7, <1>8

\* A burst begins.
LEMMA TickDroppedKeeps ==
  ASSUME TurnsInv, TickDropped
  PROVE  TurnsInv'
<1> USE DEF TurnsInv
<1>1. /\ UNCHANGED <<open, prompt, unanswered, conn, armed, exhausted, tickError, stopped, blind>>
      /\ attempt' = 1 /\ Goes("guardian", "closing")
      /\ raced' = (raced \/ Repairing("guardian"))
  BY DEF TickDropped, wireVars
<1>2. /\ thread' \in ThreadType
      /\ thread'["guardian"].phase = "closing"
      /\ \A u \in Threads : u # "guardian" => thread'[u] = thread[u]
  BY <1>1, GoesKeepsType DEF Threads, Phases
<1>3. FlagsOK' /\ (raced => raced') /\ (blind => blind')
  BY <1>1, ReconnectionAssumption DEF TypeOK, FlagsOK
<1>4. ~raced' => ~Repairing("guardian")
  BY <1>1
<1> QED BY <1>1, <1>2, <1>3, <1>4, QuietStep DEF Threads, Phases, DecidePhases

\* An ensure begins, beside whatever the guardian is doing.
LEMMA EnsureKeeps ==
  ASSUME TurnsInv, EnsureBegins
  PROVE  TurnsInv'
<1> USE DEF TurnsInv
<1>1. PICK p \in {"reading", "closing"} :
        /\ thread' = [thread EXCEPT !["ensure"] = [phase |-> p, sent |-> FALSE]]
        /\ p = "closing" => ~conn.connected
  BY DEF EnsureBegins
<1>2. /\ UNCHANGED <<open, prompt, unanswered, conn, armed, exhausted, attempt,
                     tickError, stopped, blind>>
      /\ raced' = (raced \/ (~conn.connected /\ Repairing("ensure")))
  BY DEF EnsureBegins, wireVars, flagVars
<1>3. /\ thread' \in ThreadType
      /\ thread'["ensure"].phase = p
      /\ \A u \in Threads : u # "ensure" => thread'[u] = thread[u]
  BY <1>1 DEF TypeOK, Threads, Phases, ThreadType
<1>4. FlagsOK' /\ (raced => raced') /\ (blind => blind')
  BY <1>2 DEF TypeOK, FlagsOK
<1>5. p = "closing" /\ ~raced' => ~Repairing("ensure")
  BY <1>1, <1>2
<1> QED BY <1>2, <1>3, <1>4, <1>5, QuietStep DEF Threads, Phases, DecidePhases

-----------------------------------------------------------------------------
(* Session.reconnect() *)

\* close(): the socket goes down first.
LEMMA ClosesKeeps ==
  ASSUME TurnsInv, NEW t \in Threads, Closes(t)
  PROVE  TurnsInv'
<1> USE DEF TurnsInv
<1>1. /\ thread[t].phase = "closing" /\ GoesDown(conn.sock)
      /\ conn' \in ConnType /\ conn'.sock = conn.sock
      /\ UNCHANGED <<prompt, armed, exhausted, attempt, tickError, stopped, raced, blind>>
      /\ Goes(t, "replacing")
  BY ClosedKeepsType DEF Closes, CloseConnection, flagVars, pastVars
<1>2. /\ thread' \in ThreadType
      /\ thread'[t].phase = "replacing"
      /\ \A u \in Threads : u # t => thread'[u] = thread[u]
  BY <1>1, GoesKeepsType DEF Phases
<1>3. /\ open' \subseteq Sockets
      /\ open' \subseteq open
      /\ unanswered' \in [Sockets -> Seq(Inputs)]
      /\ \A r \in Sockets : r \in open' => unanswered'[r] = unanswered[r]
      /\ \A r \in Sockets : r \notin open' => unanswered'[r] = <<>>
      /\ \A r \in Sockets : unanswered[r] = <<>> => unanswered'[r] = <<>>
  BY <1>1, DownTypes
<1>4. conn'.sock \notin open'
  BY <1>1 DEF GoesDown
<1>5. TypeOK'
  BY <1>1, <1>2, <1>3 DEF TypeOK, ThreadType, ConnType
<1>6. DownIsQuiet'
  BY <1>3 DEF DownIsQuiet
<1>7. ASSUME RepairInv PROVE RepairInv'
  <2>1. \A u \in Threads : u # t => thread[u].phase \notin RepairPhases
    BY <1>1, <1>7 DEF RepairInv, OneRepairs, RepairPhases
  <2>2. OneRepairs'
    BY <1>2, <2>1 DEF OneRepairs, RepairPhases
  <2>3. OneSocket'
    BY <1>1, <1>3, <1>7 DEF RepairInv, OneSocket
  <2>4. CloseBeforeReplace'
    BY <1>2, <1>4, <2>1 DEF CloseBeforeReplace, RepairPhases
  <2> QED BY <2>2, <2>3, <2>4 DEF RepairInv
<1>8. ASSUME InputInv PROVE InputInv'
  <2>1. OneInput'
    BY <1>1, <1>3, <1>8 DEF InputInv, OneInput, TypeOK
  <2>2. ReadIsFresh'
    BY <1>1, <1>2, <1>3, <1>8 DEF InputInv, ReadIsFresh
  <2> QED BY <2>1, <2>2 DEF InputInv
<1> QED BY <1>1, <1>5, <1>6, <1>7, <1>8

\* What leaving a socket does to the game's end of it.
LEMMA LeftTypes ==
  ASSUME TypeOK, LeavesSocket
  PROVE  /\ prompt' \in [Sockets -> Prompts]
         /\ unanswered' \in [Sockets -> Seq(Inputs)]
         /\ \A r \in Sockets : \/ unanswered'[r] = <<>>
                               \/ unanswered'[r] = unanswered[r] /\ prompt'[r] = prompt[r]
         /\ \A r \in Sockets : unanswered[r] = <<>> => unanswered'[r] = <<>>
<1>1. <<>> \in Seq(Inputs) /\ "door" \in Prompts
  BY DEF Prompts
<1>2. prompt' \in [Sockets -> Prompts]
  BY <1>1 DEF LeavesSocket, TypeOK
<1>3. unanswered' \in [Sockets -> Seq(Inputs)]
  BY <1>1 DEF LeavesSocket, TypeOK
<1>4. ASSUME NEW r \in Sockets
      PROVE  \/ unanswered'[r] = <<>>
             \/ unanswered'[r] = unanswered[r] /\ prompt'[r] = prompt[r]
  BY DEF LeavesSocket
<1>5. ASSUME NEW r \in Sockets, unanswered[r] = <<>> PROVE unanswered'[r] = <<>>
  BY <1>5 DEF LeavesSocket
<1>6. \A r \in Sockets : \/ unanswered'[r] = <<>>
                         \/ unanswered'[r] = unanswered[r] /\ prompt'[r] = prompt[r]
  BY <1>4
<1>7. \A r \in Sockets : unanswered[r] = <<>> => unanswered'[r] = <<>>
  BY <1>5
<1> QED BY <1>2, <1>3, <1>6, <1>7

\* A single input stays one when its socket keeps it, or loses it.
LEMMA FewerInputs ==
  ASSUME OneInput, open \subseteq Sockets,
         \A r \in open' : \/ unanswered'[r] = <<>>
                          \/ /\ r \in open
                             /\ unanswered'[r] = unanswered[r]
                             /\ prompt'[r] = prompt[r]
  PROVE  OneInput'
  BY DEF OneInput

\* The new connection object has no socket yet.
LEMMA ReplacesKeeps ==
  ASSUME TurnsInv, NEW t \in Threads, Replaces(t)
  PROVE  TurnsInv'
<1> USE DEF TurnsInv
<1>1. /\ thread[t].phase = "replacing"
      /\ conn' = [sock |-> 0, connected |-> FALSE, stillborn |-> FALSE]
      /\ UNCHANGED <<open, armed, exhausted, attempt, tickError, stopped, raced>>
      /\ blind' = (blind \/ Deciding(t))
      /\ Goes(t, "connecting")
  BY DEF Replaces, flagVars
<1>2. /\ thread' \in ThreadType
      /\ thread'[t].phase = "connecting"
      /\ \A u \in Threads : u # t => thread'[u] = thread[u]
  BY <1>1, GoesKeepsType DEF Phases
<1>3. /\ prompt' \in [Sockets -> Prompts]
      /\ unanswered' \in [Sockets -> Seq(Inputs)]
      /\ \A r \in Sockets : \/ unanswered'[r] = <<>>
                            \/ unanswered'[r] = unanswered[r] /\ prompt'[r] = prompt[r]
      /\ \A r \in Sockets : unanswered[r] = <<>> => unanswered'[r] = <<>>
  BY LeftTypes DEF Replaces
<1>4. TypeOK'
  <2>1. blind' \in BOOLEAN
    BY <1>1
  <2>2. 0 \in 0..MaxSockets
    BY ReconnectionAssumption
  <2> QED BY <1>1, <1>2, <1>3, <2>1, <2>2 DEF TypeOK, ThreadType
<1>5. DownIsQuiet'
  BY <1>1, <1>3 DEF DownIsQuiet
<1>6. ASSUME RepairInv PROVE RepairInv'
  <2>1. \A u \in Threads : u # t => thread[u].phase \notin RepairPhases
    BY <1>1, <1>6 DEF RepairInv, OneRepairs, RepairPhases
  <2>2. OneRepairs'
    BY <1>2, <2>1 DEF OneRepairs, RepairPhases
  <2>3. OneSocket'
    BY <1>1, <1>6 DEF RepairInv, OneSocket, CloseBeforeReplace
  <2>4. CloseBeforeReplace'
    BY <1>1, <1>2, <2>1 DEF CloseBeforeReplace, RepairPhases
  <2> QED BY <2>2, <2>3, <2>4 DEF RepairInv
<1>7. ASSUME ~blind' PROVE InputInv'
  <2>1. InputInv /\ ~Deciding(t)
    BY <1>1, <1>7
  <2>2. OneInput'
    BY <1>1, <1>3, <2>1, FewerInputs DEF InputInv, TypeOK
  <2>3. ReadIsFresh'
    BY <1>2, <2>1, NobodyDecides DEF DecidePhases
  <2> QED BY <2>2, <2>3 DEF InputInv
<1> QED BY <1>1, <1>4, <1>5, <1>6, <1>7

\* The new socket, and a login on it.
LEMMA ConnectsKeeps ==
  ASSUME TurnsInv, NEW t \in Threads, Connects(t)
  PROVE  TurnsInv'
<1> USE DEF TurnsInv
<1>1. PICK s \in Sockets \ open :
        /\ open' = open \cup {s}
        /\ conn' = [conn EXCEPT !.sock = s, !.connected = TRUE]
  BY DEF Connects
<1>2. /\ thread[t].phase = "connecting"
      /\ thread' = [thread EXCEPT ![t] = [phase |-> "reading", sent |-> FALSE]]
      /\ UNCHANGED <<armed, exhausted, attempt, tickError, stopped, raced>>
      /\ blind' = (blind \/ Deciding(t))
  BY DEF Connects, flagVars
<1>3. /\ thread' \in ThreadType
      /\ thread'[t].phase = "reading"
      /\ \A u \in Threads : u # t => thread'[u] = thread[u]
  BY <1>2 DEF TypeOK, Phases, ThreadType
<1>4. /\ prompt' \in [Sockets -> Prompts]
      /\ unanswered' \in [Sockets -> Seq(Inputs)]
      /\ \A r \in Sockets : \/ unanswered'[r] = <<>>
                            \/ unanswered'[r] = unanswered[r] /\ prompt'[r] = prompt[r]
      /\ \A r \in Sockets : unanswered[r] = <<>> => unanswered'[r] = <<>>
  BY LeftTypes DEF Connects
<1>5. unanswered[s] = <<>>
  BY DEF DownIsQuiet
<1>6. conn' \in ConnType /\ conn'.sock = s
  <2>1. s \in 0..MaxSockets
    BY ReconnectionAssumption DEF Sockets
  <2> QED BY <1>1, <2>1 DEF TypeOK, ConnType
<1>7. TypeOK'
  <2>1. blind' \in BOOLEAN
    BY <1>2
  <2>2. open' \subseteq Sockets
    BY <1>1 DEF TypeOK
  <2> QED BY <1>2, <1>3, <1>4, <1>6, <2>1, <2>2 DEF TypeOK, ThreadType, ConnType
<1>8. DownIsQuiet'
  BY <1>1, <1>4 DEF DownIsQuiet
<1>9. ASSUME RepairInv PROVE RepairInv'
  <2>1. \A u \in Threads : u # t => thread[u].phase \notin RepairPhases
    BY <1>2, <1>9 DEF RepairInv, OneRepairs, RepairPhases
  <2>2. OneRepairs' /\ CloseBeforeReplace'
    BY <1>3, <2>1 DEF OneRepairs, CloseBeforeReplace, RepairPhases
  <2>3. open = {}
    <3>1. conn.sock = 0 /\ \A r \in open : r = 0
      BY <1>2, <1>9 DEF RepairInv, OneSocket, CloseBeforeReplace
    <3>2. 0 \notin Sockets
      BY DEF Sockets
    <3> QED BY <3>1, <3>2 DEF TypeOK
  <2>4. OneSocket'
    BY <1>1, <1>6, <2>3 DEF OneSocket
  <2> QED BY <2>2, <2>4 DEF RepairInv
<1>10. ASSUME ~blind' PROVE InputInv'
  <2>1. InputInv /\ ~Deciding(t)
    BY <1>2, <1>10
  <2>2. \A r \in open' : r \in Sockets /\ (r = s \/ r \in open)
    BY <1>1 DEF TypeOK
  <2>3. OneInput'
    BY <1>4, <1>5, <2>1, <2>2, FewerInputs DEF InputInv, TypeOK
  <2>4. ReadIsFresh'
    BY <1>3, <2>1, NobodyDecides DEF DecidePhases
  <2> QED BY <2>3, <2>4 DEF InputInv
<1> QED BY <1>2, <1>7, <1>8, <1>9, <1>10

\* Session.reconnect() leaves one socket up at most, and no input on one that
\* is not.
LEMMA ReconnectKeepsTurns ==
  ASSUME TurnsInv, NEW t \in Threads, ReconnectStep(t)
  PROVE  TurnsInv'
<1>1. CASE ConnectFails(t)
  <2>1. /\ Goes(t, "failed")
        /\ UNCHANGED <<open, prompt, unanswered, conn, armed, exhausted, attempt,
                       tickError, stopped, raced, blind>>
    BY <1>1 DEF ConnectFails, wireVars, flagVars, pastVars
  <2>2. /\ thread' \in ThreadType
        /\ thread'[t].phase = "failed"
        /\ \A u \in Threads : u # t => thread'[u] = thread[u]
    BY <2>1, GoesKeepsType DEF Phases, TurnsInv
  <2>3. FlagsOK'
    BY <2>1 DEF TurnsInv, TypeOK, FlagsOK
  <2> QED BY <2>1, <2>2, <2>3, QuietStep DEF Phases, DecidePhases
<1> QED BY <1>1, ClosesKeeps, ReplacesKeeps, ConnectsKeeps DEF ReconnectStep

-----------------------------------------------------------------------------
(* run_login *)

\* A login sends one input at a time, and only where it has just read the
\* prompt.
LEMMA SendKeepsTurns ==
  ASSUME TurnsInv, NEW t \in Threads,
         Sends(t, "naming", "name") \/ Sends(t, "typing", "password")
  PROVE  TurnsInv'
<1> USE DEF TurnsInv
<1>1. /\ thread[t].phase \in {"naming", "typing"} /\ conn.sock \in open
      /\ UNCHANGED <<open, prompt, conn, armed, exhausted, attempt, tickError, stopped, raced>>
      /\ blind' = (blind \/ Deciding(t))
  BY DEF Sends, flagVars
<1>2. /\ thread' \in ThreadType
      /\ thread'[t].phase = "settling"
      /\ \A u \in Threads : u # t => thread'[u] = thread[u]
  <2>1. PICK b \in BOOLEAN : thread' = [thread EXCEPT ![t] = [phase |-> "settling", sent |-> b]]
    <3>1. \A input \in Inputs : (thread[t].sent \/ input = "password") \in BOOLEAN
      OBVIOUS
    <3> QED BY <3>1 DEF Sends, Inputs
  <2> QED BY <1>1, <2>1 DEF TypeOK, Phases, ThreadType
<1>3. PICK input \in {"name", "password"} :
        /\ Types(conn.sock, input)
        /\ input = "password" => thread[t].phase = "typing"
  BY DEF Sends
<1>4. /\ unanswered' \in [Sockets -> Seq(Inputs)]
      /\ unanswered[conn.sock] = <<>> => unanswered'[conn.sock] = <<input>>
      /\ \A r \in Sockets : r # conn.sock => unanswered'[r] = unanswered[r]
  BY <1>1, <1>3, TypesOne DEF Inputs, TypeOK
<1>5. TypeOK'
  <2>1. blind' \in BOOLEAN
    BY <1>1
  <2> QED BY <1>1, <1>2, <1>4, <2>1 DEF TypeOK, ThreadType
<1>6. DownIsQuiet'
  BY <1>1, <1>4 DEF DownIsQuiet
<1>7. RepairInv => RepairInv'
  BY <1>1, <1>2 DEF RepairInv, OneRepairs, OneSocket, CloseBeforeReplace
<1>8. ASSUME ~blind' PROVE InputInv'
  <2>1. InputInv /\ ~Deciding(t)
    BY <1>1, <1>8
  <2>2. /\ conn.sock \in Sockets /\ unanswered'[conn.sock] = <<input>>
        /\ input = "password" => prompt[conn.sock] = "password"
    BY <1>1, <1>3, <1>4, <2>1 DEF InputInv, ReadIsFresh
  <2>3. OneInput'
    BY <1>1, <1>4, <2>1, <2>2 DEF InputInv, OneInput, TypeOK
  <2>4. ReadIsFresh'
    BY <1>2, <2>1, NobodyDecides DEF DecidePhases
  <2> QED BY <2>3, <2>4 DEF InputInv
<1> QED BY <1>1, <1>5, <1>6, <1>7, <1>8

\* The automaton reads the screen and decides.
LEMMA ReadKeeps ==
  ASSUME TurnsInv, NEW t \in Threads, ReadsPrompt(t)
  PROVE  TurnsInv'
<1> USE DEF TurnsInv
<1>1. /\ UNCHANGED <<open, prompt, unanswered, conn, armed, exhausted, attempt,
                     tickError, stopped, raced>>
      /\ blind' = (blind \/ Owes)
  BY DEF ReadsPrompt, wireVars, flagVars
<1>2. PICK p \in {"naming", "typing"} :
        /\ Goes(t, p)
        /\ Shown \in {"door", "password"}
        /\ p = "typing" => Shown = "password"
  BY DEF ReadsPrompt
<1>3. /\ conn.sock \in Sockets /\ prompt[conn.sock] = Shown
      /\ ~blind' => unanswered[conn.sock] = <<>>
  BY <1>1, <1>2, ShownIsFresh
<1>4. p \in Phases /\ p # "nudging" /\ p # "closing" /\ p \notin {"replacing", "connecting"}
  BY DEF Phases
<1>5. /\ thread' \in ThreadType
      /\ thread'[t].phase = p
      /\ \A u \in Threads : u # t => thread'[u] = thread[u]
  BY <1>2, <1>4, GoesKeepsType
<1>6. FlagsOK' /\ (raced => raced') /\ (blind => blind')
  BY <1>1 DEF TypeOK, FlagsOK
<1> QED BY <1>1, <1>2, <1>3, <1>4, <1>5, <1>6, QuietStep

\* A failed attempt.
LEMMA FailKeeps ==
  ASSUME TurnsInv, NEW t \in Threads, Fails(t)
  PROVE  TurnsInv'
<1> USE DEF TurnsInv
<1>1. /\ thread[t].phase = "failed"
      /\ UNCHANGED <<open, prompt, unanswered, conn, armed, stopped, blind>>
      /\ tickError' \in BOOLEAN
  <2>1. (tickError /\ t # "guardian") \in BOOLEAN
    OBVIOUS
  <2> QED BY <2>1 DEF Fails, wireVars
<1>2. CASE t = "guardian" /\ attempt < MaxReconnectAttempts
  <2>1. /\ Goes(t, "closing") /\ UNCHANGED exhausted
        /\ attempt' = attempt + 1 /\ raced' = (raced \/ Repairing(t))
    BY <1>2 DEF Fails
  <2>2. attempt' \in 0..MaxReconnectAttempts
    BY <1>2, <2>1, ReconnectionAssumption DEF TypeOK
  <2>3. FlagsOK' /\ (raced => raced') /\ (blind => blind')
    BY <1>1, <2>1, <2>2 DEF TypeOK, FlagsOK
  <2>4. ~raced' => ~Repairing(t)
    BY <2>1
  <2>5. /\ thread' \in ThreadType
        /\ thread'[t].phase = "closing"
        /\ \A u \in Threads : u # t => thread'[u] = thread[u]
    BY <2>1, GoesKeepsType DEF Phases
  <2> QED BY <1>1, <2>3, <2>4, <2>5, QuietStep DEF Phases, DecidePhases
<1>3. CASE ~(t = "guardian" /\ attempt < MaxReconnectAttempts)
  <2>1. /\ Goes(t, "idle") /\ UNCHANGED raced
        /\ attempt' \in {0, attempt} /\ exhausted' = (exhausted \/ t = "guardian")
    BY <1>3 DEF Fails
  <2>2. attempt' \in 0..MaxReconnectAttempts
    BY <2>1, ReconnectionAssumption DEF TypeOK
  <2>3. FlagsOK' /\ (raced => raced') /\ (blind => blind')
    BY <1>1, <2>1, <2>2 DEF TypeOK, FlagsOK
  <2>4. /\ thread' \in ThreadType
        /\ thread'[t].phase = "idle"
        /\ \A u \in Threads : u # t => thread'[u] = thread[u]
    BY <2>1, GoesKeepsType DEF Phases
  <2> QED BY <1>1, <2>1, <2>3, <2>4, QuietStep DEF Phases, DecidePhases
<1> QED BY <1>2, <1>3

\* What is left of run_login, and what escapes from it, moves its own thread
\* only.
LEMMA LoginKeepsTurns ==
  ASSUME TurnsInv, NEW t \in Threads, LoginStep(t)
  PROVE  TurnsInv'
<1> USE DEF TurnsInv
<1>1. ASSUME NEW p \in {"failed", "idle", "reading"}, Goes(t, p),
             UNCHANGED <<open, prompt, unanswered, conn, stopped, raced, blind>>,
             armed' \in BOOLEAN, exhausted' \in BOOLEAN, tickError' \in BOOLEAN,
             attempt' \in {0, attempt}
      PROVE  TurnsInv'
  <2>1. p \in Phases /\ p \notin DecidePhases /\ p \notin RepairPhases
    BY DEF Phases, DecidePhases, RepairPhases
  <2>2. attempt' \in 0..MaxReconnectAttempts
    BY <1>1, ReconnectionAssumption DEF TypeOK
  <2>3. FlagsOK'
    BY <1>1, <2>2 DEF TypeOK, FlagsOK
  <2>4. /\ thread' \in ThreadType
        /\ thread'[t].phase = p
        /\ \A u \in Threads : u # t => thread'[u] = thread[u]
    BY <1>1, <2>1, GoesKeepsType
  <2> QED BY <1>1, <2>1, <2>3, <2>4, QuietStep DEF RepairPhases
<1>2. armed \in BOOLEAN /\ exhausted \in BOOLEAN /\ tickError \in BOOLEAN
  BY DEF TypeOK
<1>3. CASE GivesUp(t) \/ SendRaises(t) \/ Settles(t)
  BY <1>1, <1>2, <1>3 DEF GivesUp, SendRaises, Settles, wireVars, flagVars, pastVars
<1>4. CASE LoggedIn(t)
  <2>1. /\ Goes(t, "idle") /\ UNCHANGED <<open, prompt, unanswered, conn, stopped, raced, blind>>
        /\ armed' \in BOOLEAN /\ exhausted' \in BOOLEAN /\ tickError' \in BOOLEAN
        /\ attempt' \in {0, attempt}
    BY <1>2, <1>4 DEF LoggedIn, wireVars, pastVars
  <2> QED BY <1>1, <2>1
<1>5. CASE Escapes(t)
  <2>1. (tickError \/ t = "guardian") \in BOOLEAN
    OBVIOUS
  <2>2. /\ Goes(t, "idle") /\ UNCHANGED <<open, prompt, unanswered, conn, stopped, raced, blind>>
        /\ armed' \in BOOLEAN /\ exhausted' \in BOOLEAN /\ tickError' \in BOOLEAN
        /\ attempt' \in {0, attempt}
    BY <1>2, <1>5, <2>1 DEF Escapes, wireVars, pastVars
  <2> QED BY <1>1, <2>2
<1>6. CASE SendIsLost(t)
  <2>1. UNCHANGED <<open, prompt, unanswered, conn, armed, exhausted, attempt, tickError,
                    stopped, raced, blind>>
    BY <1>6 DEF SendIsLost, wireVars, flagVars, pastVars
  <2>2. PICK b \in BOOLEAN : thread' = [thread EXCEPT ![t] = [phase |-> "settling", sent |-> b]]
    <3>1. (thread[t].sent \/ thread[t].phase = "typing") \in BOOLEAN
      OBVIOUS
    <3> QED BY <1>6, <3>1 DEF SendIsLost
  <2>3. /\ thread' \in ThreadType
        /\ thread'[t].phase = "settling"
        /\ \A u \in Threads : u # t => thread'[u] = thread[u]
    BY <2>2 DEF TypeOK, Phases, ThreadType
  <2>4. FlagsOK'
    BY <2>1 DEF TypeOK, FlagsOK
  <2> QED BY <2>1, <2>3, <2>4, QuietStep DEF Phases, DecidePhases
<1>7. CASE Sends(t, "naming", "name") \/ Sends(t, "typing", "password")
  BY <1>7, SendKeepsTurns
<1> QED BY <1>3, <1>4, <1>5, <1>6, <1>7, ReadKeeps, FailKeeps DEF LoginStep

\* A shutdown leaves nothing.
LEMMA ShutdownKeeps ==
  ASSUME TurnsInv, ShutsDown
  PROVE  TurnsInv'
<1>1. /\ stopped' = TRUE /\ open' = {} /\ armed' = FALSE /\ exhausted' = FALSE
      /\ attempt' = 0 /\ tickError' = FALSE /\ UNCHANGED <<raced, blind>>
      /\ prompt' = [s \in Sockets |-> "door"]
      /\ unanswered' = [s \in Sockets |-> <<>>]
      /\ conn' = [sock |-> 0, connected |-> FALSE, stillborn |-> FALSE]
      /\ thread' = [t \in Threads |-> [phase |-> "idle", sent |-> FALSE]]
  BY DEF ShutsDown, pastVars
<1>2. TypeOK'
  <2>1. <<>> \in Seq(Inputs) /\ "door" \in Prompts /\ "idle" \in Phases
    BY DEF Prompts, Phases
  <2>2. 0 \in 0..MaxSockets /\ 0 \in 0..MaxReconnectAttempts
    BY ReconnectionAssumption
  <2> QED BY <1>1, <2>1, <2>2 DEF TurnsInv, TypeOK
<1>3. DownIsQuiet' /\ OneSocket' /\ OneInput'
  BY <1>1 DEF DownIsQuiet, OneSocket, OneInput
<1>4. OneRepairs' /\ CloseBeforeReplace' /\ ReadIsFresh'
  BY <1>1 DEF OneRepairs, CloseBeforeReplace, ReadIsFresh
<1> QED BY <1>2, <1>3, <1>4 DEF TurnsInv, RepairInv, InputInv

\* Every step of the game, the network, the two threads and the shutdown keeps
\* the strengthening.
LEMMA NextTurns ==
  ASSUME TurnsInv, [Next]_vars
  PROVE  TurnsInv'
<1>1. ASSUME NEW s \in Sockets, GameAnswers(s) PROVE TurnsInv'
  BY <1>1, AnswerKeepsTurns
<1>2. ASSUME NEW s \in Sockets, PeerDrops(s) PROVE TurnsInv'
  <2>1. conn' \in ConnType /\ conn'.sock = conn.sock
    BY <1>2 DEF PeerDrops, TurnsInv, TypeOK, ConnType
  <2> QED BY <1>2, <2>1, DownStep DEF PeerDrops
<1>3. CASE ReaderEnds
  <2>1. conn' \in ConnType /\ conn'.sock = conn.sock
    BY <1>3 DEF ReaderEnds, TurnsInv, TypeOK, ConnType
  <2> QED BY <1>3, <2>1, DownStep DEF ReaderEnds, wireVars
<1>4. CASE Disconnect
  BY <1>4, ClosedKeepsType, DownStep DEF Disconnect, CloseConnection, TurnsInv
<1>5. CASE TickConnected \/ Nudges \/ TickDropped \/ EnsureBegins \/ ShutsDown
  BY <1>5, TickConnectedKeeps, NudgeKeeps, TickDroppedKeeps, EnsureKeeps, ShutdownKeeps
<1>6. ASSUME NEW t \in Threads, ThreadStep(t) PROVE TurnsInv'
  BY <1>6, ReconnectKeepsTurns, LoginKeepsTurns DEF ThreadStep
<1>7. CASE UNCHANGED vars
  BY <1>7 DEF vars, TurnsInv, TypeOK, DownIsQuiet, RepairInv, OneRepairs, OneSocket,
              CloseBeforeReplace, InputInv, OneInput, ReadIsFresh
<1> QED BY <1>1, <1>2, <1>3, <1>4, <1>5, <1>6, <1>7 DEF Next

\* The strengthening holds in every state.
THEOREM TurnsKept == Spec => []TurnsInv
<1>1. TurnsInv /\ [Next]_vars => TurnsInv'
  BY NextTurns
<1> QED BY InitTurns, <1>1, PTL DEF Spec

\* No burst makes more than MaxReconnectAttempts attempts, whatever escapes
\* from one and whoever interferes (SessionGuardian._maybe_reconnect).
THEOREM ReconnectionTypeCorrect == Spec => []TypeOK
<1>1. TurnsInv => TypeOK
  BY DEF TurnsInv
<1> QED BY TurnsKept, <1>1, PTL

\* One connection to the game, through any number of drops and repairs, until
\* the two threads have been in Session.reconnect() at once: it closes the old
\* connection before it makes a new one.
THEOREM SocketAlone == Spec => [](~raced => OneSocket)
<1>1. TurnsInv => (~raced => OneSocket)
  BY DEF TurnsInv, RepairInv
<1> QED BY TurnsKept, <1>1, PTL

\* The saved password reaches the game at a password prompt or not at all,
\* until a thread has acted blindly (run_login sends, settles and reads before
\* it sends again).
THEOREM SecretRight == Spec => [](~blind => SecretAtItsPrompt)
<1>1. TurnsInv => (~blind => SecretAtItsPrompt)
  <2> SUFFICES ASSUME OneInput, NEW s \in open, unanswered[s] # <<>>,
                      Head(unanswered[s]) = "password"
               PROVE  prompt[s] = "password"
    BY DEF SecretAtItsPrompt, TurnsInv, InputInv
  <2> QED BY SingleInput
<1> QED BY TurnsKept, <1>1, PTL

\* The keepalive's blank Enter reaches the game at the command prompt or not
\* at all, until a thread has acted blindly (SessionGuardian._maybe_keepalive).
THEOREM NudgeRight == Spec => [](~blind => NudgeAtCommand)
<1>1. TurnsInv => (~blind => NudgeAtCommand)
  <2> SUFFICES ASSUME OneInput, NEW s \in open, unanswered[s] # <<>>,
                      Head(unanswered[s]) = "enter"
               PROVE  prompt[s] = "command"
    BY DEF NudgeAtCommand, TurnsInv, InputInv
  <2> QED BY SingleInput
<1> QED BY TurnsKept, <1>1, PTL

\* Bounded bursts always, and one socket until both threads have been in
\* Session.reconnect() at once; an ensure that logs in beside a burst, or one
\* that begins after it, does no harm.
THEOREM WireKept == Spec => []WireInv
<1>1. TypeOK /\ (~raced => OneSocket) => WireInv
  BY DEF WireInv
<1> QED BY <1>1, ReconnectionTypeCorrect, SocketAlone, PTL

\* Password and keepalive reach their prompts or nothing, until a thread has
\* read a screen the game had not finished or was overtaken between its read
\* and its send: drops, repairs, disconnects, lost sends and another thread's
\* login cannot lead them astray.
THEOREM InputsRight == Spec => []InputsAtTheirPrompts
<1>1. (~blind => SecretAtItsPrompt) /\ (~blind => NudgeAtCommand) => InputsAtTheirPrompts
  BY DEF InputsAtTheirPrompts
<1> QED BY <1>1, SecretRight, NudgeRight, PTL
=============================================================================

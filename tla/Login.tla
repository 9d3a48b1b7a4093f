-------------------------------- MODULE Login --------------------------------
(***************************************************************************)
(* The login automaton (session/login.py): look at the screen, decide one  *)
(* input from its class and from what was already tried, send it, confirm  *)
(* it, look again.  The game is unconstrained: any screen may follow any   *)
(* input, in any order, and a screen may stay.                             *)
(*                                                                         *)
(* A screen is its class; two classes carry a flag: "login_name" may be    *)
(* the outer prompt and may say the name was rejected, "menu" may be the   *)
(* module's own entry menu or offer the profile's game letter.             *)
(***************************************************************************)
EXTENDS Naturals

CONSTANTS
  MaxSteps,      \* _MAX_STEPS
  StagnantLimit, \* _STAGNANT_ROUNDS_LIMIT
  MaxRetries,    \* _MAX_PASSWORD_RETRIES, _MAX_ALIAS_RETRIES
  Target         \* the class the login is for

ASSUME LoginAssumption ==
  /\ MaxSteps \in Nat \ {0} /\ StagnantLimit \in Nat \ {0} /\ MaxRetries \in Nat \ {0}
  /\ Target = "main_command"

VARIABLES
  login,     \* "idle", "look", "wait", "send", "in", "failed"
  register,  \* the profile's allow_register
  shown,     \* the class on the screen
  round,     \* step
  memory,    \* state: [registering, password, passwords, aliases, outer]
  stagnant,  \* stagnant_rounds
  signature, \* last_signature
  letter,    \* session.game_select_letter_sent and game_select_answered
  input,     \* the input being sent
  stored,    \* the store holds the password of the profile
  typed,     \* passwords that reached the wire: [returning, registering]
  error,     \* why it failed
  beyond     \* a screen past the game menu was seen since the letter went out or a menu
             \* was met after two rounds alike (history)

loginVars == <<login, register, shown, round, memory, stagnant, signature, letter,
               input, stored, typed, error, beyond>>

\* "questions": inner name, splash, ANSI prompt; "naming": ship, planet, trader
\* name and the registered interjections, which have fixed answers.
LoginScreens == {"closed", "outer_name", "outer_name_rejected", "questions", "login_alias",
             "fight", "game_select", "entry_menu", "letter_menu", "other_menu",
             "char_create", "login_password", "naming", "unknown", Target}

\* _left_game_select_for_real.
PastGameSelect == {"outer_name", "outer_name_rejected", "questions", "login_alias",
                   "login_password", "char_create", "entry_menu", Target}
GameMenus == {"game_select", "letter_menu"}
AnyMenus == GameMenus \cup {"entry_menu", "other_menu"}

Fresh == [registering |-> "unknown", password |-> FALSE, passwords |-> 0, aliases |-> 0,
          outer |-> FALSE]
NoSignature == <<"none", "none">>
NoInput == [kind |-> "none", secret |-> FALSE]

LoginInit ==
  /\ login = "idle" /\ register = FALSE
  /\ shown = "unknown" /\ round = 0 /\ memory = Fresh /\ stagnant = 0
  /\ signature = NoSignature /\ letter = [sent |-> FALSE, answered |-> FALSE]
  /\ input = NoInput /\ stored = FALSE /\ error = "none"
  /\ typed = [returning |-> 0, registering |-> 0] /\ beyond = FALSE

\* run_login is entered with the session's flags of an earlier attempt.
LoginBegins ==
  /\ login = "idle" /\ login' = "look"
  /\ register' \in BOOLEAN /\ stored' \in BOOLEAN
  /\ shown' \in LoginScreens
  /\ letter' \in [sent : BOOLEAN, answered : BOOLEAN] /\ beyond' = letter'.answered
  /\ UNCHANGED <<round, memory, stagnant, signature, input, typed, error>>

Fails(why) ==
  /\ login' = "failed" /\ error' = why
  /\ UNCHANGED <<register, shown, round, stagnant, signature, input, stored, typed>>

\* The flags as the head of a round leaves them: re-armed by a round that went
\* nowhere on a menu, then settled by any screen past the game menu.
LetterAtOnce ==
  LET rearmed == IF shown \in AnyMenus /\ letter.answered
                 THEN [sent |-> FALSE, answered |-> FALSE] ELSE letter
  IN [rearmed EXCEPT !.answered = @ \/ (rearmed.sent /\ shown \in PastGameSelect)]
LetterNow ==
  LET rearmed == IF shown \in AnyMenus /\ letter.answered /\ stagnant >= 1
                 THEN [sent |-> FALSE, answered |-> FALSE] ELSE letter
  IN [rearmed EXCEPT !.answered = @ \/ (rearmed.sent /\ shown \in PastGameSelect)]

SeenBeyond ==
  beyond' = (~(shown \in AnyMenus /\ stagnant >= 1) /\ (beyond \/ (letter.sent /\ shown \in PastGameSelect)))

\* _decide: what the class calls for, "wait" for nothing, or an error.
Returning == memory.registering # "yes"
NothingSaved == ~memory.password /\ ~stored
Decision ==
  CASE shown = "closed" -> "game_closed"
    [] shown = "outer_name_rejected" -> IF memory.outer THEN "login_name_rejected" ELSE "handle"
    [] shown = "login_alias" -> IF memory.aliases >= MaxRetries THEN "alias_retries_exhausted" ELSE "alias"
    [] shown \in {"outer_name", "questions", "entry_menu", "naming"} -> "answer"
    [] shown = "fight" -> "fight"
    [] shown \in GameMenus -> IF LetterNow.answered THEN "wait" ELSE "letter"
    [] shown = "char_create" -> IF register THEN "register" ELSE "registration_not_permitted"
    [] shown = "login_password" /\ ~Returning ->
         IF memory.passwords >= MaxRetries THEN "password_retries_exhausted" ELSE "password"
    [] shown = "login_password" /\ Returning /\ memory.password -> "wait"
    [] shown = "login_password" /\ Returning /\ NothingSaved -> "returning_no_saved_password"
    [] shown = "login_password" /\ Returning /\ ~memory.password /\ stored -> "password"
    [] OTHER -> "wait"

Errors == {"game_closed", "login_name_rejected", "alias_retries_exhausted",
           "registration_not_permitted", "password_retries_exhausted",
           "returning_no_saved_password", "fight_halt"}

RememberedToRegister(input_) ==
  CASE input_ = "handle" -> [memory EXCEPT !.outer = TRUE]
    [] input_ \in {"alias", "register"} -> [memory EXCEPT !.registering = "yes"]
    [] input_ = "password" -> [memory EXCEPT !.passwords = @ + 1]
    [] OTHER -> memory
\* What _decide remembers of the input it returns.
Remembered(input_) ==
  CASE input_ = "handle" -> [memory EXCEPT !.outer = TRUE]
    [] input_ = "alias" -> [memory EXCEPT !.registering = "yes", !.aliases = @ + 1]
    [] input_ = "register" -> [memory EXCEPT !.registering = "yes"]
    [] input_ = "password" ->
         [memory EXCEPT !.password = TRUE, !.passwords = @ + 1,
                        !.registering = IF @ = "unknown" THEN "no" ELSE @]
    [] input_ = "wait" -> [memory EXCEPT !.registering =
                             IF @ = "unknown" /\ shown = "login_password" THEN "no" ELSE @]
    [] OTHER -> memory

\* A registering login saves its password, old or freshly made, before it
\* types it.
SavesLater(input_) == UNCHANGED stored
SavesFirst(input_) == stored' = (stored \/ (input_ = "password" /\ ~Returning))

\* One round of the loop up to the send.
Arrives ==
  /\ login = "look" /\ round < MaxSteps /\ shown = Target
  /\ login' = "in" /\ letter' = LetterNow /\ SeenBeyond
  /\ UNCHANGED <<register, shown, round, memory, stagnant, signature, input, stored, typed, error>>

Decides ==
  /\ login = "look" /\ round < MaxSteps /\ shown # Target
  /\ letter' = LetterNow /\ SeenBeyond
  /\ \E d \in (IF Decision = "fight" THEN {"answer", "fight_halt"} ELSE {Decision}) :
       \/ d \in Errors /\ Fails(d) /\ UNCHANGED memory
       \/ /\ d \notin Errors \cup {"wait"}
          /\ login' = "send"
          /\ input' = [kind |-> d, secret |-> d = "password"]
          /\ memory' = Remembered(d) /\ SavesFirst(d)
          /\ UNCHANGED <<register, shown, round, stagnant, signature, typed, error>>
       \/ /\ d = "wait" /\ login' = "wait" /\ memory' = Remembered(d)
          /\ UNCHANGED <<register, shown, round, stagnant, signature, input, stored, typed, error>>

\* The for loop over _MAX_STEPS counts every round.
RoundOfSends == IF login = "wait" THEN round ELSE round + 1
NextRound == round + 1

\* Nothing to send: the round is counted, and the third of its kind gives up.
Stagnates(what) == IF signature = what THEN stagnant + 1 ELSE 0
GivesUp(why) == Fails(why) /\ UNCHANGED <<memory, letter, beyond>>
Waits ==
  /\ login = "wait"
  /\ IF Stagnates(<<shown, "wait">>) >= StagnantLimit
     THEN GivesUp(IF shown = "login_password" /\ memory.registering = "no" /\ memory.password
                  THEN "returning_password_rejected" ELSE "automaton_stuck")
     ELSE /\ stagnant' = Stagnates(<<shown, "wait">>) /\ signature' = <<shown, "wait">>
          /\ login' = "look" /\ round' = NextRound /\ shown' \in LoginScreens
          /\ UNCHANGED <<register, memory, letter, input, stored, typed, error, beyond>>

\* The send: the letter and the password are out before it is confirmed.
Types ==
  /\ login = "send"
  /\ letter' = [letter EXCEPT !.sent = @ \/ shown \in GameMenus]
  /\ typed' = IF ~input.secret THEN typed
              ELSE IF Returning THEN [typed EXCEPT !.returning = @ + 1]
              ELSE [typed EXCEPT !.registering = @ + 1]
  /\ input' = NoInput /\ beyond' = (beyond /\ input.kind # "letter")
  /\ UNCHANGED <<register, memory, stored>>

SendRaises == login = "send" /\ GivesUp("send_raised")

Confirmed ==
  /\ Types
  /\ stagnant' = 0 /\ signature' = NoSignature
  /\ login' = "look" /\ round' = NextRound /\ shown' \in LoginScreens
  /\ UNCHANGED error

Unconfirmed ==
  /\ Types
  /\ LET mark == <<shown, "unconfirmed">>
     IN /\ stagnant' = Stagnates(mark) /\ signature' = mark
        /\ \/ /\ Stagnates(mark) >= StagnantLimit
              /\ login' = "failed" /\ error' = "automaton_send_unconfirmed"
              /\ UNCHANGED <<round, shown>>
           \/ /\ Stagnates(mark) < StagnantLimit
              /\ login' = "look" /\ round' = NextRound /\ shown' \in LoginScreens
              /\ UNCHANGED error

Exhausted == login = "look" /\ round = MaxSteps /\ GivesUp("automaton_exhausted_steps")

LoginRound == Arrives \/ Decides \/ Waits \/ SendRaises \/ Confirmed \/ Unconfirmed \/ Exhausted
LoginNext == LoginBegins \/ LoginRound
LoginSpec == LoginInit /\ [][LoginNext]_loginVars

-------------------------------------------------------------------------------
LoginTypeOK ==
  /\ login \in {"idle", "look", "wait", "send", "in", "failed"}
  /\ register \in BOOLEAN /\ shown \in LoginScreens
  /\ round \in 0..MaxSteps /\ stagnant \in 0..StagnantLimit
  /\ memory \in [registering : {"unknown", "no", "yes"}, password : BOOLEAN,
                 passwords : 0..(MaxRetries + 1), aliases : 0..MaxRetries, outer : BOOLEAN]
  /\ letter \in [sent : BOOLEAN, answered : BOOLEAN] /\ stored \in BOOLEAN /\ beyond \in BOOLEAN

\* Whatever screens the game shows in whatever order, a returning account's
\* password is typed once: a rejected or repeated prompt never gets it again.
ReturningPasswordOnce == typed.returning <= 1

\* A password made for a new account is in the store before it is on the wire,
\* so a crash right after the send loses no account.
TypedPasswordIsStored == typed.registering > 0 => stored

\* A password is neither lost to the profile nor spent on the wrong prompt.
PasswordsKept == ReturningPasswordOnce /\ TypedPasswordIsStored

\* The game letter is not typed into whatever comes after the game menu: once
\* a screen past it was seen, it goes out again only when a menu was met right
\* after two rounds that came to nothing alike (one stale repaint of the menu
\* is not enough).
LetterNotRepeated == Types /\ input.kind = "letter" => ~beyond

\* Every login ends, logged in or with a reason.
LoginEnds == login = "look" ~> login \in {"in", "failed"}
===============================================================================

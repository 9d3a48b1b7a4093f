----------------------------- MODULE SharedSession -----------------------------
(***************************************************************************)
(* Which player the one daemon plays, when several windows ask it to:      *)
(* adapters.ensure_session with its change of host, cli.ensure_raw, the    *)
(* ensure dispatch with its identity gates (session/protocol.py), the      *)
(* guardian's replay, the launcher's stop, and what a window explores      *)
(* under the name of its profile.                                          *)
(*                                                                         *)
(* The life of the daemon process is DaemonLifecycle's, the login and its  *)
(* drops Reconnection's: here each is a step or a few.                     *)
(***************************************************************************)
EXTENDS Naturals

CONSTANTS
  Windows,      \* cockpits and command lines
  Cockpits,     \* those that are cockpits: they change the daemon's host, and explore
  Players,      \* profiles
  ServerOf,     \* the server each profile names
  MaxEnsures,   \* bound on the ensures asked for
  Stranger

ASSUME SharedAssumption == Cockpits \subseteq Windows /\ Stranger \notin Players \cup Windows /\ MaxEnsures \in Nat

VARIABLES
  daemon,    \* "gone", "coming", "up", "going"
  host,      \* the server it was spawned for
  stamped,   \* auto_login_profile
  wired,     \* the connection is up
  onScreen,  \* whose command prompt is on the screen
  doing,     \* what each window does
  plays,     \* the profile each window has chosen
  again,     \* it has changed the host already
  dispatching,   \* the window whose ensure holds the seat
  exploring, \* the profile whose world an explore run writes
  ensures,     \* ensures asked for
  sent,      \* passwords sent: whose, to which server
  wrote      \* sectors written: into whose world, of whose galaxy

sharedVars == <<daemon, host, stamped, wired, onScreen, doing, plays, again, dispatching, exploring, ensures, sent, wrote>>
sharedDaemon == <<daemon, host, stamped, wired, onScreen, exploring>>
records == <<ensures, sent, wrote>>

SharedInit ==
  /\ daemon = "gone" /\ host = Stranger /\ stamped = Stranger /\ wired = FALSE /\ onScreen = Stranger
  /\ doing = [w \in Windows |-> "idle"] /\ plays = [w \in Windows |-> Stranger] /\ again = [w \in Windows |-> FALSE]
  /\ dispatching = Stranger /\ exploring = Stranger /\ ensures = 0 /\ sent = {} /\ wrote = {}

-------------------------------------------------------------------------------
(* A window                                                                *)

\* A player is picked from the list, or ensured anew: none of the four gates
\* is about who is being played now.
Ensures(w, p) ==
  /\ doing[w] \in {"idle", "ready", "failed"} /\ ensures < MaxEnsures
  /\ doing' = [doing EXCEPT ![w] = "checks"] /\ plays' = [plays EXCEPT ![w] = p] /\ again' = [again EXCEPT ![w] = FALSE]
  /\ ensures' = ensures + 1
  /\ UNCHANGED <<sharedDaemon, dispatching, sent, wrote>>

\* ensure_raw: without a daemon one is spawned for the profile's server; beside
\* one that is coming or going the new process gives up.
ChecksDaemon(w) ==
  /\ doing[w] = "checks"
  /\ doing' = [doing EXCEPT ![w] = IF daemon = "up" THEN "asks" ELSE "waits"]
  /\ daemon' = IF daemon = "gone" THEN "coming" ELSE daemon
  /\ host' = IF daemon = "gone" THEN ServerOf[plays[w]] ELSE host
  /\ UNCHANGED <<stamped, wired, onScreen, exploring, plays, again, dispatching, records>>
WaitsForSocket(w) ==
  /\ doing[w] = "waits" /\ daemon = "up" /\ doing' = [doing EXCEPT ![w] = "asks"]
  /\ UNCHANGED <<sharedDaemon, plays, again, dispatching, records>>

\* The dispatch takes the seat or is refused.
AsksDaemon(w) ==
  /\ doing[w] = "asks"
  /\ \/ /\ daemon = "up" /\ dispatching = Stranger /\ exploring = Stranger
        /\ dispatching' = w /\ doing' = [doing EXCEPT ![w] = "gate"]
     \/ /\ daemon # "up" \/ dispatching # Stranger \/ exploring # Stranger
        /\ doing' = [doing EXCEPT ![w] = "failed"] /\ UNCHANGED dispatching
  /\ UNCHANGED <<sharedDaemon, plays, again, records>>

\* Mutated form of SameServer: a command prompt is proof enough.
AnyServer(p) == TRUE
\* _session_identity_mismatch: the server, and nothing else.
SameServer(p) == host = ServerOf[p]

\* Mutated form of Mismatched: as often as it takes.
StopsAgain(w) == IF w \in Cockpits THEN "stops" ELSE "failed"
\* An answer is given up with the seat; a cockpit whose profile names another
\* server has the daemon stopped, once.
RepliesTo(w, answer) == doing' = [doing EXCEPT ![w] = answer] /\ dispatching' = Stranger
Mismatched(w) == IF w \in Cockpits /\ ~again[w] THEN "stops" ELSE "failed"

FirstGate(w) ==
  /\ dispatching = w /\ doing[w] = "gate"
  /\ IF SameServer(plays[w])
     THEN doing' = [doing EXCEPT ![w] = IF wired THEN "looks" ELSE "repairs"] /\ UNCHANGED dispatching
     ELSE RepliesTo(w, Mismatched(w))
  /\ UNCHANGED <<sharedDaemon, plays, again, records>>
Repairs(w) ==
  /\ dispatching = w /\ doing[w] = "repairs"
  /\ \/ /\ doing' = [doing EXCEPT ![w] = "looks"] /\ wired' = TRUE /\ onScreen' = Stranger /\ UNCHANGED dispatching
     \/ RepliesTo(w, "failed") /\ wired' = FALSE /\ UNCHANGED onScreen
  /\ UNCHANGED <<daemon, host, stamped, exploring, plays, again, records>>
\* A command prompt is taken for the profile's own.
LooksIfThere(w) ==
  /\ dispatching = w /\ doing[w] = "looks"
  /\ IF ~SameServer(plays[w]) THEN RepliesTo(w, Mismatched(w)) /\ UNCHANGED stamped
     ELSE IF onScreen # Stranger THEN RepliesTo(w, "ready") /\ stamped' = plays[w]
     ELSE doing' = [doing EXCEPT ![w] = "logs in"] /\ UNCHANGED <<dispatching, stamped>>
  /\ UNCHANGED <<daemon, host, wired, onScreen, exploring, plays, again, records>>
LogsIn(w) ==
  /\ dispatching = w /\ doing[w] = "logs in"
  /\ \/ \* the guardian has been quicker
        /\ onScreen # Stranger /\ doing' = [doing EXCEPT ![w] = "stamps"]
        /\ UNCHANGED <<onScreen, dispatching, sent>>
     \/ /\ onScreen = Stranger /\ sent' = sent \cup {<<plays[w], host>>}
        /\ \/ wired /\ onScreen' = plays[w] /\ doing' = [doing EXCEPT ![w] = "stamps"] /\ UNCHANGED dispatching
           \/ RepliesTo(w, "failed") /\ UNCHANGED onScreen
  /\ UNCHANGED <<daemon, host, stamped, wired, exploring, plays, again, ensures, wrote>>
StampsProfile(w) ==
  /\ dispatching = w /\ doing[w] = "stamps"
  /\ IF SameServer(plays[w]) THEN RepliesTo(w, "ready") /\ stamped' = plays[w]
     ELSE RepliesTo(w, Mismatched(w)) /\ UNCHANGED stamped
  /\ UNCHANGED <<daemon, host, wired, onScreen, exploring, plays, again, records>>

\* _retarget_after_identity_mismatch: stop, whatever daemon answers, wait until it
\* is gone, and ensure once more.
StopsHost(w) ==
  /\ doing[w] = "stops"
  /\ doing' = [doing EXCEPT ![w] = "awaits end"] /\ again' = [again EXCEPT ![w] = TRUE]
  /\ daemon' = IF daemon = "up" THEN "going" ELSE daemon
  /\ UNCHANGED <<host, stamped, wired, onScreen, exploring, plays, dispatching, records>>
EndSeen(w) ==
  /\ doing[w] = "awaits end" /\ daemon = "gone" /\ doing' = [doing EXCEPT ![w] = "checks"]
  /\ UNCHANGED <<sharedDaemon, plays, again, dispatching, records>>

\* The budget of an ensure runs out while it waits for the daemon.
TimesOut(w) ==
  /\ doing[w] \in {"waits", "awaits end"} /\ doing' = [doing EXCEPT ![w] = "failed"]
  /\ UNCHANGED <<sharedDaemon, plays, again, dispatching, records>>

\* The launcher's quit, confirmed; the stop verb asks nobody.
Quits(w) ==
  /\ w \in Cockpits /\ doing[w] \in {"ready", "failed"} /\ daemon = "up"
  /\ daemon' = "going" /\ doing' = [doing EXCEPT ![w] = "idle"] /\ plays' = [plays EXCEPT ![w] = Stranger]
  /\ UNCHANGED <<host, stamped, wired, onScreen, exploring, again, dispatching, records>>

\* A cockpit whose ensure was answered explores under its profile's world.
Explores(w) ==
  /\ w \in Cockpits /\ doing[w] = "ready" /\ daemon = "up" /\ dispatching = Stranger /\ exploring = Stranger
  /\ exploring' = plays[w]
  /\ UNCHANGED <<daemon, host, stamped, wired, onScreen, doing, plays, again, dispatching, records>>

-------------------------------------------------------------------------------
(* The daemon and its connection                                           *)

\* Up, connected to its host and nobody's yet; or it could not connect.
ComesUp ==
  /\ daemon = "coming"
  /\ \/ daemon' = "up" /\ wired' = TRUE /\ UNCHANGED host
     \/ daemon' = "gone" /\ host' = Stranger /\ UNCHANGED wired
  /\ stamped' = Stranger /\ onScreen' = Stranger
  /\ UNCHANGED <<exploring, doing, plays, again, dispatching, records>>
\* A dispatch under way is answered by nobody.
DaemonEnds ==
  /\ daemon = "going" /\ daemon' = "gone"
  /\ host' = Stranger /\ stamped' = Stranger /\ wired' = FALSE /\ onScreen' = Stranger /\ exploring' = Stranger /\ dispatching' = Stranger
  /\ doing' = [w \in Windows |-> IF w = dispatching THEN "failed" ELSE doing[w]]
  /\ UNCHANGED <<plays, again, records>>

\* The server hangs up, or the disconnect verb does: the screen stays as it was.
HangsUp ==
  /\ wired /\ wired' = FALSE
  /\ UNCHANGED <<daemon, host, stamped, onScreen, exploring, doing, plays, again, dispatching, records>>

\* The guardian's burst: the profile of the stamp, on the session's own host.
GuardianReplays ==
  /\ daemon = "up" /\ ~wired /\ stamped # Stranger
  /\ wired' = TRUE /\ sent' = sent \cup {<<stamped, host>>}
  /\ onScreen' \in {Stranger, stamped}
  /\ UNCHANGED <<daemon, host, stamped, exploring, doing, plays, again, dispatching, ensures, wrote>>

\* A run reads sectors off the screen and files them, or ends.
FilesSector ==
  /\ daemon = "up" /\ exploring # Stranger
  /\ \/ wired /\ onScreen # Stranger /\ wrote' = wrote \cup {<<exploring, onScreen>>} /\ UNCHANGED exploring
     \/ exploring' = Stranger /\ UNCHANGED wrote
  /\ UNCHANGED <<daemon, host, stamped, wired, onScreen, doing, plays, again, dispatching, ensures, sent>>

-------------------------------------------------------------------------------
EnsureStep(w) ==
  \/ ChecksDaemon(w) \/ WaitsForSocket(w) \/ AsksDaemon(w) \/ FirstGate(w) \/ Repairs(w) \/ LooksIfThere(w) \/ LogsIn(w) \/ StampsProfile(w)
  \/ StopsHost(w) \/ EndSeen(w)
SharedNext ==
  \/ \E w \in Windows : EnsureStep(w) \/ TimesOut(w) \/ Quits(w) \/ Explores(w) \/ \E p \in Players : Ensures(w, p)
  \/ ComesUp \/ DaemonEnds \/ HangsUp \/ GuardianReplays \/ FilesSector
SharedSpec == SharedInit /\ [][SharedNext]_sharedVars

Ensuring == {"checks", "waits", "asks", "gate", "repairs", "looks", "logs in", "stamps", "stops", "awaits end"}

SharedTypeOK ==
  /\ daemon \in {"gone", "coming", "up", "going"} /\ wired \in BOOLEAN /\ ensures \in 0..MaxEnsures
  /\ {stamped, onScreen, exploring} \subseteq Players \cup {Stranger} /\ dispatching \in Windows \cup {Stranger}
  /\ doing \in [Windows -> Ensuring \cup {"idle", "ready", "failed"}] /\ plays \in [Windows -> Players \cup {Stranger}]

\* A password goes to the server its profile names, whoever stopped, spawned and
\* stamped the daemon in between, and whatever the guardian replays.
PasswordAtHome == \A s \in sent : s[2] = ServerOf[s[1]]

\* What the guardian would replay, and who is in the game, belong to the server
\* the daemon is connected to.
StampAtHome ==
  /\ stamped # Stranger => host = ServerOf[stamped]
  /\ onScreen # Stranger => host = ServerOf[onScreen]

\* A window that is told "ready" and has asked for a login has the daemon's seat
\* free again; an ensure that holds it is the only one past its gate.
OneDriver == \A w \in Windows : doing[w] \in {"gate", "repairs", "looks", "logs in", "stamps"} <=> dispatching = w

PlayersApart == PasswordAtHome /\ StampAtHome /\ OneDriver

\* world_identity.py: two characters are two worlds, and what is mapped of one
\* never goes into the store of the other.
NoGalaxyBleed == \A b \in wrote : b[1] = b[2]

\* Every ensure is answered, also when two windows want different servers.
EnsureEnds == \A w \in Windows : doing[w] \in Ensuring ~> doing[w] \notin Ensuring
===============================================================================

--------------------------- MODULE CredentialStore ---------------------------
(***************************************************************************)
(* Who writes secrets.json and profiles.toml, and how.  A login merges its *)
(* entry into secrets.json through a temporary file of a FIXED name and an *)
(* atomic rename (protocol._merge_secret_entry); the new-profile form      *)
(* rewrites profiles.toml in place (credentials.create_profile).  No lock  *)
(* is taken, and the files are shared by every daemon and shell of the     *)
(* configuration directory.                                                *)
(*                                                                         *)
(* A file is an inode; a writer keeps the inode it opened, whatever name   *)
(* points to it later.  An inode is torn while it holds less, or other,    *)
(* than one whole document.                                                *)
(***************************************************************************)
EXTENDS Naturals, FiniteSets

CONSTANTS
  Savers,   \* processes that save a secret entry, one each
  Creators, \* processes that create a profile, one each
  Nobody    \* no inode, no writer

ASSUME StoreAssumption == Nobody \notin Savers \cup Creators /\ Savers \cap Creators = {}

Writers == Savers \cup Creators

VARIABLES
  step,     \* [Writers -> where the writer is]
  copy,     \* [Writers -> the entries it read]
  fd,       \* [Writers -> the inode it writes], named after who created it
  content,  \* [inode -> [torn, entries]]
  secrets,  \* the inode of secrets.json, or Nobody
  tmp,      \* the inode of secrets.json.tmp, or Nobody
  profiles, \* [torn, entries] of profiles.toml
  saved,    \* writers whose call returned (history)
  met,      \* two writers of one file were at it at once (history)
  killed    \* a writer died with profiles.toml open (history)

storeVars == <<step, copy, fd, content, secrets, tmp, profiles, saved, met, killed>>
historyVars == <<saved, met, killed>>
fileVars == <<content, secrets, tmp, profiles>>

Empty == [torn |-> FALSE, entries |-> {}]
Torn == [torn |-> TRUE, entries |-> {}]
Resting == {"idle", "done", "dead", "raised"}

StoreInit ==
  /\ step = [w \in Writers |-> "idle"] /\ copy = [w \in Writers |-> {}]
  /\ fd = [w \in Writers |-> Nobody] /\ content = [w \in Savers |-> Empty]
  /\ secrets = Nobody /\ tmp = Nobody /\ profiles = Empty
  /\ saved = {} /\ met = {} /\ killed = FALSE

Others(w) == (IF w \in Savers THEN Savers ELSE Creators) \ {w}
Goes(w, to) == step' = [step EXCEPT ![w] = to]

\* Each writer begins by reading the whole file; json.load raises on a torn one.
Secrets == IF secrets = Nobody THEN Empty ELSE content[secrets]
Reads(w) ==
  /\ step[w] = "idle"
  /\ LET file == IF w \in Savers THEN Secrets ELSE profiles
     IN /\ copy' = [copy EXCEPT ![w] = file.entries]
        /\ Goes(w, IF w \in Savers /\ file.torn THEN "raised" ELSE "read")
  /\ met' = IF \E o \in Others(w) : step[o] \notin Resting THEN met \cup {w} ELSE met
  /\ UNCHANGED <<fd, fileVars, saved, killed>>

OpensSecrets(w) ==
  /\ w \in Savers /\ step[w] = "read"
  /\ LET inode == IF secrets = Nobody THEN w ELSE secrets
     IN /\ secrets' = inode /\ fd' = [fd EXCEPT ![w] = inode]
        /\ content' = [content EXCEPT ![inode] = Torn]
  /\ Goes(w, "opened")
  /\ UNCHANGED <<copy, tmp, profiles, historyVars>>
\* os.open(tmp, O_CREAT | O_TRUNC): a leftover of the name is emptied and used.
OpensTmp(w) ==
  /\ w \in Savers /\ step[w] = "read"
  /\ LET inode == IF tmp = Nobody THEN w ELSE tmp
     IN /\ tmp' = inode /\ fd' = [fd EXCEPT ![w] = inode]
        /\ content' = [content EXCEPT ![inode] = Torn]
  /\ Goes(w, "opened")
  /\ UNCHANGED <<copy, secrets, profiles, historyVars>>

\* json.dump into the open file: on top of what another writer put there, the
\* longer document keeps its tail.
DocumentAlone(w) == [torn |-> FALSE, entries |-> {w}]
Document(w) == [torn |-> FALSE, entries |-> copy[w] \cup {w}]
DumpsJson(w) ==
  /\ w \in Savers /\ step[w] = "opened"
  /\ \E doc \in {Document(w)} \cup (IF content[fd[w]].torn THEN {} ELSE {Torn}) :
       content' = [content EXCEPT ![fd[w]] = doc]
  /\ Goes(w, "written")
  /\ UNCHANGED <<copy, fd, secrets, tmp, profiles, historyVars>>

\* os.chmod and os.replace of the temporary NAME, whoever's inode it is by now.
ReplacesSecrets(w) ==
  /\ w \in Savers /\ step[w] = "written"
  /\ IF tmp = Nobody
     THEN Goes(w, "raised") /\ UNCHANGED <<secrets, tmp, saved>>
     ELSE /\ secrets' = tmp /\ tmp' = Nobody
          /\ Goes(w, "done") /\ saved' = saved \cup {w}
  /\ UNCHANGED <<copy, fd, content, profiles, met, killed>>

\* create_profile: the section must be new, the catalog must know the server;
\* then write_text truncates the file and fills it.
RefusesProfile(w) ==
  /\ w \in Creators /\ step[w] = "read" /\ Goes(w, "raised")
  /\ UNCHANGED <<copy, fd, fileVars, historyVars>>
TruncatesProfiles(w) ==
  /\ w \in Creators /\ step[w] = "read"
  /\ profiles' = Torn /\ Goes(w, "opened")
  /\ UNCHANGED <<copy, fd, content, secrets, tmp, historyVars>>
WritesProfiles(w) ==
  /\ w \in Creators /\ step[w] = "opened"
  /\ profiles' = Document(w) /\ Goes(w, "done") /\ saved' = saved \cup {w}
  /\ UNCHANGED <<copy, fd, content, secrets, tmp, met, killed>>

Dies(w) ==
  /\ step[w] \notin Resting /\ Goes(w, "dead")
  /\ killed' = (killed \/ (w \in Creators /\ step[w] = "opened"))
  /\ UNCHANGED <<copy, fd, fileVars, saved, met>>

StoreNext == \E w \in Writers :
  \/ Reads(w) \/ OpensTmp(w) \/ DumpsJson(w) \/ ReplacesSecrets(w)
  \/ RefusesProfile(w) \/ TruncatesProfiles(w) \/ WritesProfiles(w)
  \/ Dies(w)
StoreSpec == StoreInit /\ [][StoreNext]_storeVars

-------------------------------------------------------------------------------
StoreTypeOK ==
  /\ step \in [Writers -> Resting \cup {"read", "opened", "written"}]
  /\ copy \in [Writers -> SUBSET Writers]
  /\ fd \in [Writers -> Savers \cup {Nobody}]
  /\ content \in [Savers -> [torn : BOOLEAN, entries : SUBSET Writers]]
  /\ secrets \in Savers \cup {Nobody} /\ tmp \in Savers \cup {Nobody}
  /\ profiles \in [torn : BOOLEAN, entries : SUBSET Writers]
  /\ saved \subseteq Writers /\ met \subseteq Writers /\ killed \in BOOLEAN

\* Whoever dies where, secrets.json is a whole document with every password
\* that was saved, unless two logins saved at once (the rename is atomic, the
\* read-modify-write is not).
SecretsKept ==
  met \cap Savers = {} => ~Secrets.torn /\ saved \cap Savers \subseteq Secrets.entries

\* profiles.toml keeps every profile that was created, unless two were created
\* at once or a process died while it rewrote the file.
ProfilesKept ==
  met \cap Creators = {} /\ ~killed /\ (\A c \in Creators : step[c] # "opened") =>
    ~profiles.torn /\ saved \cap Creators \subseteq profiles.entries

\* What was stored in either file before a writer was killed is there after it.
CredentialsKept == SecretsKept /\ ProfilesKept
===============================================================================

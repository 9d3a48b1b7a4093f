------------------------------ MODULE StoreProofs ------------------------------
(***************************************************************************)
(* What the files on disk keep: the credential files (CredentialStore),    *)
(* the documents of a world (WorldStore) and what was taught (TaughtStore).*)
(* Each store is a specification of its own; for each an invariant that    *)
(* every step of every writer keeps, from which what the runs check        *)
(* follows for any number of writers, names, sectors and stems.            *)
(***************************************************************************)
EXTENDS CredentialStore, WorldStore, TaughtStore, TLAPS

-----------------------------------------------------------------------------
(* The credential files *)

\* A saver at work; savers and creators come one at a time as long as none met
\* another of its kind.
Active(w) == step[w] \notin Resting
OneSaver == \A v, w \in Savers : Active(v) /\ Active(w) => v = w
OneCreator == \A v, w \in Creators : Active(v) /\ Active(w) => v = w

\* An inode is named after the saver that made it, which does so once.
OwnInodes == \A w \in Savers : step[w] \in {"idle", "read"} => secrets # w /\ tmp # w

\* secrets.json is whole with all that was saved; the saver at work has read it
\* and fills the temporary file, which is another inode.
SecretsInv ==
  /\ OneSaver
  /\ ~Secrets.torn /\ saved \cap Savers \subseteq Secrets.entries
  /\ secrets \in Savers => secrets # tmp
  /\ \A w \in Savers :
       /\ Active(w) => copy[w] = Secrets.entries
       /\ step[w] \in {"opened", "written"} => fd[w] \in Savers /\ tmp = fd[w]
       /\ step[w] = "opened" => content[fd[w]].torn
       /\ step[w] = "written" => content[fd[w]] = Document(w)

ProfilesInv ==
  /\ OneCreator
  /\ \A w \in Creators :
       /\ Active(w) => saved \cap Creators \subseteq copy[w]
       /\ step[w] # "written"
  /\ (\A w \in Creators : step[w] # "opened") => ~profiles.torn /\ saved \cap Creators \subseteq profiles.entries

CredentialsInv ==
  /\ StoreTypeOK
  /\ OwnInodes
  /\ met \cap Savers = {} => SecretsInv
  /\ met \cap Creators = {} /\ ~killed => ProfilesInv

\* What a step of a creator leaves of the savers' file, and the other way round.
LEMMA SecretsUntouched ==
  ASSUME UNCHANGED <<fd, content, secrets, tmp>>, saved' \cap Savers = saved \cap Savers,
         \A w \in Savers : step'[w] = step[w] /\ copy'[w] = copy[w]
  PROVE  (OwnInodes => OwnInodes') /\ (SecretsInv => SecretsInv')
BY DEF OwnInodes, SecretsInv, OneSaver, Active, Secrets, Document

\* The other way round: no saver touches profiles.toml.
LEMMA ProfilesUntouched ==
  ASSUME UNCHANGED profiles, saved' \cap Creators = saved \cap Creators,
         \A w \in Creators : step'[w] = step[w] /\ copy'[w] = copy[w]
  PROVE  ProfilesInv => ProfilesInv'
BY DEF ProfilesInv, OneCreator, Active

\* Every step of every writer is well-typed.
LEMMA StoreTypes == ASSUME StoreTypeOK, StoreNext PROVE StoreTypeOK'
<1> USE StoreAssumption DEF StoreTypeOK, Writers, Goes, Resting, fileVars, historyVars, Empty, Torn
<1>1. PICK w \in Writers : \/ Reads(w) \/ OpensTmp(w) \/ DumpsJson(w) \/ ReplacesSecrets(w)
                           \/ RefusesProfile(w) \/ TruncatesProfiles(w) \/ WritesProfiles(w) \/ Dies(w)
  BY DEF StoreNext
<1>2. CASE Reads(w)
  BY <1>2 DEF Reads, Secrets
<1>3. CASE OpensTmp(w)
  BY <1>3 DEF OpensTmp
<1>4. CASE DumpsJson(w)
  <2>1. Document(w) \in [torn : BOOLEAN, entries : SUBSET Writers] /\ Torn \in [torn : BOOLEAN, entries : SUBSET Writers]
    BY DEF Document
  <2>2. PICK doc \in {Document(w), Torn} : content' = [content EXCEPT ![fd[w]] = doc]
    BY <1>4 DEF DumpsJson
  <2>3. content' \in [Savers -> [torn : BOOLEAN, entries : SUBSET Writers]]
    BY <2>1, <2>2
  <2>4. step' = [step EXCEPT ![w] = "written"] /\ UNCHANGED <<copy, fd, secrets, tmp, profiles, saved, met, killed>>
    BY <1>4 DEF DumpsJson
  <2> QED BY <2>3, <2>4
<1>5. CASE ReplacesSecrets(w)
  BY <1>5 DEF ReplacesSecrets
<1>6. CASE RefusesProfile(w) \/ TruncatesProfiles(w) \/ WritesProfiles(w)
  <2>1. Document(w) \in [torn : BOOLEAN, entries : SUBSET Writers]
    BY DEF Document
  <2>2. step' \in [Writers -> Resting \cup {"read", "opened", "written"}]
    BY <1>6 DEF RefusesProfile, TruncatesProfiles, WritesProfiles
  <2>3. profiles' \in [torn : BOOLEAN, entries : SUBSET Writers]
    <3>1. profiles' \in {profiles, Torn, Document(w)}
      BY <1>6 DEF RefusesProfile, TruncatesProfiles, WritesProfiles
    <3>2. profiles \in [torn : BOOLEAN, entries : SUBSET Writers] /\ Torn \in [torn : BOOLEAN, entries : SUBSET Writers]
      OBVIOUS
    <3> HIDE DEF StoreTypeOK, Torn
    <3> QED BY <2>1, <3>1, <3>2
  <2>4. saved' \subseteq Writers /\ UNCHANGED <<copy, fd, content, secrets, tmp, met, killed>>
    BY <1>6 DEF RefusesProfile, TruncatesProfiles, WritesProfiles
  <2> QED BY <2>2, <2>3, <2>4
<1>7. CASE Dies(w)
  BY <1>7 DEF Dies
<1> QED BY <1>1, <1>2, <1>3, <1>4, <1>5, <1>6, <1>7

\* A saver at work, as long as savers come one at a time.
LEMMA SaverSteps ==
  ASSUME CredentialsInv, NEW w \in Savers,
         Reads(w) \/ OpensTmp(w) \/ DumpsJson(w) \/ ReplacesSecrets(w) \/ Dies(w)
  PROVE  OwnInodes' /\ (met' \cap Savers = {} => SecretsInv')
<1> USE StoreAssumption DEF CredentialsInv, StoreTypeOK, Writers, Goes, fileVars, historyVars
<1>1. met' \cap Savers = {} => met \cap Savers = {}
  BY DEF Reads, OpensTmp, DumpsJson, ReplacesSecrets, Dies
<1>2. CASE Reads(w)
  <2>1. OwnInodes'
    BY <1>2 DEF Reads, OwnInodes
  <2>2. ASSUME met' \cap Savers = {} PROVE SecretsInv'
    <3>1. SecretsInv /\ \A o \in Savers \ {w} : ~Active(o)
      BY <1>1, <1>2, <2>2 DEF Reads, Others, Active
    <3>2. UNCHANGED <<fd, content, secrets, tmp, profiles, saved>> /\ copy' = [copy EXCEPT ![w] = Secrets.entries]
          /\ step' = [step EXCEPT ![w] = "read"]
      BY <1>2, <3>1 DEF Reads, SecretsInv
    <3>3. Secrets' = Secrets
      BY <3>2 DEF Secrets
    <3> QED BY <3>1, <3>2, <3>3 DEF SecretsInv, OneSaver, Active, Resting
  <2> QED BY <2>1, <2>2
<1>3. CASE OpensTmp(w)
  <2> DEFINE inode == IF tmp = Nobody THEN w ELSE tmp
  <2>1. /\ step[w] = "read" /\ step' = [step EXCEPT ![w] = "opened"] /\ tmp' = inode /\ inode \in Savers
        /\ fd' = [fd EXCEPT ![w] = inode] /\ content' = [content EXCEPT ![inode] = Torn]
        /\ UNCHANGED <<copy, secrets, profiles, saved, met, killed>>
    BY <1>3 DEF OpensTmp
  <2>2. OwnInodes'
    BY <2>1 DEF OwnInodes
  <2>3. ASSUME met' \cap Savers = {} PROVE SecretsInv'
    <3>1. SecretsInv /\ Active(w) /\ \A o \in Savers \ {w} : ~Active(o)
      BY <1>1, <2>1, <2>3 DEF SecretsInv, OneSaver, Active, Resting
    <3>2. secrets \in Savers => secrets # inode
      BY <2>1, <3>1 DEF OwnInodes, SecretsInv
    <3>3. Secrets' = Secrets
      BY <2>1, <3>2 DEF Secrets
    <3> HIDE DEF inode
    <3> QED BY <2>1, <3>1, <3>2, <3>3 DEF SecretsInv, OneSaver, Active, Resting, Torn
  <2> QED BY <2>2, <2>3
<1>4. CASE DumpsJson(w)
  <2>1. /\ step[w] = "opened" /\ step' = [step EXCEPT ![w] = "written"]
        /\ UNCHANGED <<copy, fd, secrets, tmp, profiles, saved, met, killed>>
    BY <1>4 DEF DumpsJson
  <2>2. OwnInodes'
    BY <2>1 DEF OwnInodes
  <2>3. ASSUME met' \cap Savers = {} PROVE SecretsInv'
    <3>1. SecretsInv /\ Active(w) /\ \A o \in Savers \ {w} : ~Active(o)
      BY <1>1, <2>1, <2>3 DEF SecretsInv, OneSaver, Active, Resting
    <3>2. content' = [content EXCEPT ![fd[w]] = Document(w)] /\ fd[w] \in Savers /\ tmp = fd[w]
      BY <1>4, <2>1, <3>1 DEF DumpsJson, SecretsInv
    <3>3. Secrets' = Secrets /\ Document(w)' = Document(w)
      BY <2>1, <3>1, <3>2 DEF Secrets, SecretsInv, Document
    <3> QED BY <2>1, <3>1, <3>2, <3>3 DEF SecretsInv, OneSaver, Active, Resting
  <2> QED BY <2>2, <2>3
<1>5. CASE ReplacesSecrets(w)
  <2>1. OwnInodes'
    BY <1>5 DEF ReplacesSecrets, OwnInodes
  <2>2. ASSUME met' \cap Savers = {} PROVE SecretsInv'
    <3>1. SecretsInv /\ step[w] = "written"
      BY <1>1, <1>5, <2>2 DEF ReplacesSecrets
    <3>2. Active(w) /\ \A o \in Savers \ {w} : ~Active(o)
      BY <3>1 DEF SecretsInv, OneSaver, Active, Resting
    <3>3. /\ tmp \in Savers /\ secrets' = tmp /\ tmp' = Nobody /\ step' = [step EXCEPT ![w] = "done"]
          /\ saved' = saved \cup {w} /\ UNCHANGED <<copy, fd, content, profiles, met, killed>>
      BY <1>5, <3>1 DEF ReplacesSecrets, SecretsInv
    <3>4. Secrets' = Document(w)
      BY <3>1, <3>3 DEF Secrets, SecretsInv
    <3>5. Document(w).entries = Secrets.entries \cup {w} /\ ~Document(w).torn
      BY <3>1, <3>2 DEF Document, SecretsInv
    <3> QED BY <3>1, <3>2, <3>3, <3>4, <3>5 DEF SecretsInv, OneSaver, Active, Resting
  <2> QED BY <2>1, <2>2
<1>6. CASE Dies(w)
  <2>1. step' = [step EXCEPT ![w] = "dead"] /\ UNCHANGED <<copy, fd, content, secrets, tmp, profiles, saved, met>>
    BY <1>6 DEF Dies
  <2>2. OwnInodes'
    BY <2>1 DEF OwnInodes
  <2>3. SecretsInv => SecretsInv'
    BY <2>1 DEF SecretsInv, OneSaver, Active, Resting, Secrets, Document
  <2> QED BY <1>1, <2>2, <2>3
<1> QED BY <1>2, <1>3, <1>4, <1>5, <1>6

\* A creator at work, as long as creators come one at a time and none is killed
\* with the file open.
LEMMA CreatorSteps ==
  ASSUME CredentialsInv, NEW w \in Creators,
         Reads(w) \/ RefusesProfile(w) \/ TruncatesProfiles(w) \/ WritesProfiles(w) \/ Dies(w)
  PROVE  met' \cap Creators = {} /\ ~killed' => ProfilesInv'
<1> USE StoreAssumption DEF CredentialsInv, StoreTypeOK, Writers, Goes, fileVars, historyVars
<1> SUFFICES ASSUME met' \cap Creators = {}, ~killed' PROVE ProfilesInv'
  OBVIOUS
<1>1. met \cap Creators = {} /\ ~killed
  BY DEF Reads, RefusesProfile, TruncatesProfiles, WritesProfiles, Dies
<1>2. CASE Reads(w)
  <2>1. ProfilesInv /\ \A o \in Creators \ {w} : ~Active(o)
    BY <1>1, <1>2 DEF Reads, Others, Active
  <2>2. UNCHANGED <<profiles, saved>> /\ copy' = [copy EXCEPT ![w] = profiles.entries]
        /\ step' = [step EXCEPT ![w] = "read"] /\ step[w] = "idle"
    BY <1>2 DEF Reads
  <2>3. saved \cap Creators \subseteq profiles.entries /\ ~profiles.torn
    BY <2>1, <2>2 DEF ProfilesInv, Active, Resting
  <2> QED BY <2>1, <2>2, <2>3 DEF ProfilesInv, OneCreator, Active, Resting
<1>3. CASE RefusesProfile(w)
  BY <1>1, <1>3 DEF RefusesProfile, ProfilesInv, OneCreator, Active, Resting
<1>4. CASE TruncatesProfiles(w)
  BY <1>1, <1>4 DEF TruncatesProfiles, ProfilesInv, OneCreator, Active, Resting
<1>5. CASE WritesProfiles(w)
  <2>1. /\ step[w] = "opened" /\ profiles' = Document(w) /\ step' = [step EXCEPT ![w] = "done"]
        /\ saved' = saved \cup {w} /\ UNCHANGED copy
    BY <1>5 DEF WritesProfiles
  <2>2. ProfilesInv /\ Active(w) /\ \A o \in Creators \ {w} : ~Active(o)
    BY <1>1, <2>1 DEF ProfilesInv, OneCreator, Active, Resting
  <2>3. ~profiles'.torn /\ saved' \cap Creators \subseteq profiles'.entries
    BY <2>1, <2>2 DEF ProfilesInv, Document
  <2> QED BY <2>1, <2>2, <2>3 DEF ProfilesInv, OneCreator, Active, Resting
<1>6. CASE Dies(w)
  BY <1>1, <1>6 DEF Dies, ProfilesInv, OneCreator, Active, Resting
<1> QED BY <1>2, <1>3, <1>4, <1>5, <1>6

\* Every step of either keeps both files.
LEMMA NextCredentials == ASSUME CredentialsInv, [StoreNext]_storeVars PROVE CredentialsInv'
<1>1. CASE UNCHANGED storeVars
  <2>1. StoreTypeOK'
    BY <1>1 DEF storeVars, CredentialsInv, StoreTypeOK
  <2> QED BY <1>1, <2>1, SecretsUntouched, ProfilesUntouched DEF storeVars, CredentialsInv
<1>2. ASSUME NEW w \in Savers,
             Reads(w) \/ OpensTmp(w) \/ DumpsJson(w) \/ ReplacesSecrets(w) \/ Dies(w)
      PROVE  OwnInodes' /\ (met' \cap Savers = {} => SecretsInv') /\ (met' \cap Creators = {} /\ ~killed' => ProfilesInv')
  <2>1. w \notin Creators
    BY StoreAssumption
  <2>2. /\ UNCHANGED profiles /\ saved' \cap Creators = saved \cap Creators
        /\ \A c \in Creators : step'[c] = step[c] /\ copy'[c] = copy[c]
        /\ met' \cap Creators = met \cap Creators /\ killed' = killed
    BY <1>2, <2>1 DEF CredentialsInv, StoreTypeOK, Writers, Goes, fileVars, historyVars,
       Reads, OpensTmp, DumpsJson, ReplacesSecrets, Dies
  <2> QED BY <1>2, <2>2, SaverSteps, ProfilesUntouched DEF CredentialsInv
<1>3. ASSUME NEW w \in Creators,
             Reads(w) \/ RefusesProfile(w) \/ TruncatesProfiles(w) \/ WritesProfiles(w) \/ Dies(w)
      PROVE  OwnInodes' /\ (met' \cap Savers = {} => SecretsInv') /\ (met' \cap Creators = {} /\ ~killed' => ProfilesInv')
  <2>1. w \notin Savers
    BY StoreAssumption
  <2>2. /\ UNCHANGED <<fd, content, secrets, tmp>> /\ saved' \cap Savers = saved \cap Savers
        /\ \A c \in Savers : step'[c] = step[c] /\ copy'[c] = copy[c]
        /\ met' \cap Savers = met \cap Savers
    BY <1>3, <2>1 DEF CredentialsInv, StoreTypeOK, Writers, Goes, fileVars, historyVars,
       Reads, RefusesProfile, TruncatesProfiles, WritesProfiles, Dies
  <2> QED BY <1>3, <2>2, CreatorSteps, SecretsUntouched DEF CredentialsInv
<1>4. CASE StoreNext
  <2>1. StoreTypeOK'
    BY <1>4, StoreTypes DEF CredentialsInv
  <2>2. PICK w \in Writers : \/ Reads(w) \/ OpensTmp(w) \/ DumpsJson(w) \/ ReplacesSecrets(w)
                             \/ RefusesProfile(w) \/ TruncatesProfiles(w) \/ WritesProfiles(w) \/ Dies(w)
    BY <1>4 DEF StoreNext
  <2>3. CASE w \in Savers
    <3>1. Reads(w) \/ OpensTmp(w) \/ DumpsJson(w) \/ ReplacesSecrets(w) \/ Dies(w)
      BY <2>2, <2>3, StoreAssumption DEF RefusesProfile, TruncatesProfiles, WritesProfiles
    <3> QED BY <1>2, <2>1, <2>3, <3>1 DEF CredentialsInv
  <2>4. CASE w \in Creators
    <3>1. Reads(w) \/ RefusesProfile(w) \/ TruncatesProfiles(w) \/ WritesProfiles(w) \/ Dies(w)
      BY <2>2, <2>4, StoreAssumption DEF OpensTmp, DumpsJson, ReplacesSecrets
    <3> QED BY <1>3, <2>1, <2>4, <3>1 DEF CredentialsInv
  <2> QED BY <2>3, <2>4 DEF Writers
<1> QED BY <1>1, <1>4

\* The invariant of both files holds at the start and is kept.
LEMMA CredentialsInvariance == StoreSpec => []CredentialsInv
<1>1. StoreInit => CredentialsInv
  <2> SUFFICES ASSUME StoreInit PROVE CredentialsInv
    OBVIOUS
  <2>1. StoreTypeOK
    BY DEF StoreInit, StoreTypeOK, Empty, Resting
  <2>2. \A w \in Writers : step[w] = "idle" /\ ~Active(w)
    BY DEF StoreInit, Active, Resting
  <2>3. OwnInodes /\ SecretsInv /\ ProfilesInv
    BY <2>2, StoreAssumption
       DEF StoreInit, OwnInodes, SecretsInv, OneSaver, ProfilesInv, OneCreator, Secrets, Empty, Writers
  <2> QED BY <2>1, <2>3 DEF CredentialsInv
<1> QED BY <1>1, NextCredentials, PTL DEF StoreSpec

\* Of any number of logins and profile forms, killed at any step: secrets.json
\* stays whole with every password saved unless two logins saved at once, and
\* profiles.toml unless two forms wrote at once or one died writing.
THEOREM CredentialsStay == StoreSpec => []CredentialsKept
<1>1. CredentialsInv => CredentialsKept
  BY DEF CredentialsInv, SecretsInv, ProfilesInv, CredentialsKept, SecretsKept, ProfilesKept
<1> QED BY <1>1, CredentialsInvariance, PTL

-----------------------------------------------------------------------------
(* The documents of a world *)

Holding == {"locked", "loaded", "opened", "written"}
Observations == [source : {"none"} \cup SectorSources \cup PriceSources \cup MenuSources, name : Names \cup {"none"}]

\* Who holds the flock is at it, and has merged what is in the document.
WorldInv ==
  /\ WorldTypeOK
  /\ record \in [Recorders -> Observations]
  /\ NothingForgotten
  /\ \A w \in Recorders :
       /\ writerPhase[w] # "rest" =>
            kind \in DOMAIN Sources /\ record[w].source \in Sources[kind] /\ record[w].name \in Names
       /\ writerPhase[w] \in Holding <=> flock = w
       /\ writerPhase[w] \in Holding \ {"locked"} => merged[w] = Merge(file, record[w], w)
       /\ writerPhase[w] = "written" => tmpFile = Tmp("whole", merged[w])

\* What may be observed of each kind of document.
LEMMA SourcesAre ==
  /\ DOMAIN Sources = {"sector", "prices", "menu"}
  /\ Sources["sector"] = SectorSources /\ Sources["prices"] = PriceSources /\ Sources["menu"] = MenuSources
BY DEF Sources

\* A document merged with an observation is a document.
LEMMA MergeIsDocument ==
  ASSUME NEW doc \in Documents, NEW r \in Observations, r.source # "none", r.name \in Names, NEW w \in Recorders
  PROVE  Merge(doc, r, w) \in Documents
<1>1. CASE r.source \in {"state", "single"}
  BY <1>1 DEF Merge, Documents
<1>2. CASE r.source = "no port"
  BY <1>2 DEF Merge, Documents
<1>3. CASE r.source = "class"
  BY <1>3 DEF Merge, Documents
<1>4. CASE r.source = "report"
  BY <1>4 DEF Merge, Documents
<1>5. CASE r.source = "landmark"
  <2>1. Landmark(doc.rows[r.name], w) \in Recorders \cup {Unknown}
    BY DEF Landmark, Documents
  <2>2. Merge(doc, r, w) = [doc EXCEPT !.rows[r.name] = Landmark(doc.rows[r.name], w)]
    BY <1>5 DEF Merge
  <2> QED BY <2>1, <2>2 DEF Documents
<1>6. CASE r.source \in {"price", "menu"}
  BY <1>6 DEF Merge, Documents
<1> QED BY <1>1, <1>2, <1>3, <1>4, <1>5, <1>6 DEF Observations, SectorSources, PriceSources, MenuSources

\* In a sector's document it changes no name that is known.
LEMMA MergeKeepsLandmarks ==
  ASSUME NEW doc \in Documents, NEW r \in Observations, r.source \in SectorSources, NEW w \in Recorders,
         NEW n \in Names, doc.rows[n] # Unknown
  PROVE  Merge(doc, r, w).rows[n] = doc.rows[n]
<1>1. CASE r.source \in {"state", "single", "no port", "class", "report"}
  BY <1>1 DEF Merge, Documents
<1>2. CASE r.source = "landmark"
  <2>1. Merge(doc, r, w) = [doc EXCEPT !.rows[r.name] = Landmark(doc.rows[r.name], w)]
    BY <1>2 DEF Merge
  <2> QED BY <2>1 DEF Landmark, Documents
<1> QED BY <1>1, <1>2 DEF SectorSources

\* Every step of every recorder keeps the invariant.
LEMMA NextWorld ==
  ASSUME WorldInv, [WorldNext]_worldVars
  PROVE  WorldInv' /\ (LandmarksKept \/ UNCHANGED worldVars)
<1> USE WorldAssumption DEF WorldInv, WorldTypeOK, docVars
<1>1. CASE UNCHANGED worldVars
  BY <1>1 DEF worldVars, NothingForgotten
<1>2. ASSUME NEW w \in Recorders, Sees(w) PROVE WorldInv' /\ LandmarksKept
  <2>1. kind' \in DOMAIN Sources
    BY <1>2 DEF Sees
  <2>2. PICK s \in Sources[kind'], n \in Names : record' = [record EXCEPT ![w] = Record(s, n)]
    BY <1>2 DEF Sees
  <2>3. writerPhase[w] = "rest" /\ writerPhase' = [writerPhase EXCEPT ![w] = "wait"] /\ (kind = "none" \/ kind' = kind)
        /\ UNCHANGED <<flock, merged, file, tmpFile, summed>>
    BY <1>2 DEF Sees
  <2>4. Record(s, n) \in Observations
    BY <2>1, <2>2, SourcesAre DEF Record, Observations
  <2>5. WorldTypeOK' /\ NothingForgotten' /\ record' \in [Recorders -> Observations]
    BY <2>1, <2>2, <2>3, <2>4, SourcesAre DEF NothingForgotten
  <2>6. LandmarksKept
    BY <2>3 DEF LandmarksKept
  <2>7. kind = "none" => \A v \in Recorders : writerPhase[v] = "rest"
    BY SourcesAre
  <2> QED BY <2>1, <2>2, <2>3, <2>5, <2>6, <2>7, SourcesAre DEF Record, Holding
<1>3. ASSUME NEW w \in Recorders, Locks(w) PROVE WorldInv' /\ LandmarksKept
  BY <1>3 DEF Locks, NothingForgotten, LandmarksKept, Holding
<1>4. ASSUME NEW w \in Recorders, Loads(w) PROVE WorldInv' /\ LandmarksKept
  <2>1. Merge(file, record[w], w) \in Documents
    BY <1>4, MergeIsDocument, SourcesAre DEF Loads, SectorSources, PriceSources, MenuSources
  <2> QED BY <1>4, <2>1 DEF Loads, NothingForgotten, LandmarksKept, Holding
<1>5. ASSUME NEW w \in Recorders, TruncatesTmp(w) PROVE WorldInv' /\ LandmarksKept
  <2>1. TornTmp \in [state : {"absent", "torn", "whole"}, doc : Documents]
    BY DEF TornTmp, Tmp, EmptyDoc, Documents
  <2> QED BY <1>5, <2>1 DEF TruncatesTmp, NothingForgotten, LandmarksKept, Holding
<1>6. ASSUME NEW w \in Recorders, WritesTmp(w) PROVE WorldInv' /\ LandmarksKept
  <2>1. Tmp("whole", merged[w]) \in [state : {"absent", "torn", "whole"}, doc : Documents]
    BY DEF Tmp
  <2> QED BY <1>6, <2>1 DEF WritesTmp, NothingForgotten, LandmarksKept, Holding
<1>7. ASSUME NEW w \in Recorders, Renames(w) PROVE WorldInv' /\ LandmarksKept
  <2>1. writerPhase[w] = "written" /\ file' = Merge(file, record[w], w) /\ summed' = Merge(summed, record[w], w)
    BY <1>7 DEF Renames, Holding, Tmp
  <2>2. flock' = Unknown /\ tmpFile' = Absent /\ writerPhase' = [writerPhase EXCEPT ![w] = "done"]
        /\ UNCHANGED <<kind, record, merged>>
    BY <1>7 DEF Renames
  <2>3. \A v \in Recorders : v # w => writerPhase[v] \notin Holding
    BY <2>1 DEF Holding
  <2>4. file' \in Documents
    BY <2>1, MergeIsDocument, SourcesAre DEF SectorSources, PriceSources, MenuSources
  <2>5. Absent \in [state : {"absent", "torn", "whole"}, doc : Documents]
    BY DEF Absent, Tmp, EmptyDoc, Documents
  <2>6. NothingForgotten'
    BY <2>1 DEF NothingForgotten
  <2>7. LandmarksKept
    BY <2>1, MergeKeepsLandmarks, SourcesAre DEF LandmarksKept
  <2> QED BY <2>1, <2>2, <2>3, <2>4, <2>5, <2>6, <2>7 DEF Holding, NothingForgotten
<1>8. ASSUME NEW w \in Recorders, WriterRaises(w) PROVE WorldInv' /\ LandmarksKept
  <2>1. writerPhase[w] \in Holding /\ writerPhase' = [writerPhase EXCEPT ![w] = "dead"] /\ flock' = Unknown
        /\ tmpFile' \in {Absent, tmpFile} /\ UNCHANGED <<kind, record, merged, file, summed>>
    BY <1>8 DEF WriterRaises, Holding
  <2>2. \A v \in Recorders : v # w => writerPhase[v] \notin Holding
    BY <2>1
  <2>3. Absent \in [state : {"absent", "torn", "whole"}, doc : Documents]
    BY DEF Absent, Tmp, EmptyDoc, Documents
  <2> QED BY <2>1, <2>2, <2>3 DEF Holding, NothingForgotten, LandmarksKept
<1> QED BY <1>1, <1>2, <1>3, <1>4, <1>5, <1>6, <1>7, <1>8 DEF WorldNext, WriterStep

\* The invariant of the documents of a world, for any recorders and names.
THEOREM WorldInvariance == WorldSpec => []WorldInv
<1>1. WorldInit => WorldInv
  BY WorldAssumption, SourcesAre
     DEF WorldInit, WorldInv, WorldTypeOK, NothingForgotten, Holding, Observations, Record, EmptyDoc, Absent, Tmp, Documents
<1>2. WorldInv /\ [WorldNext]_worldVars => WorldInv'
  BY NextWorld
<1> QED BY <1>1, <1>2, PTL DEF WorldSpec

\* Whatever writers a world has and wherever they raise or die: its document
\* says what the finished writes say, one after another.
THEOREM NothingIsForgotten == WorldSpec => []NothingForgotten
<1>1. WorldInv => NothingForgotten
  BY DEF WorldInv
<1> QED BY <1>1, WorldInvariance, PTL

\* No write erases or respells a landmark that is on record.
THEOREM LandmarksStay == WorldSpec => [][LandmarksKept]_worldVars
<1>1. WorldInv /\ [WorldNext]_worldVars => [LandmarksKept]_worldVars
  BY NextWorld
<1> QED BY <1>1, WorldInvariance, PTL DEF WorldSpec

-----------------------------------------------------------------------------
(* What was taught *)

Phases == {"rest", "open", "fill", "rename", "unlink", "copy", "copying", "done", "dead"}
Writing == {"open", "fill", "rename"}
Commanded == [phase : Phases, op : {"none", "draft", "record", "promote", "migrate"}, title : Titles \cup {Untitled},
              place : Places, todo : SUBSET OldStore]

\* A command has the phases of its kind; one that writes knows its document.
WellFormed(c) ==
  /\ c.op = "migrate" => c.phase \in {"copy", "copying", "dead"}
  /\ c.phase \in {"copy", "copying"} => c.op = "migrate"
  /\ c.phase \in Writing \cup {"unlink", "copying"} => c.title \in Titles
  /\ c.phase \in Writing => c.place = IF c.op = "draft" THEN "drafts" ELSE "approved"
  /\ c.phase = "unlink" => c.op = "promote"
  /\ c.phase = "copying" => c.title \in OldStore
CommandIs(w) == WellFormed(command[w])
CommandsAre == \A w \in Teachers : CommandIs(w)

\* A document's file is the one of its stem, and so is what a writer is about
\* to put in place.
FilesAre ==
  /\ \A p \in Places, s \in Stems : Whole(disk[p][s]) => disk[p][s].title \in Titles /\ Stem[disk[p][s].title] = s
  /\ \A w \in Teachers : command[w].phase = "rename" => temp[w] = File("whole", command[w].title)

\* The command at work, as long as commands come one at a time, has seen that
\* the file is not another document's, and keeps the draft it promotes until
\* the approved one is in place.
OneCommand == \A v, w \in Teachers : Busy(v) /\ Busy(w) => v = w
AtWork(w) ==
  LET c == command[w] there == disk[c.place][Stem[c.title]] IN
  /\ c.phase \in Writing /\ docKind = "rules" => ~Collides(there, c.title)
  /\ c.phase \in Writing \cup {"unlink"} /\ c.op = "promote" => disk["drafts"][Stem[c.title]] = File("whole", c.title)
  /\ c.phase = "unlink" => disk["approved"][Stem[c.title]] = File("whole", c.title)
  /\ c.phase = "copying" => ~Whole(disk["approved"][Stem[c.title]])

OneAtATime ==
  ~overlapped => /\ OneCommand
                 /\ \A w \in Teachers : AtWork(w)
                 /\ TaughtIsKept

\* What of the old store a migration has passed has its file; once anything has
\* begun, a migration is at work or is through, unless one was killed.
PassedOn(old) == disk["approved"][Stem[old]] # NoFile
Migrating(w) == command[w].op = "migrate" /\ Busy(w)
AnyBegun ==
  \/ taught # {} \/ \E w \in Teachers : Busy(w) \/ temp[w].state # "absent"
  \/ \E p \in Places, s \in Stems : disk[p][s].state # "absent"
OldStoreInv ==
  /\ \A w \in Teachers : Migrating(w) => \A old \in OldStore \ command[w].todo : PassedOn(old)
  /\ AnyBegun /\ ~cutDown => (\E w \in Teachers : Migrating(w)) \/ \A old \in OldStore : PassedOn(old)

TaughtInv == TaughtTypeOK /\ command \in [Teachers -> Commanded] /\ CommandsAre /\ FilesAre /\ OneAtATime /\ OldStoreInv

Acts(w) ==
  \/ DraftsRule(w) \/ MinesMacro(w) \/ RecordsMacro(w) \/ PromotesRule(w) \/ PromotesMacro(w)
  \/ Opens(w) \/ Fills(w) \/ Replaces(w) \/ Unlinks(w)
  \/ Migrates(w) \/ CopyCreates(w) \/ CopyFills(w) \/ CopyEnds(w) \/ WriteFails(w) \/ IsKilled(w)

\* A command that takes a well-formed step is well-formed.
LEMMA StepTaken ==
  ASSUME TaughtInv, NEW w \in Teachers, NEW to \in Commanded, WellFormed(to), StepsTo(w, to)
  PROVE  command' = [command EXCEPT ![w] = command'[w]] /\ command'[w] \in Commanded /\ CommandIs(w)'
<1>1. command \in [Teachers -> Commanded] /\ command' = [command EXCEPT ![w] = to]
  BY DEF TaughtInv, StepsTo
<1>2. command'[w] = to
  BY ONLY <1>1, w \in Teachers
<1>3. WellFormed(command'[w])
  BY <1>2
<1> QED BY ONLY <1>1, <1>2, <1>3, to \in Commanded DEF CommandIs, WellFormed

\* A writer that goes on writing, is through, or is killed stays well-formed.
LEMMA PhaseMoves ==
  ASSUME TaughtInv, NEW w \in Teachers, NEW p \in {"fill", "rename", "unlink", "done", "dead"},
         StepsTo(w, [command[w] EXCEPT !.phase = p]),
         p = "done" => command[w].op # "migrate",
         p \in {"fill", "rename"} => command[w].phase \in Writing,
         p = "unlink" => command[w].phase = "rename" /\ command[w].op = "promote"
  PROVE  command' = [command EXCEPT ![w] = command'[w]] /\ command'[w] \in Commanded /\ CommandIs(w)'
<1> DEFINE c == command[w]
           to == [command[w] EXCEPT !.phase = p]
<1>1. c \in Commanded /\ WellFormed(c)
  BY DEF TaughtInv, CommandsAre, CommandIs
<1>2. to \in Commanded /\ to.phase = p /\ to.op = c.op /\ to.title = c.title /\ to.place = c.place
  BY <1>1 DEF Commanded, Phases
<1>3. p = "dead" \/ c.op # "migrate"
  BY <1>1 DEF WellFormed, Writing
<1>4. WellFormed(to)
  <2> HIDE DEF to, c
  <2>1. p \in {"fill", "rename"} => c.phase \in Writing
    BY DEF c
  <2>2. p = "unlink" => c.phase = "rename" /\ c.op = "promote"
    BY DEF c
  <2> QED BY <1>1, <1>2, <1>3, <2>1, <2>2 DEF WellFormed, Writing
<1> QED BY <1>2, <1>4, StepTaken

\* A step is one command's, which stays well-formed.
LEMMA CommandMoves ==
  ASSUME TaughtInv, NEW w \in Teachers, Acts(w)
  PROVE  /\ docKind' = docKind
         /\ command' = [command EXCEPT ![w] = command'[w]] /\ command'[w] \in Commanded /\ CommandIs(w)'
<1>1. CommandIs(w)
  BY DEF TaughtInv, CommandsAre
<1>2. CASE Opens(w)
  <2>1. StepsTo(w, [command[w] EXCEPT !.phase = "fill"]) /\ docKind' = docKind
    BY <1>2 DEF Opens
  <2>2. command[w].phase \in Writing
    BY <1>1, <1>2 DEF Opens, CommandIs, WellFormed, Writing
  <2> QED BY <2>1, <2>2, PhaseMoves
<1>3. CASE Fills(w)
  <2>1. StepsTo(w, [command[w] EXCEPT !.phase = "rename"]) /\ docKind' = docKind
    BY <1>3 DEF Fills
  <2>2. command[w].phase \in Writing
    BY <1>1, <1>3 DEF Fills, CommandIs, WellFormed, Writing
  <2> QED BY <2>1, <2>2, PhaseMoves
<1>4. CASE Replaces(w)
  <2>1. PICK p \in {"unlink", "done"} :
          StepsTo(w, [command[w] EXCEPT !.phase = p]) /\ (p = "unlink" => command[w].op = "promote")
    BY <1>4 DEF Replaces
  <2>2. docKind' = docKind /\ command[w].phase = "rename" /\ command[w].op # "migrate"
    BY <1>1, <1>4 DEF Replaces, CommandIs, WellFormed
  <2> QED BY <2>1, <2>2, PhaseMoves
<1>5. CASE Unlinks(w)
  <2>1. StepsTo(w, [command[w] EXCEPT !.phase = "done"]) /\ docKind' = docKind
    BY <1>5 DEF Unlinks
  <2>2. command[w].op # "migrate"
    BY <1>1, <1>5 DEF Unlinks, CommandIs, WellFormed, Writing
  <2> QED BY <2>1, <2>2, PhaseMoves
<1>6. CASE WriteFails(w)
  <2>1. StepsTo(w, [command[w] EXCEPT !.phase = "done"]) /\ docKind' = docKind
    BY <1>6 DEF WriteFails
  <2>2. command[w].op # "migrate"
    BY <1>1, <1>6 DEF WriteFails, CommandIs, WellFormed, Writing
  <2> QED BY <2>1, <2>2, PhaseMoves
<1>7. CASE IsKilled(w)
  <2>1. StepsTo(w, [command[w] EXCEPT !.phase = "dead"]) /\ docKind' = docKind
    BY <1>7 DEF IsKilled
  <2> QED BY <2>1, PhaseMoves
<1>8. CASE CopyCreates(w)
  <2>1. PICK old \in command[w].todo :
            \/ StepsTo(w, [command[w] EXCEPT !.phase = "copying", !.title = old])
            \/ StepsTo(w, [command[w] EXCEPT !.todo = @ \ {old}])
    BY <1>8 DEF CopyCreates
  <2>2. docKind' = docKind /\ command[w].phase = "copy" /\ command[w].op = "migrate"
    BY <1>1, <1>8 DEF CopyCreates, CommandIs, WellFormed
  <2>3. command[w] \in Commanded /\ old \in OldStore /\ old \in Titles
    BY TaughtAssumption DEF TaughtInv, Commanded
  <2>4. CASE StepsTo(w, [command[w] EXCEPT !.phase = "copying", !.title = old])
    <3> DEFINE to == [command[w] EXCEPT !.phase = "copying", !.title = old]
    <3>1. to \in Commanded /\ to.phase = "copying" /\ to.op = command[w].op /\ to.title = old
      BY <2>3 DEF Commanded, Phases
    <3>2. WellFormed(to)
      BY <2>2, <2>3, <3>1 DEF WellFormed, Writing
    <3> QED BY <2>2, <2>4, <3>1, <3>2, StepTaken
  <2>5. CASE StepsTo(w, [command[w] EXCEPT !.todo = @ \ {old}])
    <3> DEFINE to == [command[w] EXCEPT !.todo = @ \ {old}]
    <3>1. to \in Commanded /\ to.phase = "copy" /\ to.op = "migrate"
      BY <2>2, <2>3 DEF Commanded
    <3>2. WellFormed(to)
      BY <3>1 DEF WellFormed, Writing
    <3> QED BY <2>2, <2>5, <3>1, <3>2, StepTaken
  <2> QED BY <2>1, <2>4, <2>5
<1>9. CASE CopyFills(w)
  <2> DEFINE to == [command[w] EXCEPT !.phase = "copy", !.todo = @ \ {command[w].title}]
  <2>1. StepsTo(w, to) /\ docKind' = docKind /\ command[w].phase = "copying" /\ command[w].op = "migrate"
    BY <1>1, <1>9 DEF CopyFills, CommandIs, WellFormed
  <2>2. command[w] \in Commanded
    BY DEF TaughtInv
  <2>3. to \in Commanded /\ to.phase = "copy" /\ to.op = "migrate"
    BY <2>1, <2>2 DEF Commanded, Phases
  <2>4. WellFormed(to)
    BY <2>3 DEF WellFormed, Writing
  <2> QED BY <2>1, <2>3, <2>4, StepTaken
<1>10. CASE CopyEnds(w)
  <2>1. StepsTo(w, AtRest) /\ docKind' = docKind
    BY <1>10 DEF CopyEnds
  <2>2. AtRest \in Commanded /\ WellFormed(AtRest)
    BY DEF AtRest, Step, Commanded, Phases, Places, WellFormed, Writing
  <2> QED BY <2>1, <2>2, StepTaken
<1>11. CASE Migrates(w)
  <2> DEFINE to == Step("copy", "migrate", Untitled, "approved", OldStore)
  <2>1. StepsTo(w, to) /\ docKind' = docKind
    BY <1>11 DEF Migrates
  <2>2. to \in Commanded /\ WellFormed(to)
    BY DEF Step, Commanded, Phases, Places, WellFormed, Writing
  <2> QED BY <2>1, <2>2, StepTaken
<1> DEFINE Starts(to) == \E p \in {"open", "done"}, op \in {"draft", "record", "promote"}, t \in Titles :
               to = Step(p, op, t, IF op = "draft" THEN "drafts" ELSE "approved", {})
<1>12. ASSUME NEW to, Starts(to), StepsTo(w, to)
       PROVE  command' = [command EXCEPT ![w] = command'[w]] /\ command'[w] \in Commanded /\ CommandIs(w)'
  <2>1. to \in Commanded /\ WellFormed(to)
    BY <1>12 DEF Step, Commanded, Phases, Places, WellFormed, Writing
  <2> QED BY <1>12, <2>1, StepTaken
<1>13. CASE DraftsRule(w) \/ MinesMacro(w) \/ RecordsMacro(w) \/ PromotesRule(w) \/ PromotesMacro(w)
  <2>1. docKind' = docKind
    BY <1>13 DEF DraftsRule, MinesMacro, RecordsMacro, PromotesRule, PromotesMacro, Commands
  <2>2. \E to : Starts(to) /\ StepsTo(w, to)
    <3>1. CASE DraftsRule(w)
      BY <3>1 DEF DraftsRule
    <3>2. CASE MinesMacro(w)
      BY <3>2 DEF MinesMacro
    <3>3. CASE RecordsMacro(w)
      BY <3>3 DEF RecordsMacro
    <3>4. CASE PromotesRule(w)
      <4>1. PICK s \in Stems : Whole(disk["drafts"][s]) /\ StepsTo(w, Step("open", "promote", disk["drafts"][s].title, "approved", {}))
        BY <3>4 DEF PromotesRule
      <4>2. disk["drafts"][s].title \in Titles
        BY <4>1 DEF TaughtInv, FilesAre, Places
      <4> QED BY <4>1, <4>2
    <3>5. CASE PromotesMacro(w)
      BY <3>5 DEF PromotesMacro
    <3> QED BY <1>13, <3>1, <3>2, <3>3, <3>4, <3>5
  <2> HIDE DEF Starts
  <2> QED BY <1>12, <2>1, <2>2
<1> QED
  BY <1>2, <1>3, <1>4, <1>5, <1>6, <1>7, <1>8, <1>9, <1>10, <1>11, <1>13 DEF Acts

\* A command that only starts, is through with what it copied, or is killed.
LeavesFiles(w) ==
  \/ DraftsRule(w) \/ MinesMacro(w) \/ RecordsMacro(w) \/ PromotesRule(w) \/ PromotesMacro(w)
  \/ Migrates(w) \/ CopyEnds(w) \/ IsKilled(w)
\* It leaves the files alone, and is not about to put one in place.
LEMMA QuietSteps ==
  ASSUME TaughtInv, NEW w \in Teachers, LeavesFiles(w)
  PROVE  UNCHANGED <<disk, temp, taught>> /\ command'[w].phase \in {"open", "copy", "done", "rest", "dead"}
<1> USE TaughtAssumption DEF TaughtInv, Commanded, StepsTo, Step
<1>1. CASE DraftsRule(w)
  BY <1>1 DEF DraftsRule, Commands
<1>2. CASE MinesMacro(w) \/ RecordsMacro(w)
  BY <1>2 DEF MinesMacro, RecordsMacro, Commands
<1>3. CASE PromotesRule(w) \/ PromotesMacro(w)
  BY <1>3 DEF PromotesRule, PromotesMacro, Commands
<1>4. CASE Migrates(w) \/ CopyEnds(w) \/ IsKilled(w)
  BY <1>4 DEF Migrates, CopyEnds, IsKilled, AtRest
<1> QED
  BY <1>1, <1>2, <1>3, <1>4 DEF LeavesFiles

\* Every step has well-formed files, each under its own stem.
LEMMA FilesMove ==
  ASSUME TaughtInv, NEW w \in Teachers, Acts(w)
  PROVE  TaughtTypeOK' /\ FilesAre' /\ command' \in [Teachers -> Commanded] /\ CommandsAre'
<1>1. /\ docKind' = docKind
      /\ command' = [command EXCEPT ![w] = command'[w]] /\ command'[w] \in Commanded /\ CommandIs(w)'
  BY CommandMoves
<1>2. command' \in [Teachers -> Commanded] /\ CommandsAre'
  BY <1>1 DEF TaughtInv, CommandsAre, CommandIs, WellFormed
<1>3. \A v \in Teachers : command'[v].title \in Titles \cup {Untitled} /\ command'[v].place \in Places
  BY <1>2 DEF Commanded
<1>4. File("torn", Untitled) \in Files /\ NoFile \in Files /\ \A t \in Titles : File("whole", t) \in Files /\ Stem[t] \in Stems
  BY DEF File, NoFile, Files, Stems
<1>5. overlapped' \in BOOLEAN /\ cutDown' \in BOOLEAN
  <2>1. overlapped' \in BOOLEAN
    BY DEF Acts, TaughtInv, TaughtTypeOK, StepsTo, DraftsRule, MinesMacro, RecordsMacro, PromotesRule, PromotesMacro,
           Opens, Fills, Replaces, Unlinks, Migrates, CopyCreates, CopyFills, CopyEnds, WriteFails, IsKilled
  <2>2. cutDown' \in BOOLEAN
    BY DEF Acts, TaughtInv, TaughtTypeOK, Commands, DraftsRule, MinesMacro, RecordsMacro, PromotesRule, PromotesMacro,
           Opens, Fills, Replaces, Unlinks, Migrates, CopyCreates, CopyFills, CopyEnds, WriteFails, IsKilled
  <2> QED
    BY <2>1, <2>2
<1>6. SUFFICES disk' \in [Places -> [Stems -> Files]] /\ temp' \in [Teachers -> Files] /\ taught' \subseteq Titles /\ FilesAre'
  BY <1>1, <1>2, <1>3, <1>5 DEF TaughtTypeOK, TaughtInv
<1> USE DEF TaughtInv, TaughtTypeOK, FilesAre, CommandsAre, CommandIs, WellFormed, Whole, Places, Writing
<1>7. CASE LeavesFiles(w)
  BY <1>1, <1>7, QuietSteps
<1>8. CASE Opens(w)
  BY <1>1, <1>4, <1>8 DEF Opens, StepsTo, Commanded
<1>9. CASE Fills(w)
  BY <1>1, <1>4, <1>9 DEF Fills, StepsTo, Commanded
<1>10. CASE Replaces(w)
  <2>1. command[w].title \in Titles /\ command[w].place \in Places /\ command'[w].phase # "rename"
    BY <1>1, <1>10 DEF Replaces, StepsTo, Commanded
  <2>2. disk' = [disk EXCEPT ![command[w].place][Stem[command[w].title]] = File("whole", command[w].title)]
    BY <1>10 DEF Replaces
  <2>3. temp' = [temp EXCEPT ![w] = NoFile] /\ taught' = taught \cup {command[w].title}
    BY <1>10 DEF Replaces
  <2>4. NoFile.state = "absent" /\ File("whole", command[w].title).title = command[w].title
    BY DEF NoFile, File
  <2>5. disk' \in [Places -> [Stems -> Files]] /\ temp' \in [Teachers -> Files] /\ taught' \subseteq Titles
    BY <1>4, <2>1, <2>2, <2>3
  <2>6. \A p \in Places, s \in Stems : Whole(disk'[p][s]) => disk'[p][s].title \in Titles /\ Stem[disk'[p][s].title] = s
    BY <1>4, <2>1, <2>2, <2>4
  <2>7. \A v \in Teachers : command'[v].phase = "rename" => temp'[v] = File("whole", command'[v].title)
    BY <1>1, <2>1, <2>3
  <2> QED
    BY <2>5, <2>6, <2>7
<1>11. CASE Unlinks(w)
  <2>1. command[w].title \in Titles /\ command'[w].phase # "rename" /\ UNCHANGED <<temp, taught>>
    BY <1>1, <1>11 DEF Unlinks, StepsTo, Commanded
  <2>2. disk' = [disk EXCEPT !["drafts"][Stem[command[w].title]] = NoFile]
    BY <1>11 DEF Unlinks
  <2>3. NoFile.state = "absent"
    BY DEF NoFile, File
  <2> QED
    BY <1>1, <1>4, <2>1, <2>2, <2>3
<1>12. CASE CopyCreates(w)
  <2>1. command'[w].phase # "rename" /\ UNCHANGED <<temp, taught>>
    <3>1. PICK old \in command[w].todo :
            \/ StepsTo(w, [command[w] EXCEPT !.phase = "copying", !.title = old])
            \/ StepsTo(w, [command[w] EXCEPT !.todo = @ \ {old}])
      BY <1>12 DEF CopyCreates
    <3>2. command[w].phase = "copy" /\ UNCHANGED <<temp, taught>>
      BY <1>12 DEF CopyCreates
    <3>3. CASE StepsTo(w, [command[w] EXCEPT !.phase = "copying", !.title = old])
      BY <3>2, <3>3 DEF StepsTo, Commanded
    <3>4. CASE StepsTo(w, [command[w] EXCEPT !.todo = @ \ {old}])
      BY <3>2, <3>4 DEF StepsTo, Commanded
    <3> QED
      BY <3>1, <3>2, <3>3, <3>4
  <2>2. PICK old \in command[w].todo :
          disk' = disk \/ disk' = [disk EXCEPT !["approved"][Stem[old]] = File("torn", Untitled)]
    BY <1>12 DEF CopyCreates
  <2> QED
    BY <1>1, <1>4, <2>1, <2>2 DEF File
<1>13. CASE CopyFills(w)
  <2>1. command[w].title \in Titles /\ command'[w].phase # "rename"
    BY <1>1, <1>13 DEF CopyFills, StepsTo, Commanded
  <2> QED
    BY <1>1, <1>4, <1>13, <2>1 DEF CopyFills, File
<1>14. CASE WriteFails(w)
  BY <1>1, <1>4, <1>14 DEF WriteFails, StepsTo, Commanded
<1> QED
  BY <1>7, <1>8, <1>9, <1>10, <1>11, <1>12, <1>13, <1>14 DEF Acts, LeavesFiles

\* Two commands at work at once are seen by the later step of the two.
LEMMA OverlapSeen ==
  ASSUME TaughtInv, NEW w \in Teachers, Acts(w), ~overlapped'
  PROVE  ~overlapped /\ (command'[w].phase = "done" \/ \A v \in Teachers \ {w} : ~Busy(v))
<1>1. \E to : StepsTo(w, to)
  <2>1. CASE DraftsRule(w)
    BY <2>1 DEF DraftsRule
  <2>2. CASE MinesMacro(w)
    BY <2>2 DEF MinesMacro
  <2>3. CASE RecordsMacro(w)
    BY <2>3 DEF RecordsMacro
  <2>4. CASE PromotesRule(w)
    BY <2>4 DEF PromotesRule
  <2>5. CASE PromotesMacro(w)
    BY <2>5 DEF PromotesMacro
  <2>6. CASE Opens(w)
    BY <2>6 DEF Opens
  <2>7. CASE Fills(w)
    BY <2>7 DEF Fills
  <2>8. CASE Replaces(w)
    BY <2>8 DEF Replaces
  <2>9. CASE Unlinks(w)
    BY <2>9 DEF Unlinks
  <2>10. CASE Migrates(w)
    BY <2>10 DEF Migrates
  <2>11. CASE CopyCreates(w)
    BY <2>11 DEF CopyCreates
  <2>12. CASE CopyFills(w)
    BY <2>12 DEF CopyFills
  <2>13. CASE CopyEnds(w)
    BY <2>13 DEF CopyEnds
  <2>14. CASE WriteFails(w)
    BY <2>14 DEF WriteFails
  <2>15. CASE IsKilled(w)
    BY <2>15 DEF IsKilled
  <2> QED
    BY <2>1, <2>2, <2>3, <2>4, <2>5, <2>6, <2>7, <2>8, <2>9, <2>10, <2>11, <2>12, <2>13, <2>14, <2>15 DEF Acts
<1>2. PICK to : StepsTo(w, to)
  BY <1>1
<1>3. command'[w] = to
  BY <1>2 DEF StepsTo, TaughtInv
<1> QED
  BY <1>2, <1>3 DEF StepsTo

\* What one command at a time keeps.
LEMMA AloneKept == ASSUME TaughtInv, NEW w \in Teachers, Acts(w) PROVE OneAtATime'
<1>1. SUFFICES ASSUME ~overlapped' PROVE OneCommand' /\ (\A v \in Teachers : AtWork(v)') /\ TaughtIsKept'
  BY DEF OneAtATime
<1>2. ~overlapped /\ (command'[w].phase = "done" \/ \A v \in Teachers \ {w} : ~Busy(v))
  BY <1>1, OverlapSeen
<1>3. OneCommand /\ (\A v \in Teachers : AtWork(v)) /\ TaughtIsKept
  BY <1>2 DEF TaughtInv, OneAtATime
<1>4. /\ docKind' = docKind /\ command' \in [Teachers -> Commanded]
      /\ \A v \in Teachers \ {w} : command'[v] = command[v]
      /\ command'[w] \in Commanded /\ CommandIs(w)' /\ CommandIs(w) /\ command[w] \in Commanded
  BY CommandMoves DEF TaughtInv, CommandsAre
<1>5. OneCommand'
  BY <1>2, <1>3, <1>4 DEF OneCommand, Busy
<1>6. \A v \in Teachers \ {w} : AtWork(v)'
  <2> TAKE v \in Teachers \ {w}
  <2>1. CASE ~Busy(v)
    BY <1>4, <2>1 DEF Busy, AtWork, Writing
  <2>2. CASE Busy(v)
    <3>1. ~Busy(w)
      BY <1>3, <2>2 DEF OneCommand
    <3>2. UNCHANGED disk
      BY <3>1 DEF Busy, Acts, DraftsRule, MinesMacro, RecordsMacro, PromotesRule, PromotesMacro, Commands,
                Opens, Fills, Replaces, Unlinks, Migrates, CopyCreates, CopyFills, CopyEnds, WriteFails, IsKilled
    <3> QED
      BY <1>3, <1>4, <3>2 DEF AtWork
  <2> QED
    BY <2>1, <2>2
<1>7. command[w].place \in Places /\ command[w].phase \in Phases
  BY <1>4 DEF Commanded
<1>8. command[w].phase \in Writing \cup {"unlink", "copying"} => command[w].title \in Titles /\ Stem[command[w].title] \in Stems
  BY <1>4 DEF CommandIs, WellFormed, Stems
<1>9. disk \in [Places -> [Stems -> Files]] /\ taught \subseteq Titles
  BY DEF TaughtInv, TaughtTypeOK
<1>10. AtWork(w)'
  <2> USE DEF Writing
  <2>1. CASE DraftsRule(w)
    <3>1. PICK t \in Titles :
            StepsTo(w, Step(IF Collides(disk["drafts"][Stem[t]], t) THEN "done" ELSE "open", "draft", t, "drafts", {}))
      BY <2>1 DEF DraftsRule
    <3>2. command'[w] = Step(IF Collides(disk["drafts"][Stem[t]], t) THEN "done" ELSE "open", "draft", t, "drafts", {})
      BY <3>1 DEF StepsTo, TaughtInv
    <3>3. UNCHANGED disk
      BY <2>1 DEF DraftsRule, Commands
    <3> QED
      BY <1>4, <3>2, <3>3 DEF AtWork, Step
  <2>2. CASE MinesMacro(w) \/ RecordsMacro(w)
    <3>1. docKind = "macros" /\ command'[w].phase = "open" /\ command'[w].op # "promote"
      BY <2>2 DEF MinesMacro, RecordsMacro, Commands, StepsTo, Step, TaughtInv
    <3> QED
      BY <1>4, <3>1 DEF AtWork
  <2>3. CASE PromotesRule(w)
    <3>1. PICK s \in Stems : /\ Whole(disk["drafts"][s]) /\ ~Collides(disk["approved"][s], disk["drafts"][s].title)
                            /\ StepsTo(w, Step("open", "promote", disk["drafts"][s].title, "approved", {}))
      BY <2>3 DEF PromotesRule
    <3>2. command'[w] = Step("open", "promote", disk["drafts"][s].title, "approved", {}) /\ UNCHANGED disk
      BY <2>3, <3>1 DEF StepsTo, TaughtInv, PromotesRule, Commands
    <3>3. Stem[disk["drafts"][s].title] = s
      BY <3>1 DEF TaughtInv, FilesAre, Places
    <3>4. disk["drafts"][s] = File("whole", disk["drafts"][s].title)
      BY <1>9, <3>1 DEF Whole, File, Files, Places
    <3> QED
      BY <3>1, <3>2, <3>3, <3>4 DEF AtWork, Step
  <2>4. CASE PromotesMacro(w)
    <3>1. PICK t \in Titles : disk["drafts"][Stem[t]] = File("whole", t) /\ StepsTo(w, Step("open", "promote", t, "approved", {}))
      BY <2>4 DEF PromotesMacro
    <3>2. command'[w] = Step("open", "promote", t, "approved", {}) /\ UNCHANGED disk /\ docKind = "macros"
      BY <2>4, <3>1 DEF StepsTo, TaughtInv, PromotesMacro, Commands
    <3> QED
      BY <1>4, <3>1, <3>2 DEF AtWork, Step
  <2>5. CASE Opens(w) \/ Fills(w)
    <3>1. /\ command[w].phase \in {"open", "fill"} /\ command'[w].phase \in {"fill", "rename"} /\ UNCHANGED disk
          /\ command'[w].op = command[w].op /\ command'[w].title = command[w].title /\ command'[w].place = command[w].place
      BY <1>4, <2>5 DEF Opens, Fills, StepsTo, Commanded
    <3> QED
      BY <1>3, <1>4, <3>1 DEF AtWork
  <2>7. CASE Replaces(w)
    <3>1. /\ command'[w].op = command[w].op /\ command'[w].title = command[w].title /\ command'[w].place = command[w].place
          /\ command'[w].phase \in {"unlink", "done"} /\ (command'[w].phase = "unlink" => command[w].op = "promote")
          /\ command[w].phase = "rename"
      BY <1>4, <2>7 DEF Replaces, StepsTo, Commanded
    <3>2. CASE command'[w].phase = "done"
      BY <3>2 DEF AtWork
    <3>3. CASE command'[w].phase = "unlink"
      <4>1. command[w].place = "approved" /\ command[w].title \in Titles /\ Stem[command[w].title] \in Stems
        BY <1>4, <1>8, <3>1, <3>3 DEF CommandIs, WellFormed
      <4>2. disk' = [disk EXCEPT !["approved"][Stem[command[w].title]] = File("whole", command[w].title)]
        BY <2>7, <4>1 DEF Replaces, TaughtInv, FilesAre
      <4>3. disk["drafts"][Stem[command[w].title]] = File("whole", command[w].title)
        BY <1>3, <3>1, <3>3 DEF AtWork
      <4> QED
        BY <1>9, <3>1, <3>3, <4>1, <4>2, <4>3 DEF AtWork, Places
    <3> QED
      BY <3>1, <3>2, <3>3
  <2>9. CASE CopyCreates(w)
    <3>1. PICK old \in command[w].todo :
            IF disk["approved"][Stem[old]] = NoFile
            THEN /\ disk' = [disk EXCEPT !["approved"][Stem[old]] = File("torn", Untitled)]
                 /\ StepsTo(w, [command[w] EXCEPT !.phase = "copying", !.title = old])
            ELSE UNCHANGED disk /\ StepsTo(w, [command[w] EXCEPT !.todo = @ \ {old}])
      BY <2>9 DEF CopyCreates
    <3>2. command[w].phase = "copy" /\ old \in Titles /\ Stem[old] \in Stems /\ command[w].op = "migrate"
      BY <1>4, <2>9, TaughtAssumption DEF CopyCreates, Commanded, CommandIs, WellFormed, Stems
    <3>3. CASE disk["approved"][Stem[old]] = NoFile
      <4>0. StepsTo(w, [command[w] EXCEPT !.phase = "copying", !.title = old])
        BY <3>1, <3>3
      <4>1. command'[w].phase = "copying" /\ command'[w].title = old /\ command'[w].op = "migrate"
        BY <1>4, <3>2, <4>0 DEF StepsTo, Commanded, TaughtInv
      <4>2. disk'["approved"][Stem[old]] = File("torn", Untitled)
        BY <1>9, <3>1, <3>2, <3>3 DEF Places
      <4> QED
        BY <4>1, <4>2 DEF AtWork, Whole, File
    <3>4. CASE disk["approved"][Stem[old]] # NoFile
      <4>1. command'[w].phase = "copy"
        BY <1>4, <3>1, <3>2, <3>4 DEF StepsTo, Commanded, TaughtInv
      <4> QED
        BY <4>1 DEF AtWork
    <3> QED
      BY <3>3, <3>4
  <2>11. CASE Unlinks(w) \/ CopyFills(w) \/ Migrates(w) \/ CopyEnds(w) \/ WriteFails(w) \/ IsKilled(w)
    <3>1. command'[w].phase \in {"done", "copy", "rest", "dead"}
      <4>1. CASE Unlinks(w) \/ WriteFails(w) \/ IsKilled(w)
        BY <1>4, <4>1 DEF Unlinks, WriteFails, IsKilled, StepsTo, Commanded
      <4>2. CASE CopyFills(w)
        BY <1>4, <4>2 DEF CopyFills, StepsTo, Commanded
      <4>3. CASE Migrates(w) \/ CopyEnds(w)
        BY <1>4, <4>3 DEF Migrates, CopyEnds, StepsTo, Step, AtRest
      <4> QED
        BY <2>11, <4>1, <4>2, <4>3
    <3> QED
      BY <3>1 DEF AtWork
  <2> QED
    BY <2>1, <2>2, <2>3, <2>4, <2>5, <2>7, <2>9, <2>11 DEF Acts
<1>11. TaughtIsKept'
  <2>1. CASE UNCHANGED <<disk, taught>>
    BY <1>1, <1>2, <1>3, <1>4, <2>1 DEF TaughtIsKept
  <2>2. CASE Replaces(w)
    <3> DEFINE t0 == command[w].title  p0 == command[w].place
    <3>1. t0 \in Titles /\ Stem[t0] \in Stems /\ command[w].phase = "rename" /\ temp[w] = File("whole", t0)
      BY <1>8, <2>2 DEF Replaces, TaughtInv, FilesAre, Writing
    <3>2. disk' = [disk EXCEPT ![p0][Stem[t0]] = File("whole", t0)] /\ taught' = taught \cup {t0}
      BY <2>2, <3>1 DEF Replaces
    <3>3. docKind = "rules" => ~Collides(disk[p0][Stem[t0]], t0)
      BY <1>3, <3>1 DEF AtWork, Writing
    <3> HIDE DEF t0, p0
    <3>4. \A t \in taught, p \in Places :
            (docKind = "rules" \/ Alone(t)) /\ t # t0 /\ disk[p][Stem[t]] = File("whole", t) => disk'[p][Stem[t]] = File("whole", t)
      <4> SUFFICES ASSUME NEW t \in taught, NEW p \in Places, docKind = "rules" \/ Alone(t), t # t0,
                          disk[p][Stem[t]] = File("whole", t)
                   PROVE  ~(p = p0 /\ Stem[t] = Stem[t0])
        BY <1>9, <3>1, <3>2 DEF Stems
      <4>1. Alone(t) => Stem[t] # Stem[t0]
        BY <3>1 DEF Alone
      <4>2. p = p0 /\ Stem[t] = Stem[t0] => Collides(disk[p0][Stem[t0]], t0)
        BY DEF Collides, Whole, File
      <4> QED
        BY <3>3, <4>1, <4>2
    <3>5. disk'[p0][Stem[t0]] = File("whole", t0)
      BY <1>7, <1>9, <3>1, <3>2 DEF p0
    <3> QED
      BY <1>1, <1>2, <1>3, <1>4, <1>7, <3>2, <3>4, <3>5 DEF TaughtIsKept, p0
  <2>3. CASE Unlinks(w)
    <3> DEFINE t0 == command[w].title
    <3>1. t0 \in Titles /\ Stem[t0] \in Stems /\ command[w].phase = "unlink" /\ command[w].op = "promote"
      BY <1>4, <1>8, <2>3 DEF Unlinks, CommandIs, WellFormed
    <3>2. disk' = [disk EXCEPT !["drafts"][Stem[t0]] = NoFile] /\ taught' = taught
      BY <2>3 DEF Unlinks
    <3>3. disk["drafts"][Stem[t0]] = File("whole", t0) /\ disk["approved"][Stem[t0]] = File("whole", t0)
      BY <1>3, <3>1 DEF AtWork
    <3> HIDE DEF t0
    <3>4. \A t \in taught, p \in Places :
            disk[p][Stem[t]] = File("whole", t) => \E q \in Places : disk'[q][Stem[t]] = File("whole", t)
      <4> SUFFICES ASSUME NEW t \in taught, NEW p \in Places, disk[p][Stem[t]] = File("whole", t)
                   PROVE  \E q \in Places : disk'[q][Stem[t]] = File("whole", t)
        OBVIOUS
      <4>1. CASE p = "drafts" /\ Stem[t] = Stem[t0]
        <5>1. t = t0
          BY <3>3, <4>1 DEF File
        <5> QED
          BY <1>9, <3>1, <3>2, <3>3, <5>1 DEF Places
      <4>2. CASE ~(p = "drafts" /\ Stem[t] = Stem[t0])
        <5>1. disk'[p][Stem[t]] = disk[p][Stem[t]]
          BY <1>9, <3>1, <3>2, <4>2 DEF Places, Stems
        <5> QED
          BY <5>1
      <4> QED
        BY <4>1, <4>2
    <3> QED
      BY <1>1, <1>2, <1>3, <1>4, <3>2, <3>4 DEF TaughtIsKept
  <2>4. CASE CopyCreates(w)
    <3>1. PICK old \in command[w].todo :
            \/ disk' = disk
            \/ disk["approved"][Stem[old]] = NoFile /\ disk' = [disk EXCEPT !["approved"][Stem[old]] = File("torn", Untitled)]
      BY <2>4 DEF CopyCreates
    <3>2. taught' = taught /\ old \in Titles /\ Stem[old] \in Stems
      BY <1>4, <2>4, TaughtAssumption DEF CopyCreates, Commanded, Stems
    <3>3. \A t \in taught, p \in Places : disk[p][Stem[t]] = File("whole", t) => disk'[p][Stem[t]] = File("whole", t)
      BY <1>9, <3>1, <3>2 DEF NoFile, File, Stems, Places
    <3> QED
      BY <1>1, <1>2, <1>3, <1>4, <3>2, <3>3 DEF TaughtIsKept
  <2>5. CASE CopyFills(w)
    <3> DEFINE t0 == command[w].title
    <3>1. t0 \in Titles /\ Stem[t0] \in Stems /\ command[w].phase = "copying" /\ ~Whole(disk["approved"][Stem[t0]])
      BY <1>3, <1>8, <2>5 DEF CopyFills, AtWork
    <3>2. disk' = [disk EXCEPT !["approved"][Stem[t0]] = File("whole", t0)] /\ taught' = taught \cup {t0}
      BY <2>5 DEF CopyFills
    <3> HIDE DEF t0
    <3>3. \A t \in taught, p \in Places : disk[p][Stem[t]] = File("whole", t) => disk'[p][Stem[t]] = File("whole", t)
      BY <1>9, <3>1, <3>2 DEF Whole, File, Stems, Places
    <3>4. disk'["approved"][Stem[t0]] = File("whole", t0)
      BY <1>9, <3>1, <3>2 DEF Places
    <3> QED
      BY <1>1, <1>2, <1>3, <1>4, <3>2, <3>3, <3>4 DEF TaughtIsKept, Places
  <2> QED
    BY <2>1, <2>2, <2>3, <2>4, <2>5, QuietSteps DEF Acts, LeavesFiles, Opens, Fills, WriteFails
<1> QED
  BY <1>5, <1>6, <1>10, <1>11, <1>1

\* A file that is there stays among the approved.
LEMMA PassedStays ==
  ASSUME TaughtInv, NEW w \in Teachers, Acts(w), NEW old \in OldStore, PassedOn(old)
  PROVE  PassedOn(old)'
<1>1. disk \in [Places -> [Stems -> Files]] /\ old \in Titles /\ Stem[old] \in Stems
  BY TaughtAssumption DEF TaughtInv, TaughtTypeOK, Stems
<1> USE <1>1 DEF PassedOn
<1>2. CASE UNCHANGED disk
  BY <1>2
<1>3. CASE Replaces(w)
  <2>1. temp[w] = File("whole", command[w].title)
    BY <1>3 DEF Replaces, TaughtInv, FilesAre
  <2>2. disk' = [disk EXCEPT ![command[w].place][Stem[command[w].title]] = File("whole", command[w].title)]
    BY <1>3, <2>1 DEF Replaces
  <2>3. File("whole", command[w].title) # NoFile
    BY DEF File, NoFile
  <2> QED
    BY <2>2, <2>3 DEF Places
<1>4. CASE Unlinks(w)
  BY <1>4 DEF Unlinks, Places
<1>5. CASE CopyCreates(w)
  BY <1>5 DEF CopyCreates, Places, File, NoFile
<1>6. CASE CopyFills(w)
  BY <1>6 DEF CopyFills, Places, File, NoFile
<1> QED
  BY <1>2, <1>3, <1>4, <1>5, <1>6, QuietSteps DEF Acts, LeavesFiles, Opens, Fills, WriteFails

\* What a migration has passed over is there, and it is through with all of it.
LEMMA OldStoreKept == ASSUME TaughtInv, NEW w \in Teachers, Acts(w) PROVE OldStoreInv'
<1>1. /\ command' \in [Teachers -> Commanded] /\ command \in [Teachers -> Commanded]
      /\ \A v \in Teachers \ {w} : command'[v] = command[v]
      /\ CommandIs(w)' /\ CommandIs(w)
  BY CommandMoves DEF TaughtInv, CommandsAre
<1>2. Migrating(w)' => \A old \in OldStore \ command'[w].todo : PassedOn(old)'
  <2>1. CASE Migrates(w)
    BY <2>1 DEF Migrates, StepsTo, Step, TaughtInv
  <2>2. CASE CopyCreates(w)
    <3>1. Migrating(w)
      BY <1>1, <2>2 DEF CopyCreates, Migrating, Busy, CommandIs, WellFormed
    <3>2. PICK old \in command[w].todo :
            \/ StepsTo(w, [command[w] EXCEPT !.phase = "copying", !.title = old])
            \/ PassedOn(old) /\ StepsTo(w, [command[w] EXCEPT !.todo = @ \ {old}])
      BY <2>2 DEF CopyCreates, PassedOn
    <3>3. CASE StepsTo(w, [command[w] EXCEPT !.phase = "copying", !.title = old])
      <4>1. command'[w].todo = command[w].todo
        BY <1>1, <3>3 DEF StepsTo, Commanded
      <4> QED
        BY <3>1, <4>1, PassedStays DEF TaughtInv, OldStoreInv
    <3>4. CASE PassedOn(old) /\ StepsTo(w, [command[w] EXCEPT !.todo = @ \ {old}])
      <4>1. command'[w].todo = command[w].todo \ {old}
        BY <1>1, <3>4 DEF StepsTo, Commanded
      <4> QED
        BY <3>1, <3>4, <4>1, PassedStays DEF TaughtInv, OldStoreInv
    <3> QED
      BY <3>2, <3>3, <3>4
  <2>3. CASE CopyFills(w)
    <3>0. PICK t0 : t0 = command[w].title
      OBVIOUS
    <3>1. Migrating(w) /\ t0 \in OldStore /\ t0 \in Titles /\ Stem[t0] \in Stems
      BY <1>1, <2>3, <3>0, TaughtAssumption DEF CopyFills, Migrating, Busy, CommandIs, WellFormed, Stems
    <3>2. command'[w].todo = command[w].todo \ {t0}
      BY <1>1, <2>3, <3>0 DEF CopyFills, StepsTo, Commanded
    <3>3. disk' = [disk EXCEPT !["approved"][Stem[t0]] = File("whole", t0)]
      BY <2>3, <3>0 DEF CopyFills
    <3>4. disk'["approved"][Stem[t0]] = File("whole", t0)
      BY <3>1, <3>3 DEF TaughtInv, TaughtTypeOK, Places
    <3>5. PassedOn(t0)'
      BY <3>4 DEF PassedOn, File, NoFile
    <3>6. ASSUME NEW old \in OldStore \ command'[w].todo PROVE PassedOn(old)'
      <4>1. CASE old = t0
        BY <3>5, <4>1 DEF PassedOn
      <4>2. CASE old # t0
        <5>1. PassedOn(old)
          BY <3>1, <3>2, <3>6, <4>2 DEF TaughtInv, OldStoreInv
        <5> QED
          BY <5>1, <3>6, PassedStays
      <4> QED
        BY <4>1, <4>2
    <3> QED
      BY <3>6
  <2>4. CASE ~Migrates(w) /\ ~CopyCreates(w) /\ ~CopyFills(w)
    <3>1. command'[w].phase \notin {"copy", "copying"}
      <4>1. CASE DraftsRule(w) \/ MinesMacro(w) \/ RecordsMacro(w) \/ PromotesRule(w) \/ PromotesMacro(w)
        BY <1>1, <4>1 DEF DraftsRule, MinesMacro, RecordsMacro, PromotesRule, PromotesMacro, StepsTo, Step
      <4>2. CASE Opens(w) \/ Fills(w) \/ Unlinks(w) \/ WriteFails(w) \/ IsKilled(w)
        BY <1>1, <4>2 DEF Opens, Fills, Unlinks, WriteFails, IsKilled, StepsTo, Commanded
      <4>3. CASE Replaces(w)
        BY <1>1, <4>3 DEF Replaces, StepsTo, Commanded
      <4>4. CASE CopyEnds(w)
        BY <1>1, <4>4 DEF CopyEnds, StepsTo, Step, AtRest
      <4> QED
        BY <2>4, <4>1, <4>2, <4>3, <4>4 DEF Acts
    <3> QED
      BY <1>1, <3>1 DEF CommandIs, WellFormed, Migrating, Busy
  <2> QED
    BY <2>1, <2>2, <2>3, <2>4
<1>3. \A v \in Teachers \ {w} : Migrating(v)' => \A old \in OldStore \ command'[v].todo : PassedOn(old)'
  BY <1>1, PassedStays DEF TaughtInv, OldStoreInv, Migrating, Busy
<1>4. AnyBegun' /\ ~cutDown' => (\E v \in Teachers : Migrating(v)') \/ \A old \in OldStore : PassedOn(old)'
  <2>1. CASE ~AnyBegun
    <3>1. OldStore = {} \/ MustMigrate
      BY <2>1 DEF AnyBegun, MustMigrate, Listed
    <3>2. CASE MustMigrate
      <4>1. Migrates(w)
        BY <2>1, <3>2 DEF AnyBegun, Busy, Acts, Commands, DraftsRule, MinesMacro, RecordsMacro, PromotesRule, PromotesMacro,
                          Opens, Fills, Replaces, Unlinks, CopyCreates, CopyFills, CopyEnds, WriteFails, IsKilled
      <4>2. Migrating(w)'
        BY <1>1, <4>1 DEF Migrates, Migrating, Busy, StepsTo, Step
      <4> QED
        BY <4>2
    <3> QED
      BY <3>1, <3>2
  <2>2. CASE AnyBegun
    <3>1. SUFFICES ASSUME ~cutDown' PROVE (\E v \in Teachers : Migrating(v)') \/ \A old \in OldStore : PassedOn(old)'
      OBVIOUS
    <3>2. ~cutDown /\ ~IsKilled(w)
      BY <3>1 DEF Acts, TaughtInv, TaughtTypeOK, Commands, DraftsRule, MinesMacro, RecordsMacro, PromotesRule, PromotesMacro,
           Opens, Fills, Replaces, Unlinks, Migrates, CopyCreates, CopyFills, CopyEnds, WriteFails, IsKilled
    <3>3. CASE \A old \in OldStore : PassedOn(old)
      BY <3>3, PassedStays
    <3>4. CASE \E v \in Teachers : Migrating(v)
      <4>1. PICK v \in Teachers : Migrating(v)
        BY <3>4
      <4>2. CASE v # w
        BY <1>1, <4>1, <4>2 DEF Migrating, Busy
      <4>3. CASE v = w
        <5>1. command[w].phase \in {"copy", "copying"} /\ command[w].op = "migrate"
          BY <1>1, <4>1, <4>3 DEF Migrating, Busy, CommandIs, WellFormed
        <5>2. CASE CopyEnds(w)
          BY <4>1, <4>3, <5>2, PassedStays DEF CopyEnds, TaughtInv, OldStoreInv
        <5>3. CASE CopyFills(w)
          BY <1>1, <5>1, <5>3 DEF CopyFills, StepsTo, Migrating, Busy, Commanded
        <5>4. CASE CopyCreates(w)
          <6>1. PICK old \in command[w].todo :
                  \/ StepsTo(w, [command[w] EXCEPT !.phase = "copying", !.title = old])
                  \/ StepsTo(w, [command[w] EXCEPT !.todo = @ \ {old}])
            BY <5>4 DEF CopyCreates
          <6>2. command'[w].op = "migrate" /\ command'[w].phase \in {"copy", "copying"}
            <7>1. CASE StepsTo(w, [command[w] EXCEPT !.phase = "copying", !.title = old])
              BY <1>1, <5>1, <7>1 DEF StepsTo, Commanded
            <7>2. CASE StepsTo(w, [command[w] EXCEPT !.todo = @ \ {old}])
              BY <1>1, <5>1, <7>2 DEF StepsTo, Commanded
            <7> QED
              BY <6>1, <7>1, <7>2
          <6> QED
            BY <6>2 DEF Migrating, Busy
        <5> QED
          BY <3>2, <5>1, <5>2, <5>3, <5>4 DEF Acts, AtRest, Step, Commands, DraftsRule, MinesMacro, RecordsMacro, PromotesRule,
             PromotesMacro, Opens, Fills, Replaces, Unlinks, Migrates, WriteFails
      <4> QED
        BY <4>2, <4>3
    <3> QED
      BY <2>2, <3>2, <3>3, <3>4 DEF TaughtInv, OldStoreInv
  <2> QED
    BY <2>1, <2>2
<1> QED
  BY <1>2, <1>3, <1>4 DEF OldStoreInv

\* The invariant holds of an empty store, and every step keeps it.
LEMMA InitTaught == TaughtInit => TaughtInv
<1> USE TaughtAssumption DEF TaughtInit
<1>1. SUFFICES ASSUME TaughtInit PROVE TaughtInv
  OBVIOUS
<1>2. TaughtTypeOK /\ command \in [Teachers -> Commanded]
  BY <1>1 DEF TaughtTypeOK, Files, NoFile, File, AtRest, Step, Commanded, Phases, Places
<1>3. CommandsAre /\ FilesAre
  BY <1>1 DEF CommandsAre, CommandIs, WellFormed, FilesAre, Whole, NoFile, File, AtRest, Step, Writing
<1>4. OneAtATime
  BY <1>1 DEF OneAtATime, OneCommand, AtWork, TaughtIsKept, Busy, AtRest, Step, Writing
<1>5. OldStoreInv
  BY <1>1 DEF OldStoreInv, Migrating, AnyBegun, Busy, AtRest, Step, NoFile, File
<1> QED
  BY <1>2, <1>3, <1>4, <1>5 DEF TaughtInv

\* One step of any command, or none.
LEMMA NextTaught == TaughtInv /\ [TaughtNext]_taughtVars => TaughtInv'
<1>1. ASSUME TaughtInv, NEW w \in Teachers, Acts(w) PROVE TaughtInv'
  BY <1>1, FilesMove, AloneKept, OldStoreKept DEF TaughtInv
<1>2. ASSUME TaughtInv, UNCHANGED taughtVars PROVE TaughtInv'
  <2>1. (\A w \in Teachers : Busy(w)' = Busy(w) /\ Migrating(w)' = Migrating(w) /\ AtWork(w)' = AtWork(w)) /\ AnyBegun' = AnyBegun
    BY <1>2 DEF taughtVars, Busy, Migrating, AtWork, AnyBegun
  <2> QED
    BY <1>2, <2>1 DEF taughtVars, TaughtInv, TaughtTypeOK, CommandsAre, CommandIs, WellFormed, FilesAre, OneAtATime, OneCommand,
                      TaughtIsKept, OldStoreInv, PassedOn
<1>3. TaughtNext => \E w \in Teachers : Acts(w)
  BY DEF TaughtNext, Acts
<1> QED
  BY <1>1, <1>2, <1>3

\* What was taught is never lost, whatever command fails or is killed, and a
\* migration that is through has brought every document: TaughtSound, for any
\* names, stems and commands.
THEOREM TaughtStays == TaughtSpec => []TaughtSound
<1>1. TaughtInv => TaughtSound
  <2>1. SUFFICES ASSUME TaughtInv PROVE TaughtSound
    OBVIOUS
  <2>2. TaughtIsKept
    BY <2>1 DEF TaughtInv, OneAtATime, TaughtIsKept
  <2>3. OldStoreArrives
    BY <2>1 DEF TaughtInv, OldStoreInv, OldStoreArrives, AnyBegun, Migrating, PassedOn
  <2> QED
    BY <2>2, <2>3 DEF TaughtSound
<1> QED
  BY <1>1, InitTaught, NextTaught, PTL DEF TaughtSpec

\* A rule's file is replaced by a rule of the same name only, by whatever step
\* of whatever command (NeighbourKept, which NothingErased checks).
THEOREM NeighboursKept == TaughtSpec => [][NeighbourKept]_taughtVars
<1>1. ASSUME TaughtInv, NEW w \in Teachers, Acts(w) PROVE NeighbourKept
  <2>1. SUFFICES ASSUME NEW s \in Stems, NEW p \in Places, docKind = "rules", ~overlapped', Whole(disk[p][s])
                 PROVE  disk'[p][s].title = disk[p][s].title \/ (p = "drafts" /\ disk'[p][s] = NoFile)
    BY DEF NeighbourKept
  <2>2. AtWork(w) /\ CommandIs(w) /\ disk \in [Places -> [Stems -> Files]]
    BY <1>1, <2>1, OverlapSeen DEF TaughtInv, OneAtATime, TaughtTypeOK, CommandsAre
  <2>3. CASE UNCHANGED disk
    BY <2>3
  <2>4. CASE Replaces(w)
    <3>1. temp[w] = File("whole", command[w].title) /\ ~Collides(disk[command[w].place][Stem[command[w].title]], command[w].title)
      BY <1>1, <2>1, <2>2, <2>4 DEF Replaces, AtWork, Writing, TaughtInv, FilesAre
    <3>2. disk' = [disk EXCEPT ![command[w].place][Stem[command[w].title]] = File("whole", command[w].title)]
      BY <2>4, <3>1 DEF Replaces
    <3>3. CASE p = command[w].place /\ s = Stem[command[w].title]
      BY <2>1, <2>2, <3>1, <3>2, <3>3 DEF Collides, File
    <3>4. CASE ~(p = command[w].place /\ s = Stem[command[w].title])
      BY <2>2, <3>2, <3>4
    <3> QED
      BY <3>3, <3>4
  <2>5. CASE Unlinks(w)
    BY <2>2, <2>5 DEF Unlinks
  <2>6. CASE CopyCreates(w)
    <3>1. PICK old \in command[w].todo :
            \/ disk' = disk
            \/ disk["approved"][Stem[old]] = NoFile /\ disk' = [disk EXCEPT !["approved"][Stem[old]] = File("torn", Untitled)]
      BY <2>6 DEF CopyCreates
    <3> QED
      BY <2>1, <2>2, <3>1 DEF Whole, NoFile, File
  <2>7. CASE CopyFills(w)
    BY <2>1, <2>2, <2>7 DEF CopyFills, AtWork
  <2> QED
    BY <1>1, <2>3, <2>4, <2>5, <2>6, <2>7, QuietSteps DEF Acts, LeavesFiles, Opens, Fills, WriteFails
<1>2. TaughtInv /\ [TaughtNext]_taughtVars => [NeighbourKept]_taughtVars
  BY <1>1 DEF TaughtNext, Acts
<1> QED
  BY <1>2, InitTaught, NextTaught, PTL DEF TaughtSpec
===============================================================================

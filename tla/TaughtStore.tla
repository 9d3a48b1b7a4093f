----------------------------- MODULE TaughtStore ------------------------------
(***************************************************************************)
(* The files that hold what was taught: macros (loops/recorder.py,         *)
(* loader.py, store.py, miner.py) and reflex rules (rules/writer.py,       *)
(* store.py, migrate.py).  A directory of approved documents and one of    *)
(* drafts; a document's name is inside it, its file is named by a stem     *)
(* that two names may share.  A writer is one command of the operator:     *)
(* draft, record, promote, or the first one in a world, which copies the   *)
(* old store over; it may fail or be killed at any step, and a reader may  *)
(* look at any time.  Two commands on one macro file at once are left out: *)
(* they would share a temporary file.                                      *)
(***************************************************************************)
EXTENDS Naturals, FiniteSets

CONSTANTS
  Teachers, \* the commands that are given: one each
  Titles,  \* names of documents
  Stem,    \* the stem of each name
  OldStore,\* stems the store from before worlds has, each with its document's name
  Untitled \* no name

ASSUME TaughtAssumption == Untitled \notin Titles /\ DOMAIN Stem = Titles /\ OldStore \subseteq Titles

Stems == {Stem[t] : t \in Titles}
Places == {"drafts", "approved"}

VARIABLES
  docKind, \* "rules" or "macros"
  disk,    \* the files of a place by their stem
  temp,    \* each writer's temporary file
  command, \* what each writer is at
  taught,  \* names of documents that were ever in place (history)
  overlapped,   \* two commands were at work at once (history)
  cutDown   \* a command was killed (history)

taughtVars == <<docKind, disk, temp, command, taught, overlapped, cutDown>>

File(state, title) == [state |-> state, title |-> title]
NoFile == File("absent", Untitled)
Whole(f) == f.state = "whole"
Step(phase, op, title, place, todo) == [phase |-> phase, op |-> op, title |-> title, place |-> place, todo |-> todo]
AtRest == Step("rest", "none", Untitled, "drafts", {})
Busy(w) == command[w].phase \notin {"rest", "done", "dead"}
FileFree(t) == \A v \in Teachers : (Busy(v) /\ command[v].title \in Titles) => Stem[command[v].title] # Stem[t]

\* What a listing of a directory by ".json" finds: the documents, and of rules
\* the temporary files too (mkstemp with the suffix .json).
Listed(place) ==
  {disk[place][s] : s \in Stems} \cup
  {temp[w] : w \in {v \in Teachers : docKind = "rules" /\ command[v].place = place}}

\* The store is copied over when the world has no file at all.
MustMigrate == OldStore # {} /\ \A p \in Places : \A f \in Listed(p) : f.state = "absent"

TaughtInit ==
  /\ docKind \in {"rules", "macros"}
  /\ disk = [p \in Places |-> [s \in Stems |-> NoFile]] /\ temp = [w \in Teachers |-> NoFile]
  /\ command = [w \in Teachers |-> AtRest] /\ taught = {} /\ overlapped = FALSE /\ cutDown = FALSE

StepsTo(w, step) ==
  /\ command' = [command EXCEPT ![w] = step]
  /\ overlapped' = (overlapped \/ (step.phase # "done" /\ \E v \in Teachers \ {w} : Busy(v)))

\* A macro of this name is found, or a file that might be it cannot be read.
MayBeApproved(title) == \E f \in Listed("approved") : f = File("whole", title) \/ f.state = "torn"

\* _refuse_stem_collision: the file is another document's.
NeverCollides(there, title) == FALSE
Collides(there, title) == Whole(there) /\ there.title # title

Commands(w, kind) ==
  /\ docKind = kind /\ command[w] = AtRest /\ ~MustMigrate
  /\ UNCHANGED <<docKind, disk, temp, taught, cutDown>>

\* A rule is drafted; the writer refuses a stem another rule's file has.
DraftsRule(w) ==
  /\ Commands(w, "rules")
  /\ \E t \in Titles :
       StepsTo(w, Step(IF Collides(disk["drafts"][Stem[t]], t) THEN "done" ELSE "open", "draft", t, "drafts", {}))

\* A macro is mined into a draft, or recorded, which approves it.
MinesMacro(w) ==
  /\ Commands(w, "macros")
  /\ \E t \in Titles : FileFree(t) /\ StepsTo(w, Step("open", "draft", t, "drafts", {}))
RecordsMacro(w) ==
  /\ Commands(w, "macros")
  /\ \E t \in Titles : FileFree(t) /\ StepsTo(w, Step("open", "record", t, "approved", {}))

\* promote_draft: a rule's draft is found by its stem and keeps the name
\* inside it, a macro's by its name.
PromotesRule(w) ==
  /\ Commands(w, "rules")
  /\ \E s \in Stems : LET draft == disk["drafts"][s] IN
       /\ Whole(draft) /\ ~Collides(disk["approved"][s], draft.title)
       /\ StepsTo(w, Step("open", "promote", draft.title, "approved", {}))
PromotesMacro(w) ==
  /\ Commands(w, "macros")
  /\ \E t \in Titles :
       /\ disk["drafts"][Stem[t]] = File("whole", t) /\ ~MayBeApproved(t) /\ FileFree(t)
       /\ StepsTo(w, Step("open", "promote", t, "approved", {}))

OpensInPlace(w) ==
  /\ command[w].phase = "open" /\ temp' = [temp EXCEPT ![w] = File("torn", Untitled)]
  /\ disk' = [disk EXCEPT ![command[w].place][Stem[command[w].title]] = File("torn", Untitled)]
  /\ StepsTo(w, [command[w] EXCEPT !.phase = "fill"]) /\ UNCHANGED <<docKind, taught, cutDown>>
\* _atomic_write_json: a torn temporary file, a whole one, the rename.
Opens(w) ==
  /\ command[w].phase = "open" /\ temp' = [temp EXCEPT ![w] = File("torn", Untitled)]
  /\ StepsTo(w, [command[w] EXCEPT !.phase = "fill"]) /\ UNCHANGED <<docKind, disk, taught, cutDown>>

Fills(w) ==
  /\ command[w].phase = "fill" /\ temp' = [temp EXCEPT ![w] = File("whole", command[w].title)]
  /\ StepsTo(w, [command[w] EXCEPT !.phase = "rename"]) /\ UNCHANGED <<docKind, disk, taught, cutDown>>

Replaces(w) ==
  /\ command[w].phase = "rename"
  /\ disk' = [disk EXCEPT ![command[w].place][Stem[command[w].title]] = temp[w]]
  /\ temp' = [temp EXCEPT ![w] = NoFile] /\ taught' = taught \cup {command[w].title}
  /\ StepsTo(w, [command[w] EXCEPT !.phase = IF @ = "rename" /\ command[w].op = "promote" THEN "unlink" ELSE "done"])
  /\ UNCHANGED <<docKind, cutDown>>

\* The draft goes once the approved document is in place.
Unlinks(w) ==
  /\ command[w].phase = "unlink"
  /\ disk' = [disk EXCEPT !["drafts"][Stem[command[w].title]] = NoFile]
  /\ StepsTo(w, [command[w] EXCEPT !.phase = "done"]) /\ UNCHANGED <<docKind, temp, taught, cutDown>>

\* migrate_flat_..._to_world: file after file, created and then filled, those
\* that exist already passed over; a world with a file is never looked at again.
Migrates(w) ==
  /\ command[w] = AtRest /\ MustMigrate
  /\ StepsTo(w, Step("copy", "migrate", Untitled, "approved", OldStore))
  /\ UNCHANGED <<docKind, disk, temp, taught, cutDown>>

CopyCreates(w) ==
  /\ command[w].phase = "copy" /\ command[w].todo # {}
  /\ \E old \in command[w].todo :
       IF disk["approved"][Stem[old]] = NoFile
       THEN /\ disk' = [disk EXCEPT !["approved"][Stem[old]] = File("torn", Untitled)]
            /\ StepsTo(w, [command[w] EXCEPT !.phase = "copying", !.title = old])
       ELSE UNCHANGED disk /\ StepsTo(w, [command[w] EXCEPT !.todo = @ \ {old}])
  /\ UNCHANGED <<docKind, temp, taught, cutDown>>

CopyFills(w) ==
  /\ command[w].phase = "copying"
  /\ disk' = [disk EXCEPT !["approved"][Stem[command[w].title]] = File("whole", command[w].title)]
  /\ taught' = taught \cup {command[w].title}
  /\ StepsTo(w, [command[w] EXCEPT !.phase = "copy", !.todo = @ \ {command[w].title}])
  /\ UNCHANGED <<docKind, temp, cutDown>>

CopyEndsEarly(w) ==
  /\ command[w].phase = "copy" /\ StepsTo(w, AtRest)
  /\ UNCHANGED <<docKind, disk, temp, taught, cutDown>>
CopyEnds(w) ==
  /\ command[w].phase = "copy" /\ command[w].todo = {} /\ StepsTo(w, AtRest)
  /\ UNCHANGED <<docKind, disk, temp, taught, cutDown>>

\* An exception takes the temporary file along, a kill leaves everything.
WriteFails(w) ==
  /\ command[w].phase \in {"open", "fill", "rename", "unlink"}
  /\ temp' = [temp EXCEPT ![w] = NoFile] /\ StepsTo(w, [command[w] EXCEPT !.phase = "done"])
  /\ UNCHANGED <<docKind, disk, taught, cutDown>>

IsKilled(w) ==
  /\ Busy(w) /\ cutDown' = TRUE /\ StepsTo(w, [command[w] EXCEPT !.phase = "dead"])
  /\ UNCHANGED <<docKind, disk, temp, taught>>

TaughtNext == \E w \in Teachers :
  \/ DraftsRule(w) \/ MinesMacro(w) \/ RecordsMacro(w) \/ PromotesRule(w) \/ PromotesMacro(w)
  \/ Opens(w) \/ Fills(w) \/ Replaces(w) \/ Unlinks(w)
  \/ Migrates(w) \/ CopyCreates(w) \/ CopyFills(w) \/ CopyEnds(w) \/ WriteFails(w) \/ IsKilled(w)
TaughtSpec == TaughtInit /\ [][TaughtNext]_taughtVars

-------------------------------------------------------------------------------
Files == [state : {"absent", "torn", "whole"}, title : Titles \cup {Untitled}]
TaughtTypeOK ==
  /\ docKind \in {"rules", "macros"} /\ disk \in [Places -> [Stems -> Files]] /\ temp \in [Teachers -> Files]
  /\ \A w \in Teachers : command[w].title \in Titles \cup {Untitled} /\ command[w].place \in Places
  /\ taught \subseteq Titles /\ overlapped \in BOOLEAN /\ cutDown \in BOOLEAN

Alone(t) == \A o \in Titles \ {t} : Stem[o] # Stem[t]

\* What was taught is never lost, whatever command fails or is killed at
\* whatever step: its document is among the drafts or the approved, whole
\* (promote_draft writes before it unlinks).  Commands come one at a time, and
\* a macro shares its stem with no other, which nothing in its writer sees to.
TaughtIsKept == ~overlapped => \A t \in taught : (docKind = "rules" \/ Alone(t)) =>
  \E p \in Places : disk[p][Stem[t]] = File("whole", t)

\* An approved rule is replaced by a rule of the same name only.
NeighbourKept ==
  \A s \in Stems, p \in Places : (docKind = "rules" /\ ~overlapped' /\ Whole(disk[p][s])) =>
       disk'[p][s].title = disk[p][s].title \/ (p = "drafts" /\ disk'[p][s] = NoFile)

\* When the first command in a world is through, and none was killed, every
\* document of the old store has its file in it.
OldStoreArrives ==
  (\A w \in Teachers : command[w].op # "migrate" \/ ~Busy(w)) /\ ~cutDown /\ taught # {} =>
    \A old \in OldStore : disk["approved"][Stem[old]] # NoFile

\* Whatever was taught is in the store, by whichever command it came there.
TaughtSound == TaughtIsKept /\ OldStoreArrives
===============================================================================

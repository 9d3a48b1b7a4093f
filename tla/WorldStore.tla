------------------------------ MODULE WorldStore ------------------------------
(***************************************************************************)
(* The documents of what a world has shown: a sector's record              *)
(* (world_model.py), the game's price lists (game_data.py), the menu map   *)
(* (menu/knowledge.py).  The daemon's explore thread, the idle tick of a   *)
(* play shell and a command-line crawl all write them, each from what it   *)
(* has just seen: take the document's flock, read it, merge, write a       *)
(* temporary file of a fixed name, rename it over the document.  A writer  *)
(* may die or raise at any step; the system then drops its flock.          *)
(*                                                                         *)
(* A value is the writer that recorded it; rows are keyed by a name.       *)
(***************************************************************************)
EXTENDS Naturals, FiniteSets

CONSTANTS
  Recorders, \* the writes that happen: one each
  Names,     \* names of landmarks, price rows, menu nodes and edges
  Unknown    \* never recorded

ASSUME WorldAssumption == Unknown \notin Recorders

VARIABLES
  kind,     \* which document: "sector", "prices", "menu"
  flock,    \* who holds the document's flock, or Unknown
  writerPhase,    \* each writer: "rest", "wait", "locked", "loaded", "opened", "written", "done", "dead"
  record,   \* what each writer has to record
  merged,   \* each writer's merge of it with what it read
  file,     \* the document
  tmpFile,  \* the temporary file: absent, torn, or a document
  summed    \* what the writes whose rename happened say, one after another (history)

worldVars == <<kind, flock, writerPhase, record, merged, file, tmpFile, summed>>
docVars == <<kind, record, file, tmpFile, summed>>

\* A document: parts that are replaced whole (warps, a density, the one cargo
\* and transwarp row, last_crawl), the two subfields of a port, and rows.
EmptyDoc == [whole |-> Unknown, class |-> Unknown, goods |-> Unknown, rows |-> [n \in Names |-> Unknown]]
\* A temporary file: none, one just truncated, or one that holds a document.
Tmp(state, doc) == [state |-> state, doc |-> doc]
Absent == Tmp("absent", EmptyDoc)
TornTmp == Tmp("torn", EmptyDoc)

\* A record names what it has seen.  "state" is write_from_state at a prompt,
\* which may see no port at all; "report" a port report, in play or of a scan;
\* "landmark", "price" and "menu" carry one row, "single" one whole part.
SectorSources == {"state", "no port", "class", "report", "landmark", "single"}
PriceSources == {"price", "single"}
MenuSources == {"menu", "single"}
Sources == [sector |-> SectorSources, prices |-> PriceSources, menu |-> MenuSources]

Record(source, name) == [source |-> source, name |-> name]

\* The first spelling of a landmark stays.
LandmarkAnew(old, w) == w
Landmark(old, w) == IF old = Unknown THEN w ELSE old

\* _merge_landmarks keeps the first spelling; a price row or a menu node of
\* the same name is replaced.
Merge(doc, r, w) ==
  CASE r.source \in {"state", "single"} -> [doc EXCEPT !.whole = w]
    [] r.source = "no port" -> [doc EXCEPT !.whole = w, !.class = Unknown, !.goods = Unknown]
    [] r.source = "class" -> [doc EXCEPT !.whole = w, !.class = w]
    [] r.source = "report" -> [doc EXCEPT !.goods = w]
    [] r.source = "landmark" -> [doc EXCEPT !.rows[r.name] = Landmark(@, w)]
    [] r.source \in {"price", "menu"} -> [doc EXCEPT !.rows[r.name] = w]

WorldInit ==
  /\ kind = "none" /\ flock = Unknown /\ writerPhase = [w \in Recorders |-> "rest"]
  /\ record = [w \in Recorders |-> Record("none", "none")] /\ merged = [w \in Recorders |-> EmptyDoc]
  /\ file = EmptyDoc /\ tmpFile = Absent /\ summed = EmptyDoc

Sees(w) ==
  /\ writerPhase[w] = "rest" /\ kind' \in (IF kind = "none" THEN DOMAIN Sources ELSE {kind})
  /\ \E s \in Sources[kind'], n \in Names : record' = [record EXCEPT ![w] = Record(s, n)]
  /\ writerPhase' = [writerPhase EXCEPT ![w] = "wait"]
  /\ UNCHANGED <<flock, merged, file, tmpFile, summed>>

LocksNothing(w) ==
  /\ writerPhase[w] = "wait"
  /\ flock' = w /\ writerPhase' = [writerPhase EXCEPT ![w] = "locked"]
  /\ UNCHANGED <<merged, docVars>>
Locks(w) ==
  /\ writerPhase[w] = "wait" /\ flock = Unknown
  /\ flock' = w /\ writerPhase' = [writerPhase EXCEPT ![w] = "locked"]
  /\ UNCHANGED <<merged, docVars>>

\* An absent document reads as an empty one.
Loads(w) ==
  /\ writerPhase[w] = "locked"
  /\ merged' = [merged EXCEPT ![w] = Merge(file, record[w], w)]
  /\ writerPhase' = [writerPhase EXCEPT ![w] = "loaded"]
  /\ UNCHANGED <<flock, docVars>>

TruncatesTmp(w) ==
  /\ writerPhase[w] = "loaded"
  /\ tmpFile' = TornTmp /\ writerPhase' = [writerPhase EXCEPT ![w] = "opened"]
  /\ UNCHANGED <<kind, flock, record, merged, file, summed>>

WritesTmp(w) ==
  /\ writerPhase[w] = "opened"
  /\ tmpFile' = Tmp("whole", merged[w]) /\ writerPhase' = [writerPhase EXCEPT ![w] = "written"]
  /\ UNCHANGED <<kind, flock, record, merged, file, summed>>

\* The rename, and the flock let go.
Renames(w) ==
  /\ writerPhase[w] = "written"
  /\ file' = tmpFile.doc /\ tmpFile' = Absent
  /\ summed' = Merge(summed, record[w], w)
  /\ flock' = Unknown /\ writerPhase' = [writerPhase EXCEPT ![w] = "done"]
  /\ UNCHANGED <<kind, record, merged>>

RaisesHolding(w) ==
  /\ writerPhase[w] \in {"locked", "loaded", "opened", "written"}
  /\ tmpFile' = Absent /\ writerPhase' = [writerPhase EXCEPT ![w] = "dead"]
  /\ UNCHANGED <<flock, kind, record, merged, file, summed>>
\* An exception takes the temporary file along; a kill leaves it.
WriterRaises(w) ==
  /\ writerPhase[w] \in {"locked", "loaded", "opened", "written"}
  /\ tmpFile' \in (IF writerPhase[w] \in {"opened", "written"} THEN {Absent, tmpFile} ELSE {tmpFile})
  /\ flock' = Unknown /\ writerPhase' = [writerPhase EXCEPT ![w] = "dead"]
  /\ UNCHANGED <<kind, record, merged, file, summed>>

WriterStep(w) == Locks(w) \/ Loads(w) \/ TruncatesTmp(w) \/ WritesTmp(w) \/ Renames(w)
WorldNext == \E w \in Recorders : Sees(w) \/ WriterStep(w) \/ WriterRaises(w)
WorldSpec == WorldInit /\ [][WorldNext]_worldVars

-------------------------------------------------------------------------------
Documents == [whole : Recorders \cup {Unknown}, class : Recorders \cup {Unknown},
              goods : Recorders \cup {Unknown}, rows : [Names -> Recorders \cup {Unknown}]]
WorldTypeOK ==
  /\ kind \in DOMAIN Sources \cup {"none"} /\ flock \in Recorders \cup {Unknown}
  /\ writerPhase \in [Recorders -> {"rest", "wait", "locked", "loaded", "opened", "written", "done", "dead"}]
  /\ merged \in [Recorders -> Documents]
  /\ file \in Documents /\ tmpFile \in [state : {"absent", "torn", "whole"}, doc : Documents]
  /\ summed \in Documents

\* What the document says is what the finished writes give one after another,
\* whoever else was half way or died, in whatever order they had looked
\* (_sector_lock around the read, the merge and the rename).
NothingForgotten == file = summed

\* A landmark once recorded stays, and no observation without one erases it.
LandmarksKept ==
  \A n \in Names : kind = "sector" /\ file.rows[n] # Unknown => file'.rows[n] = file.rows[n]

\* A writer that waits for the document gets it, whoever dies holding it.
WriterServed == \A w \in Recorders : writerPhase[w] = "wait" ~> writerPhase[w] \in {"done", "dead"}
===============================================================================

----------------------------- MODULE Revisions -----------------------------
(***************************************************************************)
(* src/app/services/revisions.py: the note that says which revision an     *)
(* answer quotes, while documents are stored, replaced and marked          *)
(* superseded.  `library` holds the rows of the documents: id -> [pdf,     *)
(* key, revision, date, superseded]; a date of 0 is one no page prints.    *)
(* Ids grow.  The note is written from two statements of one READ          *)
(* COMMITTED transaction.                                                  *)
(***************************************************************************)
EXTENDS PdfText

CONSTANTS
  Editions,    \* the PDFs that are uploaded: [headers, revision, key, title], the
               \* header of each page and what the caller says of them
  MaxId        \* bound: uploads

VARIABLES
  library,
  uploads,     \* ids given so far
  phase,       \* of the answer: "asked", "loaded", "noted"
  loaded,      \* the rows of the documents it reads from, as first seen
  notes        \* document -> its SourceRevision

revisionVars == <<library, uploads, phase, loaded, notes>>

RevisionsStart(p) ==
  library = <<>> /\ uploads = 0 /\ phase = p /\ loaded = <<>> /\ notes = <<>>
RevisionsInit == RevisionsStart("asked")
RevisionsIdle == RevisionsStart("none")

Restricted(S) == [d \in S |-> library[d]]

(* The row of a PDF, from what its pages and the caller say.               *)
Row(e) ==
  LET printed == document_revision(e.headers, e.revision, e.title)
  IN  [pdf |-> e, revision |-> printed.revision, date |-> printed.issued, superseded |-> FALSE,
       key |-> IF e.key # None THEN e.key ELSE document_key(printed.revision)]

(* What the notes rely on: a document has a name, it is more than a change *)
(* marker, and keys tell the manuals apart, those that callers choose too  *)
(* ("a key that stays the same across revisions", revisions.py:3-6).       *)
ASSUME RevisionsAssumption ==
  /\ None \notin Nat
  /\ \A e \in Editions : Row(e).revision # None /\ Row(e).key # None /\ Row(e).date \in Nat
  /\ \A e, f \in Editions :
       Row(e).key = Row(f).key <=> Head(Row(e).revision) = Head(Row(f).revision)

(* A PDF is stored; the copy it replaces is one of the same bytes.         *)
Upload ==
  /\ phase # "none" /\ uploads < MaxId
  /\ \E e \in Editions :
       library' = [d \in {uploads + 1} \cup {c \in DOMAIN library : library[c].pdf # e} |->
                     IF d = uploads + 1 THEN Row(e) ELSE library[d]]
  /\ uploads' = uploads + 1
  /\ UNCHANGED <<phase, loaded, notes>>

Mark ==
  /\ phase # "none"
  /\ \E d \in DOMAIN library :
       library' = [library EXCEPT ![d].superseded = ~@]
  /\ UNCHANGED <<uploads, phase, loaded, notes>>

(* The documents of the passages that are read, if they are still stored.  *)
LoadSources ==
  /\ phase = "asked"
  /\ \E S \in SUBSET DOMAIN library : loaded' = Restricted(S)
  /\ phase' = "loaded"
  /\ UNCHANGED <<library, uploads, notes>>

-----------------------------------------------------------------------------
(* Faulty: an upload of the same revision counts as a newer one.           *)
newer_by_id(rows, d, c) ==
  /\ c # d /\ rows[c].key = rows[d].key
  /\ IF rows[c].date # 0 /\ rows[d].date # 0 THEN rows[c].date > rows[d].date ELSE c > d

(* Is c a later revision of the same document than d?                      *)
_newer(rows, d, c) ==
  /\ c # d /\ rows[c].key = rows[d].key
  /\ IF rows[c].date # 0 /\ rows[d].date # 0
     THEN rows[c].date > rows[d].date
     ELSE rows[c].revision # rows[d].revision /\ c > d

source_revision(rows, d) ==
  LET newer == {c \in DOMAIN rows : rows[d].key # None /\ _newer(rows, d, c)}
      before(c, e) == rows[c].date < rows[e].date \/ (rows[c].date = rows[e].date /\ c < e)
      newest == {c \in newer : ~\E e \in newer : before(c, e)}
  IN  [superseded |-> rows[d].superseded,
       newer |-> IF newest = {} THEN None ELSE CHOOSE c \in newest : TRUE,
       note |-> IF rows[d].superseded THEN "superseded"
                ELSE IF \E c \in newest : rows[c].revision # None THEN "newer"
                ELSE "confirm"]

(* The second statement finds the documents with their keys; rows that are *)
(* loaded already keep the values they had.                                *)
FindNewer ==
  /\ phase = "loaded"
  /\ LET keys == {loaded[d].key : d \in DOMAIN loaded} \ {None}
         sameKey == {d \in DOMAIN library : library[d].key \in keys}
         rows == [d \in DOMAIN loaded \cup sameKey |->
                    IF d \in DOMAIN loaded THEN loaded[d] ELSE library[d]]
     IN  notes' = [d \in DOMAIN loaded |->
                     source_revision([e \in sameKey \cup {d} |-> rows[e]], d)]
  /\ phase' = "noted"
  /\ UNCHANGED <<library, uploads, loaded>>

RevisionsNext == Upload \/ Mark \/ LoadSources \/ FindNewer

RevisionsSpec == RevisionsInit /\ [][RevisionsNext]_revisionVars

-----------------------------------------------------------------------------
(* The copies of one manual, whatever changes their names mention.         *)
Family(e) == {c \in DOMAIN library : Head(library[c].revision) = Head(e.revision)}

(* What the note on d says is so, of what is stored when it is written.    *)
IsTrue(d, note) ==
  LET e == loaded[d]
      dated == e.date # 0 /\ \A c \in Family(e) : library[c].date # 0
      later == {c \in Family(e) : library[c].date > e.date}
  IN  /\ note.newer # None => /\ note.newer \in Family(e)
                             /\ <<library[note.newer].revision, library[note.newer].date>>
                                  # <<e.revision, e.date>>
      /\ dated => IF later = {} THEN note.newer = None
                  ELSE note.newer # None /\ \A c \in later : library[note.newer].date >= library[c].date
      /\ (e.date = 0 /\ \E c \in Family(e) : c > d /\ library[c].revision # e.revision)
           => note.note # "confirm"
      /\ e.superseded <=> note.note = "superseded"

(* "Every answer names its revision" and "a newer one is stored" when one  *)
(* is (generation.py:361, revisions.py:38-64): a document is never         *)
(* said to be older than its own new copy or than another manual; of dated *)
(* revisions the latest is named, and only the latest are called current;  *)
(* of undated ones a later upload is.  A document marked superseded says   *)
(* so.                                                                     *)
NotesAreTrue ==
  [][(phase = "loaded" /\ phase' = "noted") =>
       \A d \in DOMAIN loaded : IsTrue(d, notes'[d])]_revisionVars
=============================================================================

------------------------------ MODULE Documents ------------------------------
(***************************************************************************)
(* ingest_pdf (src/app/services/documents.py:104-237) for one file's bytes: *)
(* uploads through the API and scripts/ingest_pdfs.py --replace runs that   *)
(* overlap, and scripts/mark_superseded.py, against Postgres at READ        *)
(* COMMITTED.  A DELETE locks its row until the transaction ends, and an    *)
(* INSERT waits for any open transaction that deleted or inserted the same  *)
(* content_hash before the unique constraint is decided.                    *)
(***************************************************************************)
EXTENDS FiniteSets, Naturals

CONSTANTS
  Ingests,    \* calls of ingest_pdf; also the document row each one stores
  Replacing,  \* those called with replace=True
  Markers,    \* runs of mark_superseded.py
  Undoing,    \* those run with --undo
  Original,   \* a copy that may be stored before any of these calls
  NoDoc

ASSUME DocumentsAssumption ==
  /\ Replacing \subseteq Ingests
  /\ Undoing \subseteq Markers
  /\ Original \notin Ingests
  /\ NoDoc \notin Ingests \cup {Original}

VARIABLES
  docs,        \* committed rows of documents with this content_hash
  chunked,     \* the documents whose chunks are committed
  superseded,  \* documents whose superseded flag is set
  pc,          \* where each call of ingest_pdf is
  found,       \* per call: the local `existing`
  deleting,    \* per call: rows its open transaction has deleted
  pending,     \* calls whose open transaction has flushed its row
  result,      \* per call: [how, doc] of the summary returned
  marker,      \* per run of mark_superseded.py: the document it loaded
  handMarked   \* ghost: the file was marked last, not undone

tx == <<deleting, pending>>
vars == <<docs, chunked, superseded, pc, found, tx, result, marker, handMarked>>

Copies == Ingests \cup {Original}

TypeOK ==
  /\ docs \subseteq Copies /\ chunked \subseteq Copies /\ superseded \subseteq Copies
  /\ pc \in [Ingests -> {"find", "prepare", "delete", "insert", "commit", "refind", "end"}]
  /\ found \in [Ingests -> Copies \cup {NoDoc}]
  /\ deleting \in [Ingests -> SUBSET Copies]
  /\ pending \subseteq Ingests
  /\ result \in [Ingests -> [how : {"none", "failed"}, doc : {NoDoc}]
                              \cup [how : {"new", "duplicate"}, doc : Copies]]
  /\ marker \in [Markers -> Copies \cup {NoDoc}]
  /\ handMarked \in BOOLEAN

Init ==
  /\ docs \in {{}, {Original}}
  /\ chunked = docs
  /\ superseded = {}
  /\ pc = [i \in Ingests |-> "find"]
  /\ found = [i \in Ingests |-> NoDoc]
  /\ deleting = [i \in Ingests |-> {}]
  /\ pending = {}
  /\ result = [i \in Ingests |-> [how |-> "none", doc |-> NoDoc]]
  /\ marker = [m \in Markers |-> NoDoc]
  /\ handMarked = FALSE

Goto(i, l) == pc' = [pc EXCEPT ![i] = l]

Return(i, how, doc) ==
  /\ Goto(i, "end")
  /\ result' = [result EXCEPT ![i] = [how |-> how, doc |-> doc]]

CloseTransaction(i) ==
  /\ deleting' = [deleting EXCEPT ![i] = {}]
  /\ pending' = pending \ {i}

(* find_document_by_hash, then commit: the connection goes back to the     *)
(* pool and nothing is locked.                                             *)
Find(i) ==
  /\ pc[i] = "find"
  /\ \E d \in IF docs = {} THEN {NoDoc} ELSE docs :
       /\ found' = [found EXCEPT ![i] = d]
       /\ IF d # NoDoc /\ i \notin Replacing
          THEN Return(i, "duplicate", d)
          ELSE Goto(i, "prepare") /\ UNCHANGED result
  /\ UNCHANGED <<docs, chunked, superseded, tx, marker, handMarked>>

(* Extraction in a thread, chunking and embedding: minutes, outside any    *)
(* transaction.                                                            *)
Prepare(i) ==
  /\ pc[i] = "prepare"
  /\ Goto(i, IF found[i] # NoDoc THEN "delete" ELSE "insert")
  /\ UNCHANGED <<docs, chunked, superseded, found, tx, result, marker, handMarked>>

(* Faulty: the delete is committed before the new copy is stored. *)
DeleteAndCommit(i) ==
  /\ pc[i] = "delete"
  /\ \A j \in Ingests \ {i} : found[i] \notin deleting[j]
  /\ docs' = docs \ {found[i]}
  /\ chunked' = chunked \ {found[i]}
  /\ Goto(i, "insert")
  /\ UNCHANGED <<superseded, found, tx, result, marker, handMarked>>

(* DELETE by id: waits for a transaction that already deleted the row, and *)
(* finds nothing when that one has committed.                              *)
Delete(i) ==
  /\ pc[i] = "delete"
  /\ \A j \in Ingests \ {i} : found[i] \notin deleting[j]
  /\ deleting' = [deleting EXCEPT ![i] = {found[i]} \cap docs]
  /\ Goto(i, "insert")
  /\ UNCHANGED <<docs, chunked, superseded, found, pending, result, marker, handMarked>>

MustWait(i) == \E j \in Ingests \ {i} : j \in pending \/ deleting[j] # {}

(* Faulty: no unique constraint on content_hash. *)
InsertUnchecked(i) ==
  /\ pc[i] = "insert"
  /\ pending' = pending \cup {i}
  /\ Goto(i, "commit")
  /\ UNCHANGED <<docs, chunked, superseded, found, deleting, result, marker, handMarked>>

(* Faulty: the failed transaction is left open. *)
InsertWithoutRollback(i) ==
  /\ pc[i] = "insert"
  /\ ~MustWait(i)
  /\ IF docs \ deleting[i] = {}
     THEN pending' = pending \cup {i} /\ Goto(i, "commit")
     ELSE pending' = pending \cup {i} /\ Goto(i, "refind")
  /\ UNCHANGED <<docs, chunked, superseded, found, deleting, result, marker, handMarked>>

(* flush(): the INSERT, or IntegrityError and rollback.                    *)
Insert(i) ==
  /\ pc[i] = "insert"
  /\ ~MustWait(i)
  /\ IF docs \ deleting[i] = {}
     THEN pending' = pending \cup {i} /\ Goto(i, "commit") /\ UNCHANGED deleting
     ELSE CloseTransaction(i) /\ Goto(i, "refind")
  /\ UNCHANGED <<docs, chunked, superseded, found, result, marker, handMarked>>

(* Faulty: the document is committed before its chunks are added. *)
CommitDocumentFirst(i) ==
  /\ pc[i] = "commit"
  /\ docs' = (docs \ deleting[i]) \cup {i}
  /\ chunked' = chunked \ deleting[i]
  /\ superseded' = superseded \ deleting[i]
  /\ CloseTransaction(i)
  /\ Return(i, "new", i)
  /\ UNCHANGED <<found, marker, handMarked>>

(* The chunks are added and everything is committed at once; chunks of a   *)
(* deleted document go with it, and the new row starts not superseded.     *)
Commit(i) ==
  /\ pc[i] = "commit"
  /\ docs' = (docs \ deleting[i]) \cup {i}
  /\ chunked' = (chunked \ deleting[i]) \cup {i}
  /\ superseded' = superseded \ deleting[i]
  /\ CloseTransaction(i)
  /\ Return(i, "new", i)
  /\ UNCHANGED <<found, marker, handMarked>>

(* After the rollback: the other upload's document, or the error again.    *)
Refind(i) ==
  /\ pc[i] = "refind"
  /\ IF docs = {} THEN Return(i, "failed", NoDoc)
     ELSE \E d \in docs : Return(i, "duplicate", d)
  /\ UNCHANGED <<docs, chunked, superseded, found, tx, marker, handMarked>>

(* PdfError, a model or database error, cancellation or a dead process:    *)
(* the open transaction is rolled back.                                    *)
Fail(i) ==
  /\ pc[i] # "end"
  /\ CloseTransaction(i)
  /\ Return(i, "failed", NoDoc)
  /\ UNCHANGED <<docs, chunked, superseded, found, marker, handMarked>>

(* mark_superseded.py: load the document, then UPDATE and commit.  The row *)
(* may be gone by then, which ends the script with an error.               *)
MarkLoad(m) ==
  /\ marker[m] = NoDoc
  /\ \E d \in docs : marker' = [marker EXCEPT ![m] = d]
  /\ UNCHANGED <<docs, chunked, superseded, pc, found, tx, result, handMarked>>

MarkCommit(m) ==
  /\ marker[m] \in docs
  /\ \A i \in Ingests : marker[m] \notin deleting[i]
  /\ superseded' = IF m \in Undoing THEN superseded \ {marker[m]}
                   ELSE superseded \cup {marker[m]}
  /\ handMarked' = (m \notin Undoing)
  /\ UNCHANGED <<docs, chunked, pc, found, tx, result, marker>>

Step(i) ==
  Find(i) \/ Prepare(i) \/ Delete(i) \/ Insert(i) \/ Commit(i) \/ Refind(i)

Next ==
  \/ \E i \in Ingests : Step(i) \/ Fail(i)
  \/ \E m \in Markers : MarkLoad(m) \/ MarkCommit(m)

Spec == Init /\ [][Next]_vars

(* Threads, model calls and database statements end, and Postgres grants a *)
(* lock once its holder is gone.                                           *)
FairSpec == Spec /\ \A i \in Ingests : WF_vars(Step(i))

-----------------------------------------------------------------------------
(* "the hash is never missing from the table" (documents.py:191-192): a    *)
(* stored file stays stored through every overlap of uploads, replacements *)
(* and failures.                                                           *)
NeverMissing == [][docs # {} => docs' # {}]_docs

(* "a file is either fully ingested or not at all" (documents.py:120), and *)
(* only once: one copy, with its chunks.                                   *)
FullyIngestedOnce == Cardinality(docs) <= 1 /\ chunked = docs

(* replaced_document_id is "the id of the stored copy that this ingest     *)
(* deleted" (documents.py:45): a call that reports a replacement is the    *)
(* one transaction that removed that copy, however many replaced it at once. *)
ReplacementsAreExclusive ==
  \A i, j \in Ingests :
    /\ result[i].how = "new" /\ result[j].how = "new"
    /\ found[i] = found[j]
    => i = j

(* Every call ends: waiting for each other's locks never becomes a cycle.  *)
IngestsEnd == \A i \in Ingests : <>(pc[i] = "end")

(* "mark it here: every answer that reads from it then says so"            *)
(* (scripts/mark_superseded.py:8-9): the mark lasts until it is undone.    *)
MarkLasts == handMarked => docs \subseteq superseded
=============================================================================

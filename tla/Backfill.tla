------------------------------- MODULE Backfill -------------------------------
(***************************************************************************)
(* scripts/backfill_embeddings.py --model Target: re-embedding every chunk *)
(* under a new model while the API stores and replaces documents, with     *)
(* runs that die and are started again, and the operator who changes       *)
(* EMBEDDING_MODEL after a clean one.  A row carries its vector and the    *)
(* model it says made it.  Row ids are never reused.                       *)
(***************************************************************************)
EXTENDS FiniteSets, FiniteSetsExt, Naturals

CONSTANTS
  Rows,            \* ids of document_chunks
  Old, Target,     \* embedding models
  Untagged,        \* embedding_model is NULL
  BatchSize        \* --batch-size

ASSUME BackfillAssumption ==
  /\ IsFiniteSet(Rows)
  /\ Old # Target /\ Untagged \notin {Old, Target}
  /\ BatchSize \in Nat \ {0}

VARIABLES
  chunks,      \* committed rows: [vector, tag] by id
  fresh,       \* ids not given out yet
  ingesting,   \* ids of rows being made: the model their ingest began under
  configured,  \* settings.embedding_model of the API
  pc,          \* where the script is
  stale,       \* rows its scan found to be done
  batch,       \* the rows whose new vectors it holds
  loaded,      \* those it has loaded in its open transaction
  scanned,     \* ghost: the rows its scan saw
  settled      \* ghost: its scan came after the setting had changed and after
               \* the last ingest begun under the old one

api == <<chunks, fresh, ingesting, configured>>
vars == <<api, pc, stale, batch, loaded, scanned, settled>>

Models == {Old, Target}
Row == [vector : Models, tag : Models \cup {Untagged}]
Stored == DOMAIN chunks
InProgress == DOMAIN ingesting

TypeOK ==
  /\ fresh \subseteq Rows /\ Stored \subseteq Rows \ fresh
  /\ InProgress \subseteq Rows \ (fresh \cup Stored)
  /\ chunks \in [Stored -> Row] /\ ingesting \in [InProgress -> Models]
  /\ configured \in Models
  /\ pc \in {"idle", "embed", "load", "commit", "clean"}
  /\ stale \subseteq Rows /\ scanned \subseteq Rows
  /\ loaded \subseteq batch /\ batch \subseteq stale
  /\ Cardinality(batch) <= BatchSize
  /\ settled \in BOOLEAN

Init ==
  /\ \E old \in SUBSET Rows :
       /\ chunks \in [old -> [vector : {Old}, tag : {Old, Untagged}]]
       /\ fresh = Rows \ old
  /\ ingesting = [c \in {} |-> Old]
  /\ configured = Old
  /\ pc = "idle"
  /\ stale = {} /\ batch = {} /\ loaded = {} /\ scanned = {}
  /\ settled = FALSE

(* Faulty: only rows that were never tagged. *)
needs_backfill_untagged(c) == chunks[c].tag = Untagged

needs_backfill(c) == chunks[c].tag # Target

(* The scan; with nothing to do the run is a clean one.                    *)
Scan ==
  /\ pc = "idle"
  /\ stale' = {c \in Stored : needs_backfill(c)}
  /\ scanned' = Stored
  /\ settled' = (configured = Target /\ \A c \in InProgress : ingesting[c] = Target)
  /\ pc' = IF stale' = {} THEN "clean" ELSE "embed"
  /\ UNCHANGED <<api, batch, loaded>>

Batches ==
  kSubset(IF Cardinality(stale) < BatchSize THEN Cardinality(stale) ELSE BatchSize, stale)

(* The texts of a batch are embedded by the target model.                  *)
Embed ==
  /\ pc = "embed"
  /\ batch' \in Batches
  /\ pc' = "load"
  /\ UNCHANGED <<api, stale, loaded, scanned, settled>>

(* Faulty: a deleted row ends the batch instead of being skipped. *)
LoadUntilDeleted ==
  /\ pc = "load"
  /\ loaded' \in IF batch \subseteq Stored THEN {batch} ELSE SUBSET (batch \cap Stored)
  /\ pc' = "commit"
  /\ UNCHANGED <<api, stale, batch, scanned, settled>>

(* session.get of each row; one deleted since the scan is skipped.         *)
Load ==
  /\ pc = "load"
  /\ loaded' = batch \cap Stored
  /\ pc' = "commit"
  /\ UNCHANGED <<api, stale, batch, scanned, settled>>

(* Faulty: the vectors come from the configured model. *)
UpdatedByConfigured == [vector |-> configured, tag |-> Target]

Updated == [vector |-> Target, tag |-> Target]

(* All rows of the batch in one transaction.                               *)
Commit ==
  /\ pc = "commit"
  /\ loaded \subseteq Stored
  /\ chunks' = [c \in Stored |-> IF c \in loaded THEN Updated ELSE chunks[c]]
  /\ stale' = stale \ batch
  /\ batch' = {} /\ loaded' = {}
  /\ pc' = IF stale' = {} THEN "clean" ELSE "embed"
  /\ UNCHANGED <<fresh, ingesting, configured, scanned, settled>>

(* The process dies, Ollama fails, or a loaded row is deleted before the   *)
(* commit (its UPDATE matches no row): the open batch is rolled back.      *)
Crash ==
  /\ pc \in {"embed", "load", "commit"}
  /\ pc' = "idle"
  /\ stale' = {} /\ batch' = {} /\ loaded' = {}
  /\ UNCHANGED <<api, scanned, settled>>

(* The script is started once more, before or after the setting changes.   *)
Rerun ==
  /\ pc = "clean"
  /\ pc' = "idle"
  /\ UNCHANGED <<api, stale, batch, loaded, scanned, settled>>

script == <<pc, stale, batch, loaded, scanned, settled>>

(* "Only flip settings.embedding_model to the new model after a clean run" *)
Flip ==
  /\ pc = "clean"
  /\ configured' = Target
  /\ UNCHANGED <<chunks, fresh, ingesting, script>>

(* An ingest embeds with the model its process was started with; seconds   *)
(* to minutes pass before the row is stored.  A server being replaced, or  *)
(* ingest_pdfs.py started earlier, goes on with the setting it has.        *)
BeginIngest(c) ==
  /\ c \in fresh
  /\ fresh' = fresh \ {c}
  /\ ingesting' = [d \in InProgress \cup {c} |-> IF d = c THEN configured ELSE ingesting[d]]
  /\ UNCHANGED <<chunks, configured, script>>

Forget(c) == ingesting' = [d \in InProgress \ {c} |-> ingesting[d]]

(* The row is committed with its vector and the model that made it.        *)
EndIngest(c) ==
  /\ c \in InProgress
  /\ chunks' = [d \in Stored \cup {c} |->
       IF d = c THEN [vector |-> ingesting[c], tag |-> ingesting[c]] ELSE chunks[d]]
  /\ Forget(c)
  /\ UNCHANGED <<fresh, configured, script>>

IngestFails(c) ==
  /\ c \in InProgress
  /\ Forget(c)
  /\ fresh' = fresh \cup {c}
  /\ UNCHANGED <<chunks, configured, script>>

(* A replaced document takes its chunks with it.                           *)
Delete(c) ==
  /\ c \in Stored
  /\ chunks' = [d \in Stored \ {c} |-> chunks[d]]
  /\ UNCHANGED <<fresh, ingesting, configured, script>>

Next ==
  \/ Scan \/ Embed \/ Load \/ Commit \/ Crash \/ Rerun \/ Flip
  \/ \E c \in Rows : BeginIngest(c) \/ EndIngest(c) \/ IngestFails(c) \/ Delete(c)

Spec == Init /\ [][Next]_vars

-----------------------------------------------------------------------------
(* "what keeps that column honest", "visible, not silently wrong"          *)
(* (backfill_embeddings.py:5, 16-17): at every moment, crashes included, a *)
(* tagged row says which model made its vector.                            *)
TagsAreHonest ==
  \A c \in Stored : chunks[c].tag # Untagged => chunks[c].tag = chunks[c].vector

(* "re-embed every row under it" (line 13-14): a clean run has done every  *)
(* row its scan saw, however many earlier runs died.                       *)
CleanRunDidItsRows ==
  pc = "clean" => \A c \in scanned \cap Stored : chunks[c].vector = Target

(* A run misses what the API stores after its scan (line 64), so the clean *)
(* run that the operator waits for may leave vectors of the old model, and *)
(* searches do not look at embedding_model.  A further run finds them: if  *)
(* it scans after the flip, with no ingest under the old setting left, and *)
(* ends clean, no stored vector is of the old model, whatever was stored   *)
(* or deleted while it ran.                                                *)
SecondRunLeavesNoMix ==
  pc = "clean" /\ settled => \A c \in Stored : chunks[c].vector = Target
=============================================================================

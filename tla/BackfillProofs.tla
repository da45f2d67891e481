---------------------------- MODULE BackfillProofs ----------------------------
(***************************************************************************)
(* Proofs about Backfill, for any set of rows and any batch size: what a   *)
(* row says of its vector, what a clean run has done, and what a further   *)
(* run leaves after the setting changed.                                   *)
(***************************************************************************)
EXTENDS Backfill, FiniteSetTheorems, TLAPS

USE DEF Stored, InProgress, api, script

-----------------------------------------------------------------------------
(* Every reachable state is well typed; a batch is at most BatchSize rows  *)
(* because it is a subset of that many.                                    *)
LEMMA BatchFits ==
  ASSUME stale \subseteq Rows, NEW b \in Batches
  PROVE  b \subseteq stale /\ Cardinality(b) <= BatchSize
<1>1. IsFiniteSet(stale) /\ Cardinality(stale) \in Nat
  BY BackfillAssumption, FS_Subset, FS_CardinalityType
<1>2. /\ b \subseteq stale
      /\ Cardinality(b) = IF Cardinality(stale) < BatchSize THEN Cardinality(stale)
                                                          ELSE BatchSize
  BY DEF Batches, kSubset
<1> QED
  BY <1>1, <1>2, BackfillAssumption

LEMMA EmptyFits == Cardinality({}) <= BatchSize
  BY FS_EmptySet, BackfillAssumption

(* TypeOK alone is not inductive: the script holds a batch only between    *)
(* Embed and the end of its transaction, and loaded rows only at the commit. *)
HeldBatch ==
  /\ pc \notin {"load", "commit"} => batch = {}
  /\ pc # "commit" => loaded = {}

LEMMA InitTypeOK == Init => TypeOK /\ HeldBatch
  BY EmptyFits, BackfillAssumption DEF Init, TypeOK, HeldBatch, Row, Models

LEMMA NextTypeOK == TypeOK /\ HeldBatch /\ [Next]_vars => (TypeOK /\ HeldBatch)'
<1> SUFFICES ASSUME TypeOK, HeldBatch, [Next]_vars PROVE (TypeOK /\ HeldBatch)'
  OBVIOUS
<1> USE DEF TypeOK, HeldBatch
<1>1. CASE Scan
  <2>1. batch' = {} /\ loaded' = {}
    BY <1>1 DEF Scan
  <2>2. stale' \subseteq Rows /\ scanned' \subseteq Rows
    BY <1>1 DEF Scan
  <2>3. pc' \in {"clean", "embed"} /\ settled' \in BOOLEAN /\ UNCHANGED api
    BY <1>1 DEF Scan
  <2> QED
    BY <2>1, <2>2, <2>3, EmptyFits
<1>2. CASE Embed
  <2>1. batch' \subseteq stale /\ Cardinality(batch') <= BatchSize
    BY <1>2, BatchFits DEF Embed
  <2>2. loaded' = {} /\ pc' = "load" /\ UNCHANGED <<api, stale, scanned, settled>>
    BY <1>2 DEF Embed
  <2> QED
    BY <2>1, <2>2
<1>3. CASE Load
  BY <1>3 DEF Load
<1>4. CASE Commit
  <2>1. chunks' \in [Stored -> Row] /\ Stored' = Stored
    BY <1>4 DEF Commit, Updated, Row, Models
  <2> QED
    BY <1>4, <2>1, EmptyFits DEF Commit
<1>5. CASE Crash
  BY <1>5, EmptyFits DEF Crash
<1>6. CASE Rerun
  BY <1>6 DEF Rerun
<1>7. CASE Flip
  BY <1>7 DEF Flip, Models
<1>8. ASSUME NEW c \in Rows, BeginIngest(c) \/ EndIngest(c) \/ IngestFails(c)
      PROVE  (TypeOK /\ HeldBatch)'
  <2>1. CASE BeginIngest(c)
    <3>1. InProgress' = InProgress \cup {c} /\ ingesting' \in [InProgress \cup {c} -> Models]
      BY <2>1 DEF BeginIngest
    <3> QED
      BY <2>1, <3>1 DEF BeginIngest
  <2>2. CASE EndIngest(c)
    <3>1. Stored' = Stored \cup {c} /\ chunks' \in [Stored \cup {c} -> Row]
      BY <2>2 DEF EndIngest, Row, Models
    <3>2. InProgress' = InProgress \ {c} /\ ingesting' \in [InProgress \ {c} -> Models]
      BY <2>2 DEF EndIngest, Forget
    <3> QED
      BY <2>2, <3>1, <3>2 DEF EndIngest
  <2>3. CASE IngestFails(c)
    <3>1. InProgress' = InProgress \ {c} /\ ingesting' \in [InProgress \ {c} -> Models]
      BY <2>3 DEF IngestFails, Forget
    <3> QED
      BY <2>3, <3>1 DEF IngestFails
  <2> QED
    BY <1>8, <2>1, <2>2, <2>3
<1>9. ASSUME NEW c \in Rows, Delete(c) PROVE (TypeOK /\ HeldBatch)'
  <2>1. Stored' = Stored \ {c} /\ chunks' \in [Stored \ {c} -> Row]
    BY <1>9 DEF Delete
  <2> QED
    BY <1>9, <2>1 DEF Delete
<1>10. CASE UNCHANGED vars
  BY <1>10 DEF vars
<1> QED
  BY <1>1, <1>2, <1>3, <1>4, <1>5, <1>6, <1>7, <1>8, <1>9, <1>10 DEF Next

(* Backfill is well typed in every behaviour (type invariant).             *)
THEOREM TypeCorrect == Spec => []TypeOK
  BY InitTypeOK, NextTypeOK, PTL DEF Spec

-----------------------------------------------------------------------------
(* A vector is written together with its tag, by the script in one commit  *)
(* and by the API in one row; nothing else writes either.                  *)
LEMMA NextTagsAreHonest == TypeOK /\ TagsAreHonest /\ [Next]_vars => TagsAreHonest'
<1> SUFFICES ASSUME TypeOK, TagsAreHonest, [Next]_vars,
                    NEW c \in Stored', chunks'[c].tag # Untagged
             PROVE  chunks'[c].tag = chunks'[c].vector
  BY DEF TagsAreHonest
<1>1. CASE Commit
  BY <1>1 DEF Commit, Updated, TagsAreHonest
<1>2. ASSUME NEW d \in Rows, EndIngest(d) PROVE chunks'[c].tag = chunks'[c].vector
  BY <1>2 DEF EndIngest, TagsAreHonest
<1>3. ASSUME NEW d \in Rows, Delete(d) PROVE chunks'[c].tag = chunks'[c].vector
  BY <1>3 DEF Delete, TagsAreHonest
<1>4. CASE UNCHANGED chunks
  BY <1>4 DEF TagsAreHonest
<1> QED
  BY <1>1, <1>2, <1>3, <1>4 DEF Next, Scan, Embed, Load, Crash, Rerun, Flip,
     BeginIngest, IngestFails, vars

(* At every moment a tagged row says which model made its vector, whatever *)
(* dies or is deleted in between (property TagsAreHonest).                 *)
THEOREM HonestTags == Spec => []TagsAreHonest
<1>1. Init => TagsAreHonest
  BY DEF Init, TagsAreHonest
<1> QED
  BY <1>1, InitTypeOK, NextTypeOK, NextTagsAreHonest, PTL DEF Spec

-----------------------------------------------------------------------------
(* What a run knows.  A row its scan saw is done, or still on its list, or *)
(* gone; a row of its batch that it did not load is gone; no row it saw    *)
(* comes back.                                                             *)
Running == pc \in {"embed", "load", "commit", "clean"}
ListIsComplete ==
  Running => \A c \in scanned \cap Stored : c \in stale \/ chunks[c].vector = Target
LoadIsComplete == pc = "commit" => batch \cap Stored \subseteq loaded
SeenIsOld == scanned \cap (fresh \cup InProgress) = {}
ListIsOld == stale \subseteq scanned
NothingLeftWhenClean == pc = "clean" => stale = {}

RunInv ==
  ListIsComplete /\ LoadIsComplete /\ SeenIsOld /\ ListIsOld /\ NothingLeftWhenClean

LEMMA InitRunInv == Init => RunInv
  BY DEF Init, RunInv, Running, ListIsComplete, LoadIsComplete, SeenIsOld, ListIsOld,
         NothingLeftWhenClean

LEMMA NextRunInv == TypeOK /\ TagsAreHonest /\ RunInv /\ [Next]_vars => RunInv'
<1> SUFFICES ASSUME TypeOK, TagsAreHonest, RunInv, [Next]_vars PROVE RunInv'
  OBVIOUS
<1> USE DEF RunInv, Running, ListIsComplete, LoadIsComplete, SeenIsOld, ListIsOld,
            NothingLeftWhenClean
<1>1. CASE Scan
  <2>1. \A c \in scanned' \cap Stored' : c \in stale' \/ chunks'[c].vector = Target
    BY <1>1, BackfillAssumption DEF Scan, needs_backfill, TagsAreHonest
  <2> QED
    BY <1>1, <2>1 DEF Scan, TypeOK
<1>2. CASE Embed
  BY <1>2 DEF Embed
<1>3. CASE Load
  BY <1>3 DEF Load
<1>4. CASE Commit
  <2>1. \A c \in scanned' \cap Stored' : c \in stale' \/ chunks'[c].vector = Target
    BY <1>4 DEF Commit, Updated
  <2> QED
    BY <1>4, <2>1 DEF Commit
<1>5. CASE Crash
  BY <1>5 DEF Crash
<1>6. CASE Rerun \/ Flip
  BY <1>6 DEF Rerun, Flip
<1>7. ASSUME NEW c \in Rows, BeginIngest(c) \/ EndIngest(c) \/ IngestFails(c) PROVE RunInv'
  BY <1>7 DEF BeginIngest, EndIngest, IngestFails, Forget, TypeOK
<1>8. ASSUME NEW c \in Rows, Delete(c) PROVE RunInv'
  BY <1>8 DEF Delete
<1>9. CASE UNCHANGED vars
  BY <1>9 DEF vars
<1> QED
  BY <1>1, <1>2, <1>3, <1>4, <1>5, <1>6, <1>7, <1>8, <1>9 DEF Next

(* A clean run has re-embedded every row its scan saw that is still stored *)
(* (property CleanRunDidItsRows).                                          *)
THEOREM CleanRunsAreComplete == Spec => []CleanRunDidItsRows
<1>1. RunInv => CleanRunDidItsRows
  BY DEF RunInv, Running, ListIsComplete, NothingLeftWhenClean, CleanRunDidItsRows
<1>2. Init => TagsAreHonest
  BY DEF Init, TagsAreHonest
<1> QED
  BY <1>1, <1>2, InitTypeOK, NextTypeOK, NextTagsAreHonest, InitRunInv, NextRunInv, PTL
     DEF Spec

-----------------------------------------------------------------------------
(* A settled run: no old vector can be made any more, so what it did not   *)
(* see, stored since, is of the new model.                                 *)
UnseenIsNew ==
  settled /\ Running =>
    /\ configured = Target
    /\ \A c \in InProgress : ingesting[c] = Target
    /\ \A c \in Stored \ scanned : chunks[c].vector = Target

LEMMA NextUnseenIsNew == TypeOK /\ UnseenIsNew /\ [Next]_vars => UnseenIsNew'
<1> SUFFICES ASSUME TypeOK, UnseenIsNew, [Next]_vars, settled', Running'
             PROVE  /\ configured' = Target
                    /\ \A c \in InProgress' : ingesting'[c] = Target
                    /\ \A c \in Stored' \ scanned' : chunks'[c].vector = Target
  BY DEF UnseenIsNew
<1> USE DEF UnseenIsNew, Running
<1>1. CASE Scan
  BY <1>1 DEF Scan
<1>2. CASE Embed \/ Load \/ Crash \/ Rerun
  BY <1>2 DEF Embed, Load, Crash, Rerun
<1>3. CASE Commit
  BY <1>3 DEF Commit, Updated
<1>4. CASE Flip
  BY <1>4 DEF Flip
<1>5. ASSUME NEW c \in Rows, BeginIngest(c)
      PROVE  /\ configured' = Target
             /\ \A d \in InProgress' : ingesting'[d] = Target
             /\ \A d \in Stored' \ scanned' : chunks'[d].vector = Target
  BY <1>5 DEF BeginIngest
<1>6. ASSUME NEW c \in Rows, EndIngest(c)
      PROVE  /\ configured' = Target
             /\ \A d \in InProgress' : ingesting'[d] = Target
             /\ \A d \in Stored' \ scanned' : chunks'[d].vector = Target
  BY <1>6 DEF EndIngest, Forget
<1>7. ASSUME NEW c \in Rows, IngestFails(c) \/ Delete(c)
      PROVE  /\ configured' = Target
             /\ \A d \in InProgress' : ingesting'[d] = Target
             /\ \A d \in Stored' \ scanned' : chunks'[d].vector = Target
  BY <1>7 DEF IngestFails, Delete, Forget
<1>8. CASE UNCHANGED vars
  BY <1>8 DEF vars
<1> QED
  BY <1>1, <1>2, <1>3, <1>4, <1>5, <1>6, <1>7, <1>8 DEF Next

(* A further run that scans after the flip, with no ingest under the old   *)
(* setting left, and ends clean leaves no vector of the old model          *)
(* (property SecondRunLeavesNoMix).                                        *)
THEOREM SecondRunEndsTheMix == Spec => []SecondRunLeavesNoMix
<1>1. Init => TagsAreHonest /\ UnseenIsNew
  BY DEF Init, TagsAreHonest, UnseenIsNew
<1>2. RunInv /\ UnseenIsNew => SecondRunLeavesNoMix
  <2> SUFFICES ASSUME RunInv, UnseenIsNew, pc = "clean", settled, NEW c \in Stored
               PROVE  chunks[c].vector = Target
    BY DEF SecondRunLeavesNoMix
  <2>1. CASE c \in scanned
    BY <2>1 DEF RunInv, Running, ListIsComplete, NothingLeftWhenClean
  <2>2. CASE c \notin scanned
    BY <2>2 DEF UnseenIsNew, Running
  <2> QED
    BY <2>1, <2>2
<1> QED
  BY <1>1, <1>2, InitTypeOK, NextTypeOK, NextTagsAreHonest, InitRunInv, NextRunInv,
     NextUnseenIsNew, PTL DEF Spec
=============================================================================

--------------------------- MODULE DocumentsProofs ---------------------------
(***************************************************************************)
(* Proofs about Documents, for any number of overlapping uploads,          *)
(* replacements and runs of mark_superseded.py: the file is stored once,   *)
(* whole, never missing again, and each copy is replaced by one call.      *)
(***************************************************************************)
EXTENDS Documents, FiniteSetTheorems, TLAPS

USE DEF Copies

-----------------------------------------------------------------------------
(* Every reachable state is well typed.                                    *)
LEMMA InitTypeOK == Init => TypeOK
<1> SUFFICES ASSUME Init PROVE TypeOK
  OBVIOUS
<1>1. docs \subseteq Copies /\ chunked \subseteq Copies /\ superseded \subseteq Copies
  BY DEF Init
<1>2. result \in [Ingests -> [how : {"none", "failed"}, doc : {NoDoc}]]
  BY DEF Init
<1>3. deleting \in [Ingests -> SUBSET Copies]
  BY DEF Init
<1> QED
  BY <1>1, <1>2, <1>3 DEF Init, TypeOK

LEMMA NextTypeOK == TypeOK /\ [Next]_vars => TypeOK'
<1> SUFFICES ASSUME TypeOK, [Next]_vars PROVE TypeOK'
  OBVIOUS
<1> USE DocumentsAssumption DEF TypeOK, Goto, Return, CloseTransaction, tx
<1>1. ASSUME NEW i \in Ingests, Find(i) PROVE TypeOK'
  BY <1>1 DEF Find
<1>2. ASSUME NEW i \in Ingests, Prepare(i) PROVE TypeOK'
  BY <1>2 DEF Prepare
<1>3. ASSUME NEW i \in Ingests, Delete(i) PROVE TypeOK'
  BY <1>3 DEF Delete
<1>4. ASSUME NEW i \in Ingests, Insert(i) PROVE TypeOK'
  BY <1>4 DEF Insert
<1>5. ASSUME NEW i \in Ingests, Commit(i) PROVE TypeOK'
  BY <1>5 DEF Commit
<1>6. ASSUME NEW i \in Ingests, Refind(i) PROVE TypeOK'
  BY <1>6 DEF Refind
<1>7. ASSUME NEW i \in Ingests, Fail(i) PROVE TypeOK'
  BY <1>7 DEF Fail
<1>8. ASSUME NEW m \in Markers, MarkLoad(m) PROVE TypeOK'
  BY <1>8 DEF MarkLoad
<1>9. ASSUME NEW m \in Markers, MarkCommit(m) PROVE TypeOK'
  BY <1>9 DEF MarkCommit
<1>10. CASE UNCHANGED vars
  BY <1>10 DEF vars
<1> QED
  BY <1>1, <1>2, <1>3, <1>4, <1>5, <1>6, <1>7, <1>8, <1>9, <1>10 DEF Next, Step

(* Documents is well typed in every behaviour (type invariant).            *)
THEOREM TypeCorrect == Spec => []TypeOK
  BY InitTypeOK, NextTypeOK, PTL DEF Spec

-----------------------------------------------------------------------------
(* What the locks and the unique constraint keep.  An open transaction has *)
(* deleted at most the copy its call found, and only between the DELETE    *)
(* and the commit; one that has flushed its row has deleted all there was, *)
(* and no other has deleted or flushed anything.                           *)
PendingCommits == \A i \in Ingests : i \in pending <=> pc[i] = "commit"
DeletesItsOwn ==
  \A i \in Ingests :
    /\ deleting[i] \subseteq {found[i]} \cap docs
    /\ deleting[i] # {} => pc[i] \in {"insert", "commit"}
FlushedIsAlone ==
  \A i \in pending :
    /\ docs \subseteq deleting[i]
    /\ \A j \in Ingests \ {i} : j \notin pending /\ deleting[j] = {}

OneCopy == docs = {} \/ \E d \in Copies : docs = {d}
Whole == chunked = docs

LockInv == PendingCommits /\ DeletesItsOwn /\ FlushedIsAlone /\ OneCopy /\ Whole

LEMMA InitLockInv == Init => LockInv
  BY DocumentsAssumption
     DEF Init, LockInv, PendingCommits, DeletesItsOwn, FlushedIsAlone, OneCopy, Whole

LEMMA NextLockInv == TypeOK /\ LockInv /\ [Next]_vars => LockInv'
<1> SUFFICES ASSUME TypeOK, LockInv, [Next]_vars PROVE LockInv'
  OBVIOUS
<1> USE DocumentsAssumption
    DEF TypeOK, LockInv, PendingCommits, DeletesItsOwn, FlushedIsAlone, OneCopy, Whole,
        Goto, Return, CloseTransaction, tx
<1>1. ASSUME NEW i \in Ingests, Find(i) PROVE LockInv'
  BY <1>1 DEF Find
<1>2. ASSUME NEW i \in Ingests, Prepare(i) PROVE LockInv'
  BY <1>2 DEF Prepare
<1>3. ASSUME NEW i \in Ingests, Delete(i) PROVE LockInv'
  BY <1>3 DEF Delete
<1>4. ASSUME NEW i \in Ingests, Insert(i) PROVE LockInv'
  BY <1>4 DEF Insert, MustWait
<1>5. ASSUME NEW i \in Ingests, Commit(i) PROVE LockInv'
  <2>1. docs' = {i} /\ chunked' = {i}
    BY <1>5 DEF Commit
  <2>2. pending' = {} /\ deleting' = [j \in Ingests |-> {}]
    <3>1. i \in pending /\ pending' = pending \ {i}
      BY <1>5 DEF Commit
    <3>2. \A j \in Ingests \ {i} : j \notin pending /\ deleting[j] = {}
      BY <3>1
    <3>3. deleting' = [deleting EXCEPT ![i] = {}]
      BY <1>5 DEF Commit
    <3>4. pending' = {}
      BY <3>1, <3>2
    <3>5. deleting \in [Ingests -> SUBSET Copies]
      OBVIOUS
    <3>6. deleting' = [j \in Ingests |-> {}]
      BY ONLY <3>2, <3>3, <3>5
    <3> QED
      BY <3>4, <3>6
  <2> QED
    BY <1>5, <2>1, <2>2 DEF Commit
<1>6. ASSUME NEW i \in Ingests, Refind(i) PROVE LockInv'
  BY <1>6 DEF Refind
<1>7. ASSUME NEW i \in Ingests, Fail(i) PROVE LockInv'
  BY <1>7 DEF Fail
<1>8. ASSUME NEW m \in Markers, MarkLoad(m) \/ MarkCommit(m) PROVE LockInv'
  BY <1>8 DEF MarkLoad, MarkCommit
<1>9. CASE UNCHANGED vars
  BY <1>9 DEF vars
<1> QED
  BY <1>1, <1>2, <1>3, <1>4, <1>5, <1>6, <1>7, <1>8, <1>9 DEF Next, Step

(* However uploads, replacements and failures overlap, the file is stored  *)
(* at most once and with all its chunks (property FullyIngestedOnce).      *)
THEOREM StoredOnceAndWhole == Spec => []FullyIngestedOnce
<1>1. LockInv => FullyIngestedOnce
  <2>1. Cardinality({}) = 0 /\ \A d : Cardinality({d}) = 1
    BY FS_EmptySet, FS_Singleton
  <2> QED
    BY <2>1 DEF LockInv, OneCopy, Whole, FullyIngestedOnce
<1> QED
  BY <1>1, InitTypeOK, NextTypeOK, InitLockInv, NextLockInv, PTL DEF Spec

(* A stored file stays stored: what a transaction deletes it replaces in   *)
(* the same commit (property NeverMissing).                                *)
THEOREM NeverMissingAgain == Spec => NeverMissing
<1>1. [Next]_vars => [docs # {} => docs' # {}]_docs
  BY DEF Next, Step, Find, Prepare, Delete, Insert, Commit, Refind, Fail, MarkLoad,
         MarkCommit, CloseTransaction, tx, vars
<1> QED
  BY <1>1, PTL DEF Spec, NeverMissing

-----------------------------------------------------------------------------
(* Why two calls never replace the same copy.  What is stored, and what a  *)
(* call found, was stored by a call that has returned; a call that stored  *)
(* its copy has returned, and the copy it replaced is not stored now.      *)
StoredIsDone == \A i \in Ingests : i \in docs => pc[i] = "end"
FoundIsDone == \A i, j \in Ingests : found[i] = j => pc[j] = "end"
ReplacedIsGone ==
  \A i \in Ingests :
    result[i].how = "new" => docs # {} /\ found[i] \notin docs /\ pc[i] = "end"

ReplaceInv == StoredIsDone /\ FoundIsDone /\ ReplacedIsGone /\ ReplacementsAreExclusive

LEMMA InitReplaceInv == Init => ReplaceInv
  BY DocumentsAssumption
     DEF Init, ReplaceInv, StoredIsDone, FoundIsDone, ReplacedIsGone, ReplacementsAreExclusive

LEMMA NextReplaceInv == TypeOK /\ LockInv /\ ReplaceInv /\ [Next]_vars => ReplaceInv'
<1> SUFFICES ASSUME TypeOK, LockInv, ReplaceInv, [Next]_vars PROVE ReplaceInv'
  OBVIOUS
<1> USE DocumentsAssumption
    DEF TypeOK, ReplaceInv, StoredIsDone, FoundIsDone, ReplacedIsGone,
        ReplacementsAreExclusive, Goto, Return, CloseTransaction, tx
<1>1. ASSUME NEW i \in Ingests, Find(i) PROVE ReplaceInv'
  BY <1>1 DEF Find
<1>2. ASSUME NEW i \in Ingests, Prepare(i) \/ Delete(i) \/ Insert(i) PROVE ReplaceInv'
  BY <1>2 DEF Prepare, Delete, Insert
<1>3. ASSUME NEW i \in Ingests, Commit(i) PROVE ReplaceInv'
  <2> USE DEF LockInv, PendingCommits, DeletesItsOwn, FlushedIsAlone
  <2>1. docs' = {i} /\ pc' = [pc EXCEPT ![i] = "end"] /\ UNCHANGED found
    BY <1>3 DEF Commit
  <2>2. result' = [result EXCEPT ![i] = [how |-> "new", doc |-> i]]
    BY <1>3 DEF Commit
  <2>3. pc[i] = "commit" /\ \A j \in Ingests : found[j] # i
    BY <1>3 DEF Commit
  <2>4. docs \subseteq {found[i]}
    BY <1>3 DEF Commit
  <2>5. \A j \in Ingests : result[j].how = "new" => found[j] # found[i]
    BY <2>4
  <2> QED
    BY <2>1, <2>2, <2>3, <2>5
<1>4. ASSUME NEW i \in Ingests, Refind(i) PROVE ReplaceInv'
  BY <1>4 DEF Refind
<1>5. ASSUME NEW i \in Ingests, Fail(i) PROVE ReplaceInv'
  BY <1>5 DEF Fail
<1>6. ASSUME NEW m \in Markers, MarkLoad(m) \/ MarkCommit(m) PROVE ReplaceInv'
  BY <1>6 DEF MarkLoad, MarkCommit
<1>7. CASE UNCHANGED vars
  BY <1>7 DEF vars
<1> QED
  BY <1>1, <1>2, <1>3, <1>4, <1>5, <1>6, <1>7 DEF Next, Step

(* A call that reports a replacement is the only one that replaced that    *)
(* copy (property ReplacementsAreExclusive).                               *)
THEOREM ReplacedByOne == Spec => []ReplacementsAreExclusive
<1>1. ReplaceInv => ReplacementsAreExclusive
  BY DEF ReplaceInv
<1> QED
  BY <1>1, InitTypeOK, NextTypeOK, InitLockInv, NextLockInv, InitReplaceInv, NextReplaceInv,
     PTL DEF Spec
=============================================================================

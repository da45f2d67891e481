---------------------------- MODULE AnswersProofs ----------------------------
(***************************************************************************)
(* Proofs about Answers, for any set of requests and questions, any        *)
(* similarity, any size of the pool and of a bucket: which texts are       *)
(* shared and with whom, that each is checked for whoever gets it, that no *)
(* connection is held for a model, and that a stream keeps its contract.   *)
(***************************************************************************)
EXTENDS Answers, FiniteSetTheorems, TLAPS

-----------------------------------------------------------------------------
(* What is true of a request by where it is.                               *)
Early == {"retrieve", "gates", "sources", "check", "lookup"}
Late == {"verify", "remember", "orphan", "reply", "end"}

HoldersRead == IsFiniteSet(holding) /\ \A r \in holding : pc[r] \in {"gates", "sources"}
HasPassages == \A r \in Requests : pc[r] \notin {"retrieve", "end"} => passages[r] \in Passages
EarlyIsBlank == \A r \in Requests : pc[r] \in Early => text[r] = NoText /\ outcome[r] = "none"
MetaIsFirst ==
  \A r \in Requests : pc[r] = "meta" =>
    r \in Streaming /\ text[r] # r /\ outcome[r] \in {"none", "refused"}
Undecided ==
  \A r \in Requests :
    /\ pc[r] \in {"write", "verify", "remember"} => outcome[r] = "none"
    /\ pc[r] = "orphan" => outcome[r] = "left"
    /\ pc[r] = "reply" => outcome[r] \in {"none", "refused"}
    /\ outcome[r] \in {"answered", "withheld"} => pc[r] = "end"

(* A text is whole before it is checked, and is remembered by its writer.  *)
WholeIsLate ==
  \A r \in Requests :
    /\ r \in whole => pc[r] \in Late
    /\ pc[r] = "verify" => text[r] \in whole
    /\ pc[r] \in {"remember", "orphan"} => text[r] = r /\ r \in whole
    /\ Cached(r) => text[r] \in whole

(* The verdict a request acts on is on record.                             *)
Judged(r) ==
  /\ r \notin flagged => Checked(r, TRUE) \in checks
  /\ r \in flagged => Checked(r, FALSE) \in checks
Judgement ==
  \A r \in Requests :
    /\ r \in flagged => pc[r] \in {"remember", "orphan", "reply", "end"}
    /\ pc[r] \in {"remember", "orphan"} => Judged(r)
    /\ pc[r] = "reply" /\ outcome[r] # "refused" => Judged(r)

(* An entry's question is its writer's.                                    *)
EntriesAreOwn ==
  \A b \in Passages : \A k \in DOMAIN cache[b] :
    cache[b][k].question = QuestionOf[cache[b][k].text]

StageInv ==
  /\ HoldersRead /\ HasPassages /\ EarlyIsBlank /\ MetaIsFirst
  /\ Undecided /\ WholeIsLate /\ Judgement
ShareInv == EntriesAreOwn /\ OnlySoundTextIsShared /\ ReusedTextFits

AnswersInv == TypeOK /\ StageInv /\ ShareInv /\ UncheckedNeverAnswered

LEMMA InitInv == Init => AnswersInv
<1> SUFFICES ASSUME Init PROVE AnswersInv
  OBVIOUS
<1> USE AnswersAssumption DEF Init
<1>1. Cardinality(holding) = 0 /\ IsFiniteSet(holding)
  BY FS_EmptySet
<1>2. TypeOK
  BY <1>1 DEF TypeOK, Model
<1>3. StageInv
  BY <1>1 DEF StageInv, HoldersRead, HasPassages, EarlyIsBlank, MetaIsFirst, Undecided,
              WholeIsLate, Judgement, Early, Late, Cached
<1>4. ShareInv
  BY DEF ShareInv, EntriesAreOwn, OnlySoundTextIsShared, ReusedTextFits, Cached
<1>5. UncheckedNeverAnswered
  BY DEF UncheckedNeverAnswered
<1> QED
  BY <1>2, <1>3, <1>4, <1>5 DEF AnswersInv

-----------------------------------------------------------------------------
(* What is remembered in a bucket: the new entry, or one that was there,   *)
(* and no more than the limit.                                             *)
LEMMA Remembered ==
  ASSUME NEW S, NEW s \in Seq(S), NEW e \in S, NEW n \in Nat \ {0},
         NEW t, t = SubSeq(<<e>> \o s, 1, IF Len(s) < n THEN Len(s) + 1 ELSE n)
  PROVE  /\ t \in Seq(S)
         /\ \A k \in DOMAIN t : k <= n /\ (t[k] = e \/ \E j \in DOMAIN s : t[k] = s[j])
<1>1. <<e>> \o s \in Seq(S) /\ Len(<<e>> \o s) = Len(s) + 1
  OBVIOUS
<1>2. \A k \in 1..Len(s) + 1 : (<<e>> \o s)[k] = IF k = 1 THEN e ELSE s[k - 1]
  OBVIOUS
<1>3. t \in Seq(S) /\ Len(t) = IF Len(s) < n THEN Len(s) + 1 ELSE n
  BY <1>1
<1>4. \A k \in 1..Len(t) : t[k] = (<<e>> \o s)[k]
  BY <1>1, <1>3
<1>5. DOMAIN t = 1..Len(t) /\ DOMAIN s = 1..Len(s) /\ Len(s) \in Nat
  BY <1>3
<1>6. ASSUME NEW k \in DOMAIN t PROVE k <= n /\ (t[k] = e \/ \E j \in DOMAIN s : t[k] = s[j])
  <2>1. k \in 1..Len(s) + 1 /\ k <= n
    BY <1>3, <1>5
  <2>2. CASE k = 1
    BY <2>1, <2>2, <1>2, <1>4, <1>5
  <2>3. CASE k # 1
    <3>1. k - 1 \in DOMAIN s /\ t[k] = s[k - 1]
      BY <2>1, <2>3, <1>2, <1>4, <1>5
    <3> QED
      BY <2>1, <3>1
  <2> QED
    BY <2>2, <2>3
<1> QED
  BY <1>3, <1>6

(* Taking and giving back a connection.                                    *)
LEMMA PoolCounts ==
  ASSUME NEW S, IsFiniteSet(S), NEW x, NEW n \in Nat
  PROVE  /\ Cardinality(S) < n => Cardinality(S \cup {x}) <= n
         /\ Cardinality(S) <= n => Cardinality(S \ {x}) <= n
<1>1. Cardinality(S) \in Nat
  BY FS_CardinalityType
<1>2. Cardinality(S \cup {x}) = IF x \in S THEN Cardinality(S) ELSE Cardinality(S) + 1
  BY FS_AddElement
<1>3. Cardinality(S \ {x}) = IF x \in S THEN Cardinality(S) - 1 ELSE Cardinality(S)
  BY FS_RemoveElement
<1> QED
  BY <1>1, <1>2, <1>3

LEMMA EntryType ==
  ASSUME NEW Q, NEW R, NEW s \in Seq([question : Q, text : R]), NEW k \in DOMAIN s
  PROVE  s[k].question \in Q /\ s[k].text \in R
<1>1. ASSUME NEW S, s \in Seq(S) PROVE s[k] \in S
  BY <1>1
<1>2. s[k] \in [question : Q, text : R]
  BY <1>1
<1> QED
  BY <1>2

-----------------------------------------------------------------------------
(* Types, action by action.                                                *)
LEMMA NextTypeOK == AnswersInv /\ [Next]_vars => TypeOK'
<1> SUFFICES ASSUME AnswersInv, [Next]_vars PROVE TypeOK'
  OBVIOUS
<1> USE AnswersAssumption
    DEF AnswersInv, TypeOK, At, Goto, Decide, Emit, Release, Outside, reads, writing, Model
<1>1. ASSUME NEW r \in Requests, Retrieve(r) PROVE TypeOK'
  <2>1. passages' \in [Requests -> Passages \cup {NoPassages}]
    BY <1>1 DEF Retrieve, Passages
  <2>2. IsFiniteSet(holding) /\ Cardinality(holding) < PoolSize /\ holding' = holding \cup {r}
    BY <1>1 DEF Retrieve, StageInv, HoldersRead
  <2>3. Cardinality(holding') <= PoolSize
    BY <2>2, PoolCounts
  <2> QED
    BY <1>1, <2>1, <2>2, <2>3 DEF Retrieve
<1>2. ASSUME NEW r \in Requests, PassGates(r) PROVE TypeOK'
  <2>1. passages[r] \in Passages
    BY <1>2 DEF PassGates, StageInv, HasPassages
  <2>2. [passages[r] EXCEPT !.joined = StillStored(r)] \in Passages
    BY <2>1 DEF Passages, StillStored
  <2>3. passages' = [passages EXCEPT ![r] = [passages[r] EXCEPT !.joined = StillStored(r)]]
    BY <1>2 DEF PassGates
  <2> QED
    BY <1>2, <2>2, <2>3 DEF PassGates
<1>3. ASSUME NEW r \in Requests, holding' = holding \ {r}
      PROVE  holding' \subseteq Requests /\ Cardinality(holding') <= PoolSize
  BY <1>3, PoolCounts DEF StageInv, HoldersRead
<1>4. ASSUME NEW r \in Requests, FailGates(r) \/ FailCheck(r) PROVE TypeOK'
  BY <1>3, <1>4 DEF FailGates, FailCheck, Refuse
<1>5. ASSUME NEW r \in Requests, ReadSources(r) \/ PassCheck(r) PROVE TypeOK'
  BY <1>3, <1>5 DEF ReadSources, PassCheck
<1>6. ASSUME NEW r \in Requests, Hit(r) PROVE TypeOK'
  <2>1. cache[cache_bucket(r)] \in Seq([question : Questions, text : Requests])
    BY <1>6 DEF Hit, StageInv, HasPassages, cache_bucket
  <2>2. \A k \in DOMAIN cache[cache_bucket(r)] : cache[cache_bucket(r)][k].text \in Requests
    BY <2>1, EntryType
  <2> QED
    BY <1>6, <2>2 DEF Hit
<1>7. ASSUME NEW r \in Requests, Miss(r) \/ Meta(r) \/ Chat(r) PROVE TypeOK'
  <2>1. CASE Miss(r)
    BY <2>1 DEF Miss
  <2>2. CASE Meta(r)
    BY <2>2 DEF Meta, StageInv, MetaIsFirst
  <2>3. CASE Chat(r)
    BY <2>3 DEF Chat
  <2> QED
    BY <1>7, <2>1, <2>2, <2>3
<1>8. ASSUME NEW r \in Requests, Token(r) \/ StreamEnds(r) \/ WriteFails(r) PROVE TypeOK'
  <2>1. CASE Token(r)
    <3>1. \/ pc' = [pc EXCEPT ![r] = "verify"] /\ text' = text
          \/ pc' = pc /\ text' = [text EXCEPT ![r] = r]
      BY <2>1 DEF Token
    <3>2. r \in Streaming /\ event' = [event EXCEPT ![r] = "token"]
      BY <2>1 DEF Token
    <3>3. UNCHANGED <<stored, holding, passages, listed, whole, flagged, outcome, cache, checks>>
      BY <2>1 DEF Token
    <3>4. text' \in [Requests -> Requests \cup {NoText}]
      <4>1. text \in [Requests -> Requests \cup {NoText}]
        OBVIOUS
      <4> QED
        BY ONLY <1>8, <3>1, <4>1
    <3>5. pc' \in [Requests -> Model \cup {"retrieve", "gates", "sources", "lookup",
                   "meta", "verify", "remember", "orphan", "reply", "end"}]
      BY <3>1
    <3>6. event' \in [Streaming -> {"none", "meta", "token", "passed", "blocked",
                                   "done", "refused", "error"}]
      BY <3>2
    <3> QED
      BY <3>3, <3>4, <3>5, <3>6
  <2>2. CASE StreamEnds(r)
    BY <2>2 DEF StreamEnds
  <2>3. CASE WriteFails(r)
    BY <2>3 DEF WriteFails
  <2> QED
    BY <1>8, <2>1, <2>2, <2>3
<1>9. ASSUME NEW r \in Requests, Verify(r) PROVE TypeOK'
  <2>1. text[r] \in Requests
    BY <1>9 DEF Verify, StageInv, WholeIsLate
  <2>2. checks' \subseteq [text : Requests, question : Questions, ok : BOOLEAN]
    BY <1>9, <2>1 DEF Verify, Checked
  <2>3. flagged' \subseteq Requests
    BY <1>9 DEF Verify
  <2>4. event' \in [Streaming -> {"none", "meta", "token", "passed", "blocked",
                                 "done", "refused", "error"}]
    BY <1>9 DEF Verify
  <2>5. pc' \in {[pc EXCEPT ![r] = "reply"], [pc EXCEPT ![r] = "remember"]}
    BY <1>9 DEF Verify
  <2> QED
    BY <1>9, <2>2, <2>3, <2>4, <2>5 DEF Verify
<1>10. ASSUME NEW r \in Requests, Store(r) PROVE TypeOK'
  <2> DEFINE b == cache_bucket(r)
             S == [question : Questions, text : Requests]
             e == [question |-> QuestionOf[r], text |-> text[r]]
  <2>1. b \in Passages /\ text[r] = r
    BY <1>10 DEF Store, StageInv, HasPassages, WholeIsLate, cache_bucket
  <2>2. cache'[b] \in Seq(S)
    <3>1. cache[b] \in Seq(S) /\ e \in S
      BY <2>1
    <3>2. cache'[b] = SubSeq(<<e>> \o cache[b], 1,
             IF Len(cache[b]) < MaxEntries THEN Len(cache[b]) + 1 ELSE MaxEntries)
      BY <1>10, <2>1 DEF Store
    <3>3. MaxEntries \in Nat \ {0}
      OBVIOUS
    <3> HIDE DEF S, e, b
    <3> QED
      BY ONLY <3>1, <3>2, <3>3, Remembered
  <2>3. cache' = [cache EXCEPT ![b] = cache'[b]]
    BY <1>10, <2>1 DEF Store
  <2>4. cache' \in [Passages -> Seq(S)]
    BY <2>2, <2>3
  <2> QED
    BY <1>10, <2>4 DEF Store, AfterRemember
<1>11. ASSUME NEW r \in Requests, NotStored(r) \/ Reply(r) \/ Leave(r) PROVE TypeOK'
  <2>1. CASE NotStored(r)
    BY <2>1 DEF NotStored, AfterRemember
  <2>2. CASE Reply(r)
    BY <2>2 DEF Reply
  <2>3. CASE Leave(r)
    BY <2>3 DEF Leave
  <2> QED
    BY <1>11, <2>1, <2>2, <2>3
<1>12. ASSUME NEW r \in Requests, Fail(r) PROVE TypeOK'
  BY <1>3, <1>12 DEF Fail
<1>13. CASE Replace
  BY <1>13 DEF Replace
<1>14. CASE UNCHANGED vars
  BY <1>14 DEF vars
<1> QED
  BY <1>1, <1>2, <1>4, <1>5, <1>6, <1>7, <1>8, <1>9, <1>10, <1>11, <1>12, <1>13, <1>14
     DEF Next, Step, Prepare

-----------------------------------------------------------------------------
(* What each step keeps of the stages.                                     *)
LEMMA NextStageInv == AnswersInv /\ [Next]_vars => StageInv'
<1> SUFFICES ASSUME AnswersInv, [Next]_vars PROVE StageInv'
  OBVIOUS
<1> USE AnswersAssumption
    DEF AnswersInv, TypeOK, StageInv, HoldersRead, HasPassages, EarlyIsBlank, MetaIsFirst,
        Undecided, WholeIsLate, Judgement, Judged, Early, Late, Cached, Checked,
        At, Goto, Decide, Emit, Release, Outside, reads, writing, Model
<1>1. ASSUME NEW r \in Requests, Retrieve(r) PROVE StageInv'
  <2>1. IsFiniteSet(holding') /\ holding' = holding \cup {r}
    BY <1>1, FS_AddElement DEF Retrieve
  <2>2. passages'[r] \in Passages
    BY <1>1 DEF Retrieve, Passages
  <2> QED
    BY <1>1, <2>1, <2>2 DEF Retrieve
<1>2. ASSUME NEW r \in Requests, PassGates(r) PROVE StageInv'
  <2>1. [passages[r] EXCEPT !.joined = StillStored(r)] \in Passages
    <3>1. passages[r] \in Passages
      BY <1>2 DEF PassGates
    <3> QED
      BY <3>1 DEF Passages, StillStored
  <2>2. passages' = [passages EXCEPT ![r] = [passages[r] EXCEPT !.joined = StillStored(r)]]
    BY <1>2 DEF PassGates
  <2>3. \A q \in Requests : pc'[q] \notin {"retrieve", "end"} => passages'[q] \in Passages
    BY <1>2, <2>1, <2>2 DEF PassGates
  <2>4. pc' = [pc EXCEPT ![r] = "sources"] /\ pc[r] = "gates"
    BY <1>2 DEF PassGates
  <2>5. UNCHANGED <<holding, text, whole, flagged, outcome, checks>>
    BY <1>2 DEF PassGates
  <2> QED
    BY <2>3, <2>4, <2>5
<1>3. ASSUME NEW r \in Requests, FailGates(r) PROVE StageInv'
  <2>1. IsFiniteSet(holding')
    BY <1>3, FS_RemoveElement DEF FailGates, Refuse
  <2> QED
    BY <1>3, <2>1 DEF FailGates, Refuse
<1>4. ASSUME NEW r \in Requests, ReadSources(r) PROVE StageInv'
  <2>1. IsFiniteSet(holding')
    BY <1>4, FS_RemoveElement DEF ReadSources
  <2> QED
    BY <1>4, <2>1 DEF ReadSources
<1>5. ASSUME NEW r \in Requests, PassCheck(r) PROVE StageInv'
  BY <1>5 DEF PassCheck
<1>6. ASSUME NEW r \in Requests, FailCheck(r) PROVE StageInv'
  BY <1>6 DEF FailCheck, Refuse
<1>7. ASSUME NEW r \in Requests, Hit(r) PROVE StageInv'
  <2>1. PICK k \in DOMAIN cache[cache_bucket(r)] :
          text' = [text EXCEPT ![r] = cache[cache_bucket(r)][k].text]
    BY <1>7 DEF Hit
  <2> DEFINE w == cache[cache_bucket(r)][k].text
  <2>2. w \in whole /\ w # r
    <3>1. cache_bucket(r) \in Passages
      BY <1>7 DEF Hit, cache_bucket
    <3>2. w \in whole
      BY <3>1 DEF ShareInv, OnlySoundTextIsShared
    <3> QED
      BY <1>7, <3>2 DEF Hit
  <2>3. text' = [text EXCEPT ![r] = w]
    BY <2>1
  <2> HIDE DEF w
  <2>4. pc' = [pc EXCEPT ![r] = IF r \in Streaming THEN "meta" ELSE "verify"] /\ pc[r] = "lookup"
    BY <1>7 DEF Hit
  <2>5. UNCHANGED <<holding, passages, whole, flagged, outcome, checks>>
    BY <1>7 DEF Hit
  <2> QED
    BY <2>2, <2>3, <2>4, <2>5
<1>8. ASSUME NEW r \in Requests, Miss(r) PROVE StageInv'
  BY <1>8 DEF Miss
<1>9. ASSUME NEW r \in Requests, Meta(r) PROVE StageInv'
  BY <1>9 DEF Meta
<1>10. ASSUME NEW r \in Requests, Chat(r) PROVE StageInv'
  BY <1>10 DEF Chat
<1>11. ASSUME NEW r \in Requests, Token(r) PROVE StageInv'
  <2>1. \/ pc' = [pc EXCEPT ![r] = "verify"] /\ text' = text /\ Cached(r)
        \/ pc' = pc /\ text' = [text EXCEPT ![r] = r]
    BY <1>11 DEF Token
  <2>2. UNCHANGED <<holding, passages, whole, flagged, outcome, checks>> /\ pc[r] = "write"
    BY <1>11 DEF Token
  <2>3. CASE pc' = [pc EXCEPT ![r] = "verify"] /\ text' = text /\ Cached(r)
    BY <2>2, <2>3
  <2>4. CASE pc' = pc /\ text' = [text EXCEPT ![r] = r]
    <3>1. text'[r] = r /\ \A q \in Requests \ {r} : text'[q] = text[q]
      BY <2>4
    <3>2. WholeIsLate'
      BY <2>2, <2>4, <3>1
    <3>3. EarlyIsBlank' /\ MetaIsFirst' /\ HoldersRead' /\ HasPassages' /\ Undecided'
      BY <2>2, <2>4, <3>1
    <3>4. \A q \in Requests \ {r} : Judged(q) => Judged(q)'
      BY <2>2, <3>1
    <3>5. Judgement'
      <4> HIDE DEF Judged
      <4> QED
        BY <2>2, <2>4, <3>4
    <3> QED
      BY <3>2, <3>3, <3>5
  <2> QED
    BY <2>1, <2>3, <2>4
<1>12. ASSUME NEW r \in Requests, StreamEnds(r) PROVE StageInv'
  BY <1>12 DEF StreamEnds
<1>13. ASSUME NEW r \in Requests, Verify(r) PROVE StageInv'
  <2>1. PICK ok \in BOOLEAN :
          /\ checks' = checks \cup {Checked(r, ok)}
          /\ flagged' = IF ok THEN flagged ELSE flagged \cup {r}
    BY <1>13 DEF Verify
  <2>2. pc' = [pc EXCEPT ![r] = IF Cached(r) THEN "reply" ELSE "remember"] /\ pc[r] = "verify"
    BY <1>13 DEF Verify
  <2>3. UNCHANGED <<holding, passages, text, whole, outcome>>
    BY <1>13 DEF Verify
  <2>4. Judged(r)'
    <3>1. CASE ok
      BY <2>1, <2>2, <2>3, <3>1
    <3>2. CASE ~ok
      BY <2>1, <2>2, <2>3, <3>2
    <3> QED
      BY <3>1, <3>2
  <2>5. \A q \in Requests \ {r} : (q \in flagged' <=> q \in flagged) /\ (Judged(q) => Judged(q)')
    BY <2>1, <2>3
  <2>6. Judgement'
    <3> HIDE DEF Judged
    <3> QED
      BY <2>2, <2>3, <2>4, <2>5
  <2>7. WholeIsLate' /\ Undecided'
    BY <2>2, <2>3
  <2>8. HoldersRead' /\ HasPassages' /\ EarlyIsBlank' /\ MetaIsFirst'
    BY <2>2, <2>3
  <2> QED
    BY <2>6, <2>7, <2>8
<1>14. ASSUME NEW r \in Requests, Store(r) PROVE StageInv'
  BY <1>14 DEF Store, AfterRemember
<1>15. ASSUME NEW r \in Requests, NotStored(r) PROVE StageInv'
  BY <1>15 DEF NotStored, AfterRemember
<1>16. ASSUME NEW r \in Requests, Reply(r) PROVE StageInv'
  BY <1>16 DEF Reply
<1>17. ASSUME NEW r \in Requests, WriteFails(r) PROVE StageInv'
  BY <1>17 DEF WriteFails
<1>18. ASSUME NEW r \in Requests, Leave(r) PROVE StageInv'
  BY <1>18 DEF Leave
<1>19. ASSUME NEW r \in Requests, Fail(r) PROVE StageInv'
  <2>1. IsFiniteSet(holding')
    BY <1>19, FS_RemoveElement DEF Fail
  <2> QED
    BY <1>19, <2>1 DEF Fail
<1>20. CASE Replace
  BY <1>20 DEF Replace
<1>21. CASE UNCHANGED vars
  BY <1>21 DEF vars
<1> QED
  BY <1>1, <1>2, <1>3, <1>4, <1>5, <1>6, <1>7, <1>8, <1>9, <1>10, <1>11, <1>12, <1>13, <1>14,
     <1>15, <1>16, <1>17, <1>18, <1>19, <1>20, <1>21 DEF Next, Step, Prepare

-----------------------------------------------------------------------------
(* A request's passages and, once it has one, its text are settled before  *)
(* anybody can read them; verdicts and whole texts are only added.         *)
Settling ==
  /\ whole \subseteq whole' /\ checks \subseteq checks'
  /\ \A q \in Requests :
       /\ pc[q] \notin Early => passages'[q] = passages[q]
       /\ pc[q] \notin Early \cup {"write"} => text'[q] = text[q]
       /\ text'[q] = text[q] \/ text'[q] = q \/ Hit(q)

LEMMA Settled == AnswersInv /\ [Next]_vars => Settling
<1> SUFFICES ASSUME AnswersInv, [Next]_vars PROVE Settling
  OBVIOUS
<1> USE DEF AnswersInv, TypeOK, Settling, Early, At, Goto, Decide, Emit, Release, Outside,
            reads, writing
<1>1. ASSUME NEW r \in Requests, Retrieve(r) \/ PassGates(r) PROVE Settling
  BY <1>1 DEF Retrieve, PassGates
<1>2. ASSUME NEW r \in Requests, FailGates(r) \/ ReadSources(r) \/ PassCheck(r) \/ FailCheck(r)
      PROVE  Settling
  BY <1>2 DEF FailGates, Refuse, ReadSources, PassCheck, FailCheck
<1>3. ASSUME NEW r \in Requests, Hit(r) PROVE Settling
  BY <1>3 DEF Hit
<1>4. ASSUME NEW r \in Requests, Miss(r) \/ Meta(r) PROVE Settling
  BY <1>4 DEF Miss, Meta
<1>5. ASSUME NEW r \in Requests, Chat(r) PROVE Settling
  BY <1>5 DEF Chat
<1>6. ASSUME NEW r \in Requests, Token(r) PROVE Settling
  BY <1>6 DEF Token
<1>7. ASSUME NEW r \in Requests, StreamEnds(r) PROVE Settling
  BY <1>7 DEF StreamEnds
<1>8. ASSUME NEW r \in Requests, Verify(r) PROVE Settling
  BY <1>8 DEF Verify
<1>9. ASSUME NEW r \in Requests, Store(r) \/ NotStored(r) PROVE Settling
  BY <1>9 DEF Store, AfterRemember, NotStored
<1>10. ASSUME NEW r \in Requests, Reply(r) \/ WriteFails(r) \/ Leave(r) \/ Fail(r) PROVE Settling
  BY <1>10 DEF Reply, WriteFails, Leave, Fail
<1>11. CASE Replace \/ UNCHANGED vars
  BY <1>11 DEF Replace, vars
<1> QED
  BY <1>1, <1>2, <1>3, <1>4, <1>5, <1>6, <1>7, <1>8, <1>9, <1>10, <1>11 DEF Next, Step, Prepare

(* The verdict an answer was given under stays on record.                  *)
LEMMA NextUnchecked == AnswersInv /\ [Next]_vars => UncheckedNeverAnswered'
<1> SUFFICES ASSUME AnswersInv, [Next]_vars PROVE UncheckedNeverAnswered'
  OBVIOUS
<1>1. TypeOK /\ StageInv /\ UncheckedNeverAnswered /\ Settling
  BY Settled DEF AnswersInv
<1>2. ASSUME NEW q \in Requests,
             \/ outcome'[q] = outcome[q]
             \/ outcome'[q] \notin {"answered", "withheld"}
             \/ Reply(q)
      PROVE  /\ outcome'[q] = "answered" => Checked(q, TRUE)' \in checks'
             /\ outcome'[q] = "withheld" => Checked(q, FALSE)' \in checks'
  <2>1. CASE outcome'[q] = outcome[q]
    <3>1. outcome[q] \in {"answered", "withheld"} => text'[q] = text[q]
      BY <1>1 DEF StageInv, Undecided, Settling, Early
    <3> QED
      BY <1>1, <2>1, <3>1 DEF UncheckedNeverAnswered, Checked, Settling
  <2>2. CASE Reply(q)
    <3>1. text'[q] = text[q] /\ pc[q] = "reply"
      BY <2>2, <1>1 DEF Reply, At, Settling, Early
    <3>2. CASE outcome[q] = "refused"
      BY <2>2, <3>2 DEF Reply
    <3>3. CASE outcome[q] # "refused"
      <4>1. outcome'[q] = IF q \in flagged THEN "withheld" ELSE "answered"
        BY <1>1, <2>2, <3>3 DEF Reply, Decide, TypeOK
      <4>2. Judged(q)
        BY <1>1, <3>1, <3>3 DEF StageInv, Judgement
      <4> QED
        BY <1>1, <3>1, <4>1, <4>2 DEF Judged, Checked, Settling
    <3> QED
      BY <3>2, <3>3
  <2> QED
    BY <1>2, <2>1, <2>2
<1>3. ASSUME NEW q \in Requests
      PROVE  \/ outcome'[q] = outcome[q]
             \/ outcome'[q] \notin {"answered", "withheld"}
             \/ Reply(q)
  <2> USE <1>1, <1>3 DEF TypeOK, Decide, Outside
  <2>1. ASSUME NEW r \in Requests, Prepare(r)
        PROVE  outcome'[q] \in {outcome[q], "refused"}
    BY <2>1 DEF Prepare, Retrieve, PassGates, FailGates, ReadSources, PassCheck, FailCheck, Refuse
  <2>2. ASSUME NEW r \in Requests,
               Hit(r) \/ Miss(r) \/ Meta(r) \/ Chat(r) \/ Token(r) \/ StreamEnds(r)
               \/ Verify(r) \/ Store(r) \/ NotStored(r)
        PROVE  outcome'[q] = outcome[q]
    BY <2>2 DEF Hit, Miss, Meta, Chat, Token, StreamEnds, Verify, Store, NotStored
  <2>3. ASSUME NEW r \in Requests, WriteFails(r) \/ Leave(r) \/ Fail(r)
        PROVE  outcome'[q] \in {outcome[q], "failed", "left"}
    BY <2>3 DEF WriteFails, Leave, Fail
  <2>4. ASSUME NEW r \in Requests, Reply(r), r # q PROVE outcome'[q] = outcome[q]
    BY <2>4 DEF Reply
  <2>5. CASE Replace \/ UNCHANGED vars
    BY <2>5 DEF Replace, vars
  <2> QED
    BY <2>1, <2>2, <2>3, <2>4, <2>5 DEF Next, Step
<1>4. ASSUME NEW q \in Streaming, q \in flagged', pc'[q] \in {"remember", "reply"}
      PROVE  event'[q] = "blocked"
  <2>0. q \in Requests
    BY AnswersAssumption
  <2>1. ASSUME NEW r \in Requests, Verify(r) PROVE event'[q] = "blocked"
    <3>1. CASE r = q
      <4>1. PICK ok \in BOOLEAN :
              /\ flagged' = IF ok THEN flagged ELSE flagged \cup {r}
              /\ \/ r \in Streaming /\ Emit(r, IF ok THEN "passed" ELSE "blocked")
                 \/ (r \notin Streaming \/ ok) /\ UNCHANGED event
        BY <2>1 DEF Verify
      <4>2. q \notin flagged
        BY <1>1, <2>0, <2>1, <3>1 DEF StageInv, Judgement, Verify, At
      <4> QED
        BY <1>1, <1>4, <3>1, <4>1, <4>2 DEF Emit, TypeOK
    <3>2. CASE r # q
      <4>1. q \in flagged /\ pc'[q] = pc[q] /\ event'[q] = event[q]
        BY <1>1, <1>4, <2>0, <2>1, <3>2 DEF Verify, Goto, Emit, TypeOK
      <4> QED
        BY <1>1, <1>4, <2>0, <4>1 DEF UncheckedNeverAnswered
    <3> QED
      BY <3>1, <3>2
  <2>2. ASSUME flagged' = flagged PROVE pc[q] \in {"remember", "orphan", "reply", "end"}
    BY <1>1, <1>4, <2>0, <2>2 DEF StageInv, Judgement
  <2>3. ASSUME flagged' = flagged, event'[q] = event[q], pc[q] \in {"remember", "reply"}
        PROVE  event'[q] = "blocked"
    BY <1>1, <1>4, <2>0, <2>3 DEF UncheckedNeverAnswered
  <2> USE <1>1, <2>0 DEF TypeOK, At, Goto, Emit, Outside, reads, writing
  <2>4. ASSUME NEW r \in Requests, Prepare(r) PROVE event'[q] = "blocked"
    <3>1. /\ flagged' = flagged /\ event' = event
          /\ pc'[q] = pc[q] \/ pc'[q] \in {"gates", "sources", "check", "lookup", "meta", "end"}
      BY <2>4 DEF Prepare, Retrieve, PassGates, FailGates, ReadSources, PassCheck, FailCheck, Refuse
    <3> QED
      BY <1>4, <2>3, <3>1
  <2>5. ASSUME NEW r \in Requests, Hit(r) \/ Miss(r) \/ Meta(r) \/ Chat(r) \/ Token(r)
        PROVE  event'[q] = "blocked"
    <3>1. flagged' = flagged /\ pc[r] \in {"lookup", "meta", "write"}
      BY <2>5 DEF Hit, Miss, Meta, Chat, Token
    <3>2. r # q
      BY <2>2, <3>1
    <3>3. pc'[q] = pc[q] /\ event'[q] = event[q]
      BY <2>5, <3>2 DEF Hit, Miss, Meta, Chat, Token
    <3> QED
      BY <1>4, <2>3, <3>1, <3>3
  <2>6. ASSUME NEW r \in Requests,
               StreamEnds(r) \/ WriteFails(r) \/ Reply(r) \/ Leave(r) \/ Fail(r)
        PROVE  event'[q] = "blocked"
    <3>1. flagged' = flagged
      BY <2>6 DEF StreamEnds, WriteFails, Reply, Leave, Fail
    <3>2. r # q
      BY <1>4, <2>2, <2>6, <3>1 DEF StreamEnds, WriteFails, Reply, Leave, Fail
    <3>3. pc'[q] = pc[q] /\ event'[q] = event[q]
      BY <2>6, <3>2 DEF StreamEnds, WriteFails, Reply, Leave, Fail
    <3> QED
      BY <1>4, <2>3, <3>1, <3>3
  <2>7. ASSUME NEW r \in Requests, Store(r) \/ NotStored(r) PROVE event'[q] = "blocked"
    <3>1. flagged' = flagged /\ event' = event
      BY <2>7 DEF Store, NotStored
    <3>2. pc[q] \in {"remember", "reply"}
      BY <1>4, <2>7 DEF Store, NotStored, AfterRemember
    <3> QED
      BY <2>3, <3>1, <3>2
  <2>8. CASE Replace \/ UNCHANGED vars
    <3>1. flagged' = flagged /\ event' = event /\ pc' = pc
      BY <2>8 DEF Replace, vars
    <3> QED
      BY <1>4, <2>3, <3>1
  <2> QED
    BY <2>1, <2>4, <2>5, <2>6, <2>7, <2>8 DEF Next, Step
<1> QED
  BY <1>2, <1>3, <1>4 DEF UncheckedNeverAnswered

-----------------------------------------------------------------------------
(* The cache changes only by Store, which adds an entry of its writer.     *)
LEMMA OnlyStoreWrites ==
  AnswersInv /\ [Next]_vars => cache' = cache \/ \E r \in Requests : Store(r)
<1> SUFFICES ASSUME [Next]_vars PROVE cache' = cache \/ \E r \in Requests : Store(r)
  OBVIOUS
<1>1. ASSUME NEW r \in Requests, Prepare(r) PROVE cache' = cache
  BY <1>1 DEF Prepare, Retrieve, PassGates, FailGates, ReadSources, PassCheck, FailCheck,
              Refuse, Outside
<1>2. ASSUME NEW r \in Requests,
             Hit(r) \/ Miss(r) \/ Meta(r) \/ Chat(r) \/ Token(r) \/ StreamEnds(r)
             \/ Verify(r) \/ NotStored(r) \/ Reply(r)
      PROVE  cache' = cache
  BY <1>2 DEF Hit, Miss, Meta, Chat, Token, StreamEnds, Verify, NotStored, Reply, Outside
<1>3. ASSUME NEW r \in Requests, WriteFails(r) \/ Leave(r) \/ Fail(r) PROVE cache' = cache
  BY <1>3 DEF WriteFails, Leave, Fail
<1>4. CASE Replace \/ UNCHANGED vars
  BY <1>4 DEF Replace, vars, Outside
<1> QED
  BY <1>1, <1>2, <1>3, <1>4 DEF Next, Step

(* What is true of an entry of bucket b.                                   *)
Sound(b, e) ==
  /\ e.text \in whole
  /\ [text |-> e.text, question |-> e.question, ok |-> TRUE] \in checks
  /\ passages[e.text] = b
  /\ e.question = QuestionOf[e.text]

LEMMA SoundStays ==
  ASSUME AnswersInv, Settling, NEW b, NEW e, Sound(b, e)
  PROVE  Sound(b, e)'
<1>1. e.text \in Requests /\ pc[e.text] \notin Early
  BY DEF AnswersInv, TypeOK, StageInv, WholeIsLate, Sound, Early, Late
<1> QED
  BY <1>1 DEF Sound, Settling

LEMMA NextCache ==
  AnswersInv /\ [Next]_vars => (OnlySoundTextIsShared /\ EntriesAreOwn)'
<1> SUFFICES ASSUME AnswersInv, [Next]_vars, NEW b \in Passages, NEW k \in DOMAIN cache'[b],
                    NEW entry, entry = cache'[b][k]
             PROVE  k <= MaxEntries /\ Sound(b, entry)'
  <2>1. ASSUME AnswersInv, [Next]_vars,
               \A b \in Passages : \A k \in DOMAIN cache'[b] : \A entry :
                 entry = cache'[b][k] => k <= MaxEntries /\ Sound(b, entry)'
        PROVE  (OnlySoundTextIsShared /\ EntriesAreOwn)'
    <3>1. ASSUME NEW b \in Passages, NEW k \in DOMAIN cache'[b]
          PROVE  /\ k <= MaxEntries
                 /\ cache'[b][k].text \in whole'
                 /\ [text |-> cache'[b][k].text, question |-> cache'[b][k].question,
                     ok |-> TRUE] \in checks'
                 /\ passages'[cache'[b][k].text] = b
                 /\ cache'[b][k].question = QuestionOf[cache'[b][k].text]
      <4>0. PICK entry : entry = cache'[b][k]
        OBVIOUS
      <4>1. k <= MaxEntries /\ Sound(b, entry)'
        BY <2>1, <4>0
      <4> QED
        BY <4>0, <4>1 DEF Sound
    <3>2. OnlySoundTextIsShared'
      BY <3>1 DEF OnlySoundTextIsShared
    <3>3. EntriesAreOwn'
      BY <3>1 DEF EntriesAreOwn
    <3> QED
      BY <3>2, <3>3
  <2> QED
    BY <2>1
<1>1. Settling
  BY Settled
<1>2. \A j \in DOMAIN cache[b] : j <= MaxEntries /\ Sound(b, cache[b][j])
  BY DEF AnswersInv, ShareInv, OnlySoundTextIsShared, EntriesAreOwn, Sound
<1>3. CASE cache'[b] = cache[b]
  BY <1>1, <1>2, <1>3, SoundStays
<1>4. ASSUME NEW r \in Requests, Store(r), b = cache_bucket(r)
      PROVE  k <= MaxEntries /\ Sound(b, entry)'
  <2> DEFINE S == [question : Questions, text : Requests]
             e == [question |-> QuestionOf[r], text |-> text[r]]
  <2>1. text[r] = r /\ r \in whole /\ r \notin flagged /\ Judged(r)
    BY <1>4 DEF Store, AnswersInv, StageInv, WholeIsLate, Judgement
  <2>2. Sound(b, e)
    BY <1>4, <2>1 DEF Sound, Judged, Checked, cache_bucket
  <2>3. cache[b] \in Seq(S) /\ e \in S /\ MaxEntries \in Nat \ {0}
    BY <2>1, AnswersAssumption DEF AnswersInv, TypeOK
  <2>4. cache'[b] = SubSeq(<<e>> \o cache[b], 1,
           IF Len(cache[b]) < MaxEntries THEN Len(cache[b]) + 1 ELSE MaxEntries)
    BY <1>4 DEF Store, AnswersInv, TypeOK
  <2> HIDE DEF S, e
  <2>5. /\ k <= MaxEntries
        /\ cache'[b][k] = e \/ \E j \in DOMAIN cache[b] : cache'[b][k] = cache[b][j]
    BY ONLY <2>3, <2>4, Remembered, k \in DOMAIN cache'[b]
  <2>6. Sound(b, entry)
    BY <1>2, <2>2, <2>5
  <2> QED
    BY <1>1, <2>5, <2>6, SoundStays
<1>5. ASSUME NEW r \in Requests, Store(r), b # cache_bucket(r) PROVE cache'[b] = cache[b]
  BY <1>5 DEF Store, AnswersInv, TypeOK
<1> QED
  BY <1>3, <1>4, <1>5, OnlyStoreWrites

(* Whoever takes a text takes it from the bucket of its own passages, and  *)
(* neither its passages nor the writer's change afterwards.                *)
LEMMA NextReused == AnswersInv /\ [Next]_vars => ReusedTextFits'
<1> SUFFICES ASSUME AnswersInv, [Next]_vars, NEW q \in Requests, Cached(q)'
             PROVE  /\ passages'[text'[q]] = passages'[q]
                    /\ Guard[QuestionOf[text'[q]]] = Guard[QuestionOf[q]]
                    /\ Similarity[QuestionOf[q]][QuestionOf[text'[q]]] > 0
  BY DEF ReusedTextFits
<1>1. Settling /\ TypeOK /\ StageInv
  BY Settled DEF AnswersInv
<1>2. CASE text'[q] = text[q]
  <2>1. Cached(q) /\ text[q] \in whole /\ text[q] \in Requests
    BY <1>1, <1>2 DEF Cached, StageInv, WholeIsLate, TypeOK
  <2>2. pc[q] \notin Early /\ pc[text[q]] \notin Early
    BY <1>1, <2>1 DEF Cached, StageInv, WholeIsLate, EarlyIsBlank, Early, Late
  <2>3. /\ passages[text[q]] = passages[q]
        /\ Guard[QuestionOf[text[q]]] = Guard[QuestionOf[q]]
        /\ Similarity[QuestionOf[q]][QuestionOf[text[q]]] > 0
    BY <2>1 DEF AnswersInv, ShareInv, ReusedTextFits
  <2> QED
    BY <1>1, <1>2, <2>1, <2>2, <2>3 DEF Settling
<1>3. CASE Hit(q)
  <2>1. PICK k \in DOMAIN cache[cache_bucket(q)] :
          IsBest(q, k) /\ text' = [text EXCEPT ![q] = cache[cache_bucket(q)][k].text]
    BY <1>3 DEF Hit
  <2> DEFINE b == cache_bucket(q)
             e == cache[b][k]
  <2>2. b \in Passages /\ passages' = passages
    BY <1>1, <1>3 DEF Hit, At, reads, StageInv, HasPassages, cache_bucket
  <2>3. Sound(b, e)
    BY <2>2 DEF AnswersInv, ShareInv, OnlySoundTextIsShared, EntriesAreOwn, Sound
  <2>4. Matches(q, e)
    BY <2>1 DEF IsBest
  <2>5. text'[q] = e.text
    BY <1>1, <2>1 DEF TypeOK
  <2> HIDE DEF e
  <2> QED
    BY <2>2, <2>3, <2>4, <2>5 DEF Sound, Matches, cache_bucket
<1> QED
  BY <1>1, <1>2, <1>3 DEF Settling, Cached

-----------------------------------------------------------------------------
LEMMA NextInv == AnswersInv /\ [Next]_vars => AnswersInv'
  BY NextTypeOK, NextStageInv, NextUnchecked, NextCache, NextReused DEF AnswersInv, ShareInv

LEMMA Invariance == Spec => []AnswersInv
  BY InitInv, NextInv, PTL DEF Spec

(* Answers is well typed in every behaviour (type invariant).              *)
THEOREM TypeCorrect == Spec => []TypeOK
<1>1. AnswersInv => TypeOK
  BY DEF AnswersInv
<1> QED
  BY <1>1, Invariance, PTL

(* Only whole texts that passed the check for the question they are stored *)
(* under, written from the passages of their bucket, are ever in the cache *)
(* (property OnlySoundTextIsShared).                                       *)
THEOREM SharedTextIsSound == Spec => []OnlySoundTextIsShared
<1>1. AnswersInv => OnlySoundTextIsShared
  BY DEF AnswersInv, ShareInv
<1> QED
  BY <1>1, Invariance, PTL

(* Whoever is given another's text reads the same passages and asks an     *)
(* equivalent question (property ReusedTextFits).                          *)
THEOREM NoStaleHit == Spec => []ReusedTextFits
<1>1. AnswersInv => ReusedTextFits
  BY DEF AnswersInv, ShareInv
<1> QED
  BY <1>1, Invariance, PTL

(* No reader keeps an answer that was not checked for the question asked   *)
(* (property UncheckedNeverAnswered).                                      *)
THEOREM AnswersAreChecked == Spec => []UncheckedNeverAnswered
<1>1. AnswersInv => UncheckedNeverAnswered
  BY DEF AnswersInv
<1> QED
  BY <1>1, Invariance, PTL

(* Nobody waits for a model with a connection of the pool in hand          *)
(* (property ModelsNeverHoldConnections).                                  *)
THEOREM ConnectionsAreFree == Spec => []ModelsNeverHoldConnections
<1>1. AnswersInv => ModelsNeverHoldConnections
  BY DEF AnswersInv, StageInv, HoldersRead, ModelsNeverHoldConnections, Model
<1> QED
  BY <1>1, Invariance, PTL

-----------------------------------------------------------------------------
(* The last event of a stream, by where it is.                             *)
EventFits ==
  \A s \in Streaming :
    /\ pc[s] \in Early \cup {"meta"} => event[s] = "none"
    /\ pc[s] = "write" => event[s] \in {"meta", "token"} /\ (text[s] = s => event[s] = "token")
    /\ pc[s] = "verify" => event[s] = "token"
    /\ pc[s] = "remember" => event[s] \in {"token", "passed", "blocked"}
    /\ pc[s] = "reply" /\ outcome[s] = "refused" => event[s] = "meta"
    /\ pc[s] = "reply" /\ outcome[s] # "refused" => event[s] \in {"token", "passed", "blocked"}

LEMMA InitEventFits == Init => EventFits
  BY AnswersAssumption DEF Init, EventFits, Early

LEMMA NextEventFits == AnswersInv /\ EventFits /\ [Next]_vars => EventFits'
<1> SUFFICES ASSUME AnswersInv, EventFits, [Next]_vars PROVE EventFits'
  OBVIOUS
<1>1. TypeOK /\ StageInv
  BY DEF AnswersInv
<1> USE <1>1, AnswersAssumption
    DEF TypeOK, EventFits, Early, At, Goto, Decide, Emit, Release, Outside, reads, writing,
        Cached
<1>2. ASSUME NEW r \in Requests, Retrieve(r) \/ PassGates(r) PROVE EventFits'
  BY <1>2 DEF Retrieve, PassGates
<1>3. ASSUME NEW r \in Requests, FailGates(r) \/ FailCheck(r) PROVE EventFits'
  BY <1>3 DEF FailGates, Refuse, StageInv, EarlyIsBlank, FailCheck
<1>4. ASSUME NEW r \in Requests, ReadSources(r) \/ PassCheck(r) PROVE EventFits'
  BY <1>4 DEF ReadSources, PassCheck
<1>5. ASSUME NEW r \in Requests, Hit(r) PROVE EventFits'
  BY <1>5 DEF Hit
<1>6. ASSUME NEW r \in Requests, Miss(r) PROVE EventFits'
  BY <1>6 DEF Miss, StageInv, EarlyIsBlank
<1>7. ASSUME NEW r \in Requests, Meta(r) PROVE EventFits'
  BY <1>7 DEF Meta, StageInv, MetaIsFirst
<1>8. ASSUME NEW r \in Requests, Chat(r) PROVE EventFits'
  BY <1>8 DEF Chat
<1>9. ASSUME NEW r \in Requests, Token(r) PROVE EventFits'
  BY <1>9 DEF Token, StageInv, Undecided
<1>10. ASSUME NEW r \in Requests, StreamEnds(r) PROVE EventFits'
  BY <1>10 DEF StreamEnds, StageInv, Undecided
<1>11. ASSUME NEW r \in Requests, Verify(r) PROVE EventFits'
  BY <1>11 DEF Verify, StageInv, Undecided
<1>12. ASSUME NEW r \in Requests, Store(r) \/ NotStored(r) PROVE EventFits'
  BY <1>12 DEF Store, AfterRemember, StageInv, Undecided, NotStored
<1>13. ASSUME NEW r \in Requests, Reply(r) \/ WriteFails(r) PROVE EventFits'
  BY <1>13 DEF Reply, WriteFails
<1>14. ASSUME NEW r \in Requests, Leave(r) \/ Fail(r) PROVE EventFits'
  <2>1. /\ UNCHANGED <<text, event>>
        /\ pc' = [pc EXCEPT ![r] = "orphan"] \/ pc' = [pc EXCEPT ![r] = "end"]
    BY <1>14 DEF Leave, Fail
  <2>2. \A s \in Streaming \ {r} : outcome'[s] = outcome[s]
    BY <1>14 DEF Leave, Fail
  <2> QED
    BY <2>1, <2>2
<1>15. CASE Replace \/ UNCHANGED vars
  BY <1>15 DEF Replace, vars
<1> QED
  BY <1>2, <1>3, <1>4, <1>5, <1>6, <1>7, <1>8, <1>9, <1>10, <1>11, <1>12, <1>13, <1>14,
     <1>15 DEF Next, Step, Prepare

(* Every step sends what the contract lets follow, or nothing.             *)
LEMMA NextStream == AnswersInv /\ EventFits /\ [Next]_vars => [Contract!Next]_event
<1> SUFFICES ASSUME AnswersInv, EventFits, [Next]_vars, event' # event PROVE Contract!Next
  OBVIOUS
<1>1. TypeOK
  BY DEF AnswersInv
<1>2. SUFFICES \E s \in Streaming, kind \in Contract!Kinds :
                 event[s] \in Contract!Before(kind) /\ Emit(s, kind)
  BY <1>2 DEF Contract!Next, Contract!Send, Emit
<1> USE DEF EventFits, Early, At, Contract!Kinds, Contract!Before
<1>3. ASSUME NEW r \in Requests, Meta(r)
      PROVE  r \in Streaming /\ event[r] = "none" /\ Emit(r, "meta")
  BY <1>3 DEF Meta, AnswersInv, StageInv, MetaIsFirst
<1>4. ASSUME NEW r \in Requests, Token(r)
      PROVE  r \in Streaming /\ event[r] \in {"meta", "token"} /\ Emit(r, "token")
  BY <1>4 DEF Token
<1>5. ASSUME NEW r \in Requests, Verify(r)
      PROVE  /\ r \in Streaming /\ event[r] = "token"
             /\ Emit(r, "passed") \/ Emit(r, "blocked")
  BY <1>5 DEF Verify
<1>6. ASSUME NEW r \in Requests, Reply(r)
      PROVE  /\ r \in Streaming
             /\ \/ event[r] = "meta" /\ Emit(r, "refused")
                \/ event[r] \in {"token", "passed", "blocked"} /\ Emit(r, "done")
  BY <1>6 DEF Reply
<1>7. ASSUME NEW r \in Requests, WriteFails(r)
      PROVE  r \in Streaming /\ event[r] \in {"meta", "token"} /\ Emit(r, "error")
  BY <1>7 DEF WriteFails
<1>8. ASSUME NEW r \in Requests,
             Prepare(r) \/ Hit(r) \/ Miss(r) \/ Chat(r) \/ StreamEnds(r) \/ Store(r)
             \/ NotStored(r) \/ Leave(r) \/ Fail(r)
      PROVE  FALSE
  BY <1>8 DEF Prepare, Retrieve, PassGates, FailGates, ReadSources, PassCheck, FailCheck, Refuse,
              Hit, Miss, Chat, StreamEnds, Store, NotStored, Leave, Fail, Outside
<1>9. CASE Replace \/ UNCHANGED vars
  BY <1>9 DEF Replace, vars, Outside
<1> QED
  BY <1>3, <1>4, <1>5, <1>6, <1>7, <1>8, <1>9 DEF Next, Step

(* The detailed protocol sends the events of a stream in the order the     *)
(* contract gives (property ImplementsStream).                             *)
THEOREM Refinement == Spec => ImplementsStream
<1>1. Init => Contract!Init
  BY DEF Init, Contract!Init
<1> QED
  BY <1>1, InitInv, NextInv, InitEventFits, NextEventFits, NextStream, PTL
     DEF Spec, ImplementsStream, Contract!Spec
=============================================================================

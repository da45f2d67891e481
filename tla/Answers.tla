------------------------------- MODULE Answers -------------------------------
(***************************************************************************)
(* Questions being answered at the same time through /v1/query and         *)
(* /v1/query/stream (src/app/api/v1/router.py:156-342): retrieval and the  *)
(* gates (src/app/services/generation.py), the semantic answer cache       *)
(* (src/app/core/answer_cache.py), the figure check and the event stream,  *)
(* while an ingest replaces the document the passages come from.  The      *)
(* cache is on, ANSWER_CHECK is refuse and VERIFY_MODE is block: the modes *)
(* in which every branch exists.                                           *)
(***************************************************************************)
EXTENDS FiniteSets, Naturals, Sequences

CONSTANTS
  Requests,    \* requests; also the text each one's model call would write
  Streaming,   \* those made through /v1/query/stream
  Questions,
  QuestionOf,  \* the question each request asks
  Guard,       \* per question: its guard words
  Similarity,  \* per question, per question: 2 the same, 1 near, 0 below the threshold
  Retrieved,   \* per question: which of the document's passages it retrieves
  Copies,      \* 1..n: the copies of the document stored one after the other
  PoolSize,    \* database connections
  MaxEntries,  \* ANSWER_CACHE_MAX_ENTRIES
  NoText, NoPassages

ASSUME AnswersAssumption ==
  /\ Streaming \subseteq Requests
  /\ QuestionOf \in [Requests -> Questions]
  /\ Similarity \in [Questions -> [Questions -> 0..2]]
  /\ \A q, p \in Questions : Similarity[q][p] = 2 => Guard[q] = Guard[p]
  /\ Copies \subseteq Nat /\ 1 \in Copies
  /\ PoolSize \in Nat \ {0} /\ MaxEntries \in Nat \ {0}
  /\ NoText \notin Requests

VARIABLES
  stored,    \* the copy of the document that is committed
  pc,        \* where each request is
  holding,   \* requests that hold a database connection
  passages,  \* per request: the passages its model reads
  listed,    \* requests whose `sources` list has the document they read
  text,      \* per request: the answer it has, by the request that wrote it
  whole,     \* requests whose model call ran to its end
  flagged,   \* requests whose figure check failed
  event,     \* per stream: the last event sent
  outcome,   \* per request: how it ended
  cache,     \* per bucket: the entries stored, newest first
  checks     \* ghost: which text passed or failed the check for which question

reads == <<holding, passages, listed>>
writing == <<text, whole, flagged>>
vars == <<stored, pc, reads, writing, event, outcome, cache, checks>>

(* A prompt's passages: the copy they are cut from, which ones the question *)
(* retrieved, and whether their neighbours were still there.               *)
Passages == [copy : Copies, hits : {Retrieved[q] : q \in Questions}, joined : BOOLEAN]

Model == {"check", "write"}  \* waiting for a model server

TypeOK ==
  /\ stored \in Copies
  /\ pc \in [Requests -> Model \cup {"retrieve", "gates", "sources", "lookup",
                "meta", "verify", "remember", "orphan", "reply", "end"}]
  /\ holding \subseteq Requests /\ Cardinality(holding) <= PoolSize
  /\ passages \in [Requests -> Passages \cup {NoPassages}]
  /\ listed \subseteq Requests
  /\ text \in [Requests -> Requests \cup {NoText}]
  /\ whole \subseteq Requests /\ flagged \subseteq Requests
  /\ event \in [Streaming -> {"none", "meta", "token", "passed", "blocked",
                           "done", "refused", "error"}]
  /\ outcome \in [Requests -> {"none", "refused", "answered", "withheld", "failed", "left"}]
  /\ cache \in [Passages -> Seq([question : Questions, text : Requests])]
  /\ checks \subseteq [text : Requests, question : Questions, ok : BOOLEAN]

Init ==
  /\ stored = 1
  /\ pc = [r \in Requests |-> "retrieve"]
  /\ holding = {}
  /\ passages = [r \in Requests |-> NoPassages]
  /\ listed = {}
  /\ text = [r \in Requests |-> NoText]
  /\ whole = {} /\ flagged = {}
  /\ event = [s \in Streaming |-> "none"]
  /\ outcome = [r \in Requests |-> "none"]
  /\ cache = [b \in Passages |-> <<>>]
  /\ checks = {}

At(r, l) == pc[r] = l
Goto(r, l) == pc' = [pc EXCEPT ![r] = l]
Decide(r, how) == outcome' = [outcome EXCEPT ![r] = how]
Emit(r, kind) == event' = [event EXCEPT ![r] = kind]
Release(r) == holding' = holding \ {r}

Outside == <<writing, event, outcome, cache, checks>>  \* retrieval's frame

-----------------------------------------------------------------------------
(* prepare_answer                                                          *)

(* The question is embedded first; the session takes its connection at the *)
(* first statement of the search.                                          *)
Retrieve(r) ==
  /\ At(r, "retrieve")
  /\ Cardinality(holding) < PoolSize
  /\ holding' = holding \cup {r}
  /\ passages' = [passages EXCEPT ![r] =
       [copy |-> stored, hits |-> Retrieved[QuestionOf[r]], joined |-> FALSE]]
  /\ Goto(r, "gates")
  /\ UNCHANGED <<stored, listed, Outside>>

(* A refused stream still sends meta; the cache is never asked.            *)
Refuse(r) ==
  /\ Decide(r, "refused")
  /\ Goto(r, IF r \in Streaming THEN "meta" ELSE "end")
  /\ UNCHANGED <<stored, passages, listed, writing, event, cache, checks>>

(* Every later statement sees what is committed when it runs.              *)
StillStored(r) == passages[r].copy = stored

(* The distance gate (select_context) and the unknown-word gate let the    *)
(* question through, and the passages' neighbours are read.                *)
PassGates(r) ==
  /\ At(r, "gates")
  /\ passages' = [passages EXCEPT ![r].joined = StillStored(r)]
  /\ Goto(r, "sources")
  /\ UNCHANGED <<stored, holding, listed, Outside>>

FailGates(r) == At(r, "gates") /\ Release(r) /\ Refuse(r)

(* Faulty: the commit that gives the connection back is missing. *)
ReadSourcesNoCommit(r) ==
  /\ At(r, "sources")
  /\ listed' = IF StillStored(r) THEN listed \cup {r} ELSE listed
  /\ Goto(r, "check")
  /\ UNCHANGED <<stored, holding, passages, Outside>>

(* find_source_revisions, then commit: the connection is given back.  The  *)
(* revision each passage was cut from is in its chunk and stays with it    *)
(* (documents.py:208-215); when it was stored, and whether it is marked or *)
(* a newer one is there, only the document's row can tell.                 *)
ReadSources(r) ==
  /\ At(r, "sources")
  /\ listed' = IF StillStored(r) THEN listed \cup {r} ELSE listed
  /\ Release(r)
  /\ Goto(r, "check")
  /\ UNCHANGED <<stored, passages, Outside>>

(* check_answerable: YES or unclear, or NO.                                *)
PassCheck(r) ==
  /\ At(r, "check")
  /\ Goto(r, "lookup")
  /\ UNCHANGED <<stored, reads, Outside>>

FailCheck(r) == At(r, "check") /\ Refuse(r) /\ UNCHANGED holding

-----------------------------------------------------------------------------
(* AnswerCache                                                             *)

(* Faulty: the bucket leaves the passages' wording out. *)
BucketByHits(r) ==
  [copy |-> 1, hits |-> passages[r].hits, joined |-> TRUE]

cache_bucket(r) == passages[r]

Matches(r, e) ==
  /\ Guard[e.question] = Guard[QuestionOf[r]]
  /\ Similarity[QuestionOf[r]][e.question] > 0

(* The closest match, the newest of those as close.                        *)
IsBest(r, k) ==
  LET list == cache[cache_bucket(r)]
      near(j) == Similarity[QuestionOf[r]][list[j].question]
  IN /\ Matches(r, list[k])
     /\ \A j \in DOMAIN list \ {k} : Matches(r, list[j]) =>
          near(j) < near(k) \/ (near(j) = near(k) /\ j > k)

Hit(r) ==
  /\ At(r, "lookup")
  /\ \E k \in DOMAIN cache[cache_bucket(r)] :
       /\ IsBest(r, k)
       /\ text' = [text EXCEPT ![r] = cache[cache_bucket(r)][k].text]
  /\ Goto(r, IF r \in Streaming THEN "meta" ELSE "verify")
  /\ UNCHANGED <<stored, reads, whole, flagged, event, outcome, cache, checks>>

(* Faulty: a Redis that does not answer is asked again. *)
MissAndAskAgain(r) ==
  /\ At(r, "lookup")
  /\ Goto(r, "lookup")
  /\ UNCHANGED <<stored, reads, Outside>>

(* Nothing matches, the bucket has expired, or Redis did not answer.       *)
Miss(r) ==
  /\ At(r, "lookup")
  /\ Goto(r, IF r \in Streaming THEN "meta" ELSE "write")
  /\ UNCHANGED <<stored, reads, Outside>>

-----------------------------------------------------------------------------
(* Writing, checking and remembering the answer                            *)

(* Faulty: a stored answer skips the figure check. *)
MetaSkippingTheCheck(r) ==
  /\ At(r, "meta")
  /\ Emit(r, "meta")
  /\ Goto(r, IF outcome[r] = "refused" \/ text[r] # NoText THEN "reply" ELSE "write")
  /\ UNCHANGED <<stored, reads, writing, outcome, cache, checks>>

Meta(r) ==
  /\ At(r, "meta")
  /\ Emit(r, "meta")
  /\ Goto(r, IF outcome[r] = "refused" THEN "reply" ELSE "write")
  /\ UNCHANGED <<stored, reads, writing, outcome, cache, checks>>

(* chat() returns the whole answer.                                        *)
Chat(r) ==
  /\ At(r, "write") /\ r \notin Streaming
  /\ text' = [text EXCEPT ![r] = r]
  /\ whole' = whole \cup {r}
  /\ Goto(r, "verify")
  /\ UNCHANGED <<stored, reads, flagged, event, outcome, cache, checks>>

Cached(r) == text[r] \notin {NoText, r}

(* A piece of the stream; a stored answer is one piece.                    *)
Token(r) ==
  /\ At(r, "write") /\ r \in Streaming
  /\ Emit(r, "token")
  /\ IF Cached(r)
     THEN Goto(r, "verify") /\ UNCHANGED text
     ELSE text' = [text EXCEPT ![r] = r] /\ UNCHANGED pc
  /\ UNCHANGED <<stored, reads, whole, flagged, outcome, cache, checks>>

StreamEnds(r) ==
  /\ At(r, "write") /\ text[r] = r
  /\ whole' = whole \cup {r}
  /\ Goto(r, "verify")
  /\ UNCHANGED <<stored, reads, text, flagged, event, outcome, cache, checks>>

(* The model fails: an error event if the 200 is already on the wire.      *)
WriteFails(r) ==
  /\ At(r, "write") /\ ~Cached(r)
  /\ IF r \in Streaming THEN Emit(r, "error") ELSE UNCHANGED event
  /\ Decide(r, "failed")
  /\ Goto(r, "end")
  /\ UNCHANGED <<stored, reads, writing, cache, checks>>

Checked(r, ok) == [text |-> text[r], question |-> QuestionOf[r], ok |-> ok]

(* Faulty: only a freshly written answer is checked. *)
VerifyFresh(r) ==
  /\ At(r, "verify")
  /\ \E ok \in {v \in BOOLEAN : Checked(r, ~v) \notin checks} :
       /\ checks' = IF Cached(r) THEN checks ELSE checks \cup {Checked(r, ok)}
       /\ flagged' = IF ok \/ Cached(r) THEN flagged ELSE flagged \cup {r}
  /\ Goto(r, IF Cached(r) THEN "reply" ELSE "remember")
  /\ UNCHANGED <<stored, reads, text, whole, event, outcome, cache>>

(* verify_answer reads the text, the passages and the question: the same   *)
(* three always come out the same.  A stream sends the result when there   *)
(* was something to check.                                                 *)
Verify(r) ==
  /\ At(r, "verify")
  /\ \E ok \in {v \in BOOLEAN : Checked(r, ~v) \notin checks} :
       /\ checks' = checks \cup {Checked(r, ok)}
       /\ flagged' = IF ok THEN flagged ELSE flagged \cup {r}
       /\ \/ r \in Streaming /\ Emit(r, IF ok THEN "passed" ELSE "blocked")
          \/ (r \notin Streaming \/ ok) /\ UNCHANGED event
  /\ Goto(r, IF Cached(r) THEN "reply" ELSE "remember")
  /\ UNCHANGED <<stored, reads, text, whole, outcome, cache>>

AfterRemember(r) == Goto(r, IF At(r, "orphan") THEN "end" ELSE "reply")

(* remember_answer: LPUSH and LTRIM in one transaction.                    *)
Store(r) ==
  /\ pc[r] \in {"remember", "orphan"}
  /\ r \notin flagged
  /\ cache' = [cache EXCEPT ![cache_bucket(r)] =
       SubSeq(<<[question |-> QuestionOf[r], text |-> text[r]]>> \o @, 1,
              IF Len(@) < MaxEntries THEN Len(@) + 1 ELSE MaxEntries)]
  /\ AfterRemember(r)
  /\ UNCHANGED <<stored, reads, writing, event, outcome, checks>>

(* The answer is flagged, or Redis did not answer.                         *)
NotStored(r) ==
  /\ pc[r] \in {"remember", "orphan"}
  /\ AfterRemember(r)
  /\ UNCHANGED <<stored, reads, Outside>>

(* The reply, or the stream's done.                                        *)
Reply(r) ==
  /\ At(r, "reply")
  /\ IF r \in Streaming THEN Emit(r, IF outcome[r] = "refused" THEN "refused" ELSE "done")
     ELSE UNCHANGED event
  /\ IF outcome[r] = "refused" THEN UNCHANGED outcome
     ELSE Decide(r, IF r \in flagged THEN "withheld" ELSE "answered")
  /\ Goto(r, "end")
  /\ UNCHANGED <<stored, reads, writing, cache, checks>>

-----------------------------------------------------------------------------
(* Faulty: the task that stores an answer is cancelled with its stream,    *)
(* and a text that was being sent is remembered as it is. *)
LeaveStoringThePart(r) ==
  /\ r \in Streaming /\ pc[r] \in {"write", "verify", "remember", "reply"}
  /\ Decide(r, "left")
  /\ Goto(r, IF pc[r] \in {"write", "remember"} /\ text[r] = r THEN "orphan" ELSE "end")
  /\ UNCHANGED <<stored, reads, writing, event, cache, checks>>

(* The reader disconnects; a store that has begun is shielded and goes on. *)
Leave(r) ==
  /\ r \in Streaming /\ pc[r] \in {"write", "verify", "remember", "reply"}
  /\ Decide(r, "left")
  /\ Goto(r, IF At(r, "remember") THEN "orphan" ELSE "end")
  /\ UNCHANGED <<stored, reads, writing, event, cache, checks>>

(* Before the reply begins: a model or database error, or no connection in *)
(* time.  The session is closed.                                           *)
Fail(r) ==
  /\ pc[r] \in {"retrieve", "gates", "sources", "check"}
  /\ Decide(r, "failed")
  /\ Release(r)
  /\ Goto(r, "end")
  /\ UNCHANGED <<stored, passages, listed, writing, event, cache, checks>>

(* ingest_pdf replaces the stored copy in one transaction.                 *)
Replace ==
  /\ stored + 1 \in Copies
  /\ stored' = stored + 1
  /\ UNCHANGED <<pc, reads, Outside>>

Prepare(r) ==
  \/ Retrieve(r) \/ PassGates(r) \/ FailGates(r) \/ ReadSources(r)
  \/ PassCheck(r) \/ FailCheck(r)

Step(r) ==
  \/ Prepare(r)
  \/ Hit(r) \/ Miss(r) \/ Meta(r) \/ Chat(r) \/ Token(r) \/ StreamEnds(r)
  \/ Verify(r) \/ Store(r) \/ NotStored(r) \/ Reply(r)

Next ==
  \/ \E r \in Requests : Step(r) \/ WriteFails(r) \/ Leave(r) \/ Fail(r)
  \/ Replace

Spec == Init /\ [][Next]_vars

(* Model calls, statements and Redis calls end: each has a timeout, and a  *)
(* stream of tokens (all alike here) stops.                                *)
FairSpec ==
  Spec /\ \A r \in Requests : WF_vars(Step(r))

-----------------------------------------------------------------------------
(* "A flagged answer ... is not handed to anyone else", "a cut-off one     *)
(* never gets here" (generation.py:467-468, router.py:312-313): every text *)
(* in the cache was written to its end and passed the check for the        *)
(* question it is stored under, from the passages of its bucket, which     *)
(* never holds more than ANSWER_CACHE_MAX_ENTRIES.                         *)
OnlySoundTextIsShared ==
  \A b \in Passages : \A k \in DOMAIN cache[b] :
    LET e == cache[b][k]
    IN /\ k <= MaxEntries
       /\ e.text \in whole
       /\ [text |-> e.text, question |-> e.question, ok |-> TRUE] \in checks
       /\ passages[e.text] = b

(* "never a stale hit" (generation.py:418): whoever is given another's     *)
(* text reads the same passages and asks an equivalent question, whatever  *)
(* was replaced in between.                                                *)
ReusedTextFits ==
  \A r \in Requests : Cached(r) =>
    /\ passages[text[r]] = passages[r]
    /\ Guard[QuestionOf[text[r]]] = Guard[QuestionOf[r]]
    /\ Similarity[QuestionOf[r]][QuestionOf[text[r]]] > 0

(* With VERIFY_MODE=block no reader keeps an answer that fails the check   *)
(* for the question it asked: it is withheld, and a stream has said        *)
(* blocked before its done.  "Re-checked on a hit too" (generation.py:523).*)
UncheckedNeverAnswered ==
  \A r \in Requests :
    /\ outcome[r] = "answered" => Checked(r, TRUE) \in checks
    /\ outcome[r] = "withheld" => Checked(r, FALSE) \in checks
    /\ r \in Streaming \cap flagged /\ pc[r] \in {"remember", "reply"} => event[r] = "blocked"

(* "without holding a connection" (generation.py:301-303): nobody waits    *)
(* for a model with a pooled connection in hand.                           *)
ModelsNeverHoldConnections == \A r \in holding : pc[r] \notin Model

(* The stream's events are those router.py:233-252 documents.              *)
Contract == INSTANCE StreamContract WITH Streams <- Streaming
ImplementsStream == Contract!Spec

(* Every request ends, however the cache, the pool and the readers behave. *)
RequestsEnd == \A r \in Requests : <>(pc[r] = "end")

(* "For each document an answer reads, the response says which revision it *)
(* is, when it was stored, and whether a newer revision of the same        *)
(* document is stored or this one is marked superseded"                    *)
(* (revisions.py:5-7): its `sources` list has that document.               *)
SourcesListWhatWasRead ==
  \A r \in Requests : outcome[r] \in {"answered", "withheld"} => r \in listed
=============================================================================

---------------------------- MODULE ChecksProofs ----------------------------
(***************************************************************************)
(* Proofs about four of the components MCChecks runs, each for any value   *)
(* of its constants:                                                       *)
(*   LlmClient  and the CircuitBreaker it calls through: the breaker keeps *)
(*              count of failures and, for a single caller, refines the    *)
(*              breaker its docstring describes, also with the client's    *)
(*              retries and streams; a lost generation is never stacked on; *)
(*              and the pieces of a stream are the answer, trimmed, once;  *)
(*   Access     taking a scope away takes effect within a token's life;    *)
(*   Revisions  the note on a document tells the truth about the library;  *)
(*   Question   an answer passes the check of its figures exactly when     *)
(*              each of them is backed, and a spelling makes no word       *)
(*              unknown.                                                   *)
(***************************************************************************)
EXTENDS LlmClient, Access, Revisions, Question,
        FiniteSetTheorems, SequenceTheorems, WellFoundedInduction, TLAPS

-----------------------------------------------------------------------------
(* The breaker's type invariant, at the start and in every step.           *)
LEMMA InitTypeOK == Init => TypeOK
<1> SUFFICES ASSUME Init PROVE TypeOK
  OBVIOUS
<1>1. up \in BOOLEAN
  BY Zenon DEF Init
<1> QED
  BY <1>1 DEF Init, TypeOK

(* One step for every action of the breaker.                               *)
LEMMA NextTypeOK == TypeOK /\ [Next]_vars => TypeOK'
<1> SUFFICES ASSUME TypeOK, [Next]_vars PROVE TypeOK'
  OBVIOUS
<1> USE BreakerAssumption DEF TypeOK, InFlight, Leave, State, NotOpened
<1>1. ASSUME NEW c \in Callers, Begin(c) PROVE TypeOK'
  BY <1>1 DEF Begin
<1>2. ASSUME NEW c \in Callers, FailFast(c) PROVE TypeOK'
  BY <1>2 DEF FailFast, vars
<1>3. ASSUME NEW c \in Callers, Succeed(c) PROVE TypeOK'
  BY <1>3 DEF Succeed
<1>4. ASSUME NEW c \in Callers, Fail(c) PROVE TypeOK'
  BY <1>4 DEF Fail, RecordFailure
<1>5. ASSUME NEW c \in Callers, Cancel(c) PROVE TypeOK'
  BY <1>5 DEF Cancel
<1>6. CASE Tick
  BY <1>6 DEF Tick
<1>7. CASE GoDown
  <2>1. up' \in BOOLEAN
    BY <1>7, Zenon DEF GoDown
  <2> QED
    BY <1>7, <2>1 DEF GoDown
<1>8. CASE ComeUp
  <2>1. up' \in BOOLEAN
    BY <1>8, Zenon DEF ComeUp
  <2> QED
    BY <1>8, <2>1 DEF ComeUp
<1>9. CASE UNCHANGED vars
  BY <1>9 DEF vars
<1> QED
  BY <1>1, <1>2, <1>3, <1>4, <1>5, <1>6, <1>7, <1>8, <1>9 DEF Next

(* CircuitBreaker is well typed in every behaviour (type invariant).       *)
THEOREM TypeCorrect == Spec => []TypeOK
  BY InitTypeOK, NextTypeOK, PTL DEF Spec

-----------------------------------------------------------------------------
(* A counter at the threshold means an opened circuit, however late the    *)
(* results of concurrent calls arrive.                                     *)
LEMMA NextThreshold == TypeOK /\ ThresholdOpens /\ [Next]_vars => ThresholdOpens'
<1> SUFFICES ASSUME TypeOK, ThresholdOpens, [Next]_vars PROVE ThresholdOpens'
  OBVIOUS
<1> USE BreakerAssumption DEF TypeOK, ThresholdOpens, NotOpened
<1>1. ASSUME NEW c \in Callers, Begin(c) \/ FailFast(c) \/ Cancel(c)
      PROVE  ThresholdOpens'
  BY <1>1 DEF Begin, FailFast, Cancel, vars
<1>2. ASSUME NEW c \in Callers, Succeed(c) PROVE ThresholdOpens'
  BY <1>2 DEF Succeed
<1>3. ASSUME NEW c \in Callers, Fail(c) PROVE ThresholdOpens'
  BY <1>3 DEF Fail, RecordFailure
<1>4. CASE Tick
  BY <1>4 DEF Tick
<1>5. CASE GoDown \/ ComeUp
  BY <1>5 DEF GoDown, ComeUp
<1>6. CASE UNCHANGED vars
  BY <1>6 DEF vars
<1> QED
  BY <1>1, <1>2, <1>3, <1>4, <1>5, <1>6 DEF Next

(* No interleaving leaves it closed at its threshold (ThresholdOpens).     *)
THEOREM ThresholdReached == Spec => []ThresholdOpens
<1>1. Init => ThresholdOpens
  BY BreakerAssumption DEF Init, ThresholdOpens
<1> QED
  BY <1>1, NextThreshold, TypeCorrect, PTL DEF Spec

-----------------------------------------------------------------------------
(***************************************************************************)
(* The counter is bounded by the calls in flight: a call that began while  *)
(* the circuit was closed may still add one failure, and no such call      *)
(* begins while the counter is at the threshold.                           *)
(***************************************************************************)
BegunClosed == {c \in Callers : seen[c] = "closed"}

(* Sets of callers have a cardinality.                                     *)
LEMMA CallersFinite ==
  /\ IsFiniteSet(BegunClosed) /\ Cardinality(BegunClosed) \in Nat
  /\ Cardinality(Callers) \in Nat
  /\ Cardinality(BegunClosed) <= Cardinality(Callers)
  BY BreakerAssumption, FS_Subset, FS_CardinalityType DEF BegunClosed

(* The same facts in the next state.                                       *)
LEMMA CallersFiniteNext ==
  /\ IsFiniteSet(BegunClosed') /\ Cardinality(BegunClosed') \in Nat
  /\ Cardinality(BegunClosed') <= Cardinality(Callers)
  BY BreakerAssumption, FS_Subset, FS_CardinalityType DEF BegunClosed

(* No step takes the failures and the calls in flight past their bound.    *)
LEMMA NextBudget ==
  TypeOK /\ ThresholdOpens /\ FailureBudget /\ [Next]_vars => FailureBudget'
<1> SUFFICES ASSUME TypeOK, ThresholdOpens, FailureBudget, [Next]_vars
             PROVE  FailureBudget'
  OBVIOUS
<1>b. failures + Cardinality(BegunClosed) <= FailureThreshold - 1 + Cardinality(Callers)
  BY DEF FailureBudget, BegunClosed
<1>s. SUFFICES failures' + Cardinality(BegunClosed')
                 <= FailureThreshold - 1 + Cardinality(Callers)
  BY DEF FailureBudget, BegunClosed
<1> USE BreakerAssumption, CallersFinite, CallersFiniteNext DEF TypeOK
<1>1. ASSUME NEW c \in Callers, Begin(c)
      PROVE  failures' + Cardinality(BegunClosed')
               <= FailureThreshold - 1 + Cardinality(Callers)
  <2>1. failures' = failures
    BY <1>1 DEF Begin
  <2>2. CASE openFor = NotOpened
    BY <2>1, <2>2 DEF ThresholdOpens
  <2>3. CASE openFor # NotOpened
    <3>1. BegunClosed' = BegunClosed
      BY <1>1, <2>3 DEF Begin, State, BegunClosed
    <3> QED
      BY <1>b, <2>1, <3>1
  <2> QED
    BY <2>2, <2>3
<1>2. ASSUME NEW c \in Callers, Succeed(c)
      PROVE  failures' + Cardinality(BegunClosed')
               <= FailureThreshold - 1 + Cardinality(Callers)
  BY <1>2 DEF Succeed
<1>3. ASSUME NEW c \in Callers, Fail(c)
      PROVE  failures' + Cardinality(BegunClosed')
               <= FailureThreshold - 1 + Cardinality(Callers)
  <2>1. CASE seen[c] = "half_open"
    <3>1. failures' = failures /\ BegunClosed' = BegunClosed
      BY <1>3, <2>1 DEF Fail, RecordFailure, Leave, BegunClosed
    <3> QED
      BY <1>b, <3>1
  <2>2. CASE seen[c] = "closed"
    <3>1. failures' = failures + 1
      BY <1>3, <2>2 DEF Fail, RecordFailure
    <3>2. c \in BegunClosed /\ BegunClosed' = BegunClosed \ {c}
      BY <1>3, <2>2 DEF Fail, Leave, BegunClosed
    <3>3. Cardinality(BegunClosed') = Cardinality(BegunClosed) - 1
      BY <3>2, FS_RemoveElement
    <3> QED
      BY <1>b, <3>1, <3>3
  <2> QED
    BY <1>3, <2>1, <2>2 DEF Fail, InFlight
<1>4. ASSUME NEW c \in Callers, Cancel(c)
      PROVE  failures' + Cardinality(BegunClosed')
               <= FailureThreshold - 1 + Cardinality(Callers)
  <2>1. failures' = failures /\ BegunClosed' \subseteq BegunClosed
    BY <1>4 DEF Cancel, Leave, BegunClosed
  <2>2. Cardinality(BegunClosed') <= Cardinality(BegunClosed)
    BY <2>1, FS_Subset
  <2> QED
    BY <1>b, <2>1, <2>2
<1>5. CASE UNCHANGED <<failures, seen>>
  <2>1. BegunClosed' = BegunClosed
    BY <1>5 DEF BegunClosed
  <2> QED
    BY <1>b, <1>5, <2>1
<1> QED
  BY <1>1, <1>2, <1>3, <1>4, <1>5 DEF Next, FailFast, Tick, GoDown, ComeUp, vars

(* No interleaving pushes the counter past the threshold by more than the  *)
(* calls that were in flight when it was reached.                          *)
THEOREM BudgetKept == Spec => []FailureBudget
<1>1. Init => FailureBudget
  <2> SUFFICES ASSUME Init PROVE FailureBudget
    OBVIOUS
  <2>1. {c \in Callers : seen[c] = "closed"} = {}
    BY DEF Init
  <2>2. Cardinality({c \in Callers : seen[c] = "closed"}) = 0
    BY <2>1, FS_EmptySet
  <2>3. Cardinality(Callers) \in Nat /\ failures = 0
    BY CallersFinite DEF Init
  <2> QED
    BY <2>2, <2>3, BreakerAssumption DEF FailureBudget
<1>2. Init => ThresholdOpens
  BY BreakerAssumption DEF Init, ThresholdOpens
<1> QED
  BY <1>1, <1>2, NextBudget, NextThreshold, TypeCorrect, PTL DEF Spec

-----------------------------------------------------------------------------
(***************************************************************************)
(* With a single caller nothing else runs during its call, so the state it *)
(* read is still the breaker's state when its result comes in.             *)
(***************************************************************************)
SeenIsCurrent == \A c \in Callers : seen[c] # "idle" => seen[c] = State

(* The step rests on the type invariant alone.                             *)
LEMMA NextSeen ==
  ASSUME NEW d, Callers = {d}, TypeOK, SeenIsCurrent, [Next]_vars
  PROVE  SeenIsCurrent'
<1> USE BreakerAssumption DEF TypeOK, SeenIsCurrent, State, NotOpened, InFlight, Leave
<1>1. ASSUME NEW c \in Callers, Begin(c) PROVE SeenIsCurrent'
  BY <1>1 DEF Begin
<1>2. ASSUME NEW c \in Callers, Succeed(c) \/ Fail(c) \/ Cancel(c) PROVE SeenIsCurrent'
  BY <1>2 DEF Succeed, Fail, Cancel
<1>3. CASE Tick
  BY <1>3 DEF Tick
<1>4. CASE GoDown \/ ComeUp
  BY <1>4 DEF GoDown, ComeUp
<1>5. CASE UNCHANGED vars
  BY <1>5 DEF vars
<1> QED
  BY <1>1, <1>2, <1>3, <1>4, <1>5 DEF Next, FailFast

(* A step of the code is a step of the docstring's breaker, or changes     *)
(* nothing it has a name for.                                              *)
LEMMA StepRefines ==
  ASSUME TypeOK, SeenIsCurrent, [Next]_vars
  PROVE  [Contract!Next]_(Contract!vars)
<1> USE BreakerAssumption DEF TypeOK, SeenIsCurrent, State, NotOpened, Contract!vars
<1>1. ASSUME NEW c \in Callers, Begin(c) \/ Cancel(c) PROVE UNCHANGED Contract!vars
  BY <1>1 DEF Begin, Cancel
<1>2. ASSUME NEW c \in Callers, Succeed(c) PROVE Contract!Next
  <2>1. Contract!Success
    BY <1>2 DEF Succeed, InFlight, Contract!Success
  <2> QED
    BY <2>1 DEF Contract!Next
<1>3. ASSUME NEW c \in Callers, Fail(c) PROVE Contract!Next
  <2>1. CASE seen[c] = "half_open"
    <3>1. Contract!ProbeFailed
      BY <1>3, <2>1 DEF Fail, RecordFailure, InFlight, Contract!ProbeFailed
    <3> QED
      BY <3>1 DEF Contract!Next
  <2>2. CASE seen[c] = "closed"
    <3>1. Contract!FailureWhileClosed
      BY <1>3, <2>2 DEF Fail, RecordFailure, InFlight, Contract!FailureWhileClosed
    <3> QED
      BY <3>1 DEF Contract!Next
  <2> QED
    BY <1>3, <2>1, <2>2 DEF Fail, InFlight
<1>4. CASE Tick
  <2>1. CASE openFor + 1 >= RecoveryTicks
    <3>1. Contract!CoolDown
      BY <1>4, <2>1 DEF Tick, Contract!CoolDown
    <3> QED
      BY <3>1 DEF Contract!Next
  <2>2. CASE ~(openFor + 1 >= RecoveryTicks)
    BY <1>4, <2>2 DEF Tick
  <2> QED
    BY <2>1, <2>2
<1>5. CASE GoDown \/ ComeUp \/ UNCHANGED vars
  BY <1>5 DEF GoDown, ComeUp, vars
<1> QED
  BY <1>1, <1>2, <1>3, <1>4, <1>5 DEF Next, FailFast, vars

(* A breaker used by one call at a time is the breaker of its docstring:   *)
(* N consecutive failures open it, one probe closes or re-opens it.        *)
THEOREM SequentialContract ==
  ASSUME NEW d, Callers = {d}
  PROVE  Spec => ImplementsContract
<1>1. Init => TypeOK /\ SeenIsCurrent /\ Contract!Init
  BY InitTypeOK DEF Init, SeenIsCurrent, Contract!Init, State
<1>2. TypeOK /\ SeenIsCurrent /\ [Next]_vars => (TypeOK /\ SeenIsCurrent)'
  BY NextTypeOK, NextSeen
<1>3. TypeOK /\ SeenIsCurrent /\ [Next]_vars => [Contract!Next]_(Contract!vars)
  BY StepRefines
<1> QED
  BY <1>1, <1>2, <1>3, PTL DEF Spec, ImplementsContract, Contract!Spec

-----------------------------------------------------------------------------
(* A task keeps its fields.                                                *)
Fields == {"job", "phase", "attempt", "generations", "turned", "fed", "pending", "sent", "end"}
Shape == DOMAIN task = Callers /\ \A c \in Callers : DOMAIN task[c] = Fields

(* While the outcome of a chat is open, only attempts that the API turned  *)
(* away may have generated: one that was lost ends the call.  Ollama's     *)
(* "busy" is never tried again.                                            *)
Generated(t) ==
  t.job \in {"chat", "stream"} =>
    /\ t.generations \in Nat /\ t.turned \in Nat
    /\ t.generations <= 1 + t.turned
    /\ t.phase \in {"trying", "sleeping"} => t.generations <= t.turned
    /\ provider = "ollama" => t.turned = 0

NotYet == \A c \in Callers : Generated(task[c])

(* No call has been made.                                                  *)
LEMMA InitNotYet == ClientInit => Shape /\ NotYet
  BY DEF ClientInit, Shape, Fields, NoTask, NotYet, Generated

(* What a task becomes is all that a step of it changes.                   *)
LEMMA StepOfTask ==
  ASSUME Shape, NEW c \in Callers, NEW u, Becomes(c, u), DOMAIN u = Fields
  PROVE  /\ Shape'
         /\ task'[c] = u
         /\ \A e \in Callers \ {c} : task'[e] = task[e]
BY DEF Shape, Becomes

(* What each step makes of a task, field by field.                         *)
LEMMA CallMakes ==
  ASSUME NEW c \in Callers, NEW job, Call(c, job) \/ Refuse(c, job)
  PROVE  \E u : /\ Becomes(c, u)
                /\ DOMAIN u = Fields /\ u.generations = 0 /\ u.turned = 0
                /\ u.fed = <<>> /\ u.sent = <<>> /\ u.pending = <<>>
                /\ \/ u.phase = "trying" /\ u.end = "none"
                   \/ u.phase = "idle" /\ u.end = "error"
<1>1. PICK u : /\ Becomes(c, u)
               /\ \/ u = [NoTask EXCEPT !.job = job, !.phase = "trying", !.attempt = 1]
                  \/ u = [NoTask EXCEPT !.job = job, !.end = "error"]
  BY Zenon DEF Call, Refuse
<1> QED
  BY <1>1 DEF NoTask, Fields

(* A failed attempt is tried again, or is the failure of the call.         *)
LEMMA FailureMakes ==
  ASSUME NEW c \in Callers, NEW why, AttemptFails(c, why),
         NEW t, t = task[c], DOMAIN t = Fields
  PROVE  /\ t.phase = "trying"
         /\ \E u : \E made \in MayGenerate(why) :
              /\ Becomes(c, u)
              /\ DOMAIN u = Fields /\ u.job = t.job
              /\ u.generations = t.generations + made
              /\ u.fed = t.fed /\ u.sent = t.sent /\ u.pending = t.pending
              /\ \/ /\ why \in Retryable(t.job)
                    /\ u.phase = "sleeping" /\ u.end = t.end
                    /\ u.turned = IF why = "busy" THEN t.turned + 1 ELSE t.turned
                 \/ u.phase = "idle" /\ u.end = "error" /\ u.turned = t.turned
<1>1. t.phase = "trying"
  BY DEF AttemptFails, IsAt
<1>2. CASE why \in Retryable(t.job) /\ t.attempt < MaxRetries
  <2>1. PICK made \in MayGenerate(why) :
          Becomes(c, [t EXCEPT !.phase = "sleeping", !.generations = @ + made,
                               !.turned = IF why = "busy" THEN @ + 1 ELSE @])
    BY <1>2 DEF AttemptFails
  <2>2. PICK u : u = [t EXCEPT !.phase = "sleeping", !.generations = @ + made,
                               !.turned = IF why = "busy" THEN @ + 1 ELSE @]
    OBVIOUS
  <2>3. /\ DOMAIN u = Fields /\ u.job = t.job
        /\ u.generations = t.generations + made
        /\ u.fed = t.fed /\ u.sent = t.sent /\ u.pending = t.pending
        /\ u.phase = "sleeping" /\ u.end = t.end
        /\ u.turned = IF why = "busy" THEN t.turned + 1 ELSE t.turned
    BY <2>2 DEF Fields
  <2> QED
    BY <1>1, <1>2, <2>1, <2>2, <2>3
<1>3. CASE ~(why \in Retryable(t.job) /\ t.attempt < MaxRetries)
  <2>1. PICK made \in MayGenerate(why) :
          Becomes(c, [t EXCEPT !.phase = "idle", !.generations = @ + made, !.end = "error"])
    BY <1>3 DEF AttemptFails
  <2>2. PICK u : u = [t EXCEPT !.phase = "idle", !.generations = @ + made, !.end = "error"]
    OBVIOUS
  <2>3. /\ DOMAIN u = Fields /\ u.job = t.job
        /\ u.generations = t.generations + made
        /\ u.fed = t.fed /\ u.sent = t.sent /\ u.pending = t.pending
        /\ u.phase = "idle" /\ u.end = "error" /\ u.turned = t.turned
    BY <2>2 DEF Fields
  <2> QED
    BY <1>1, <2>1, <2>2, <2>3
<1> QED
  BY <1>2, <1>3

(* A whole response ends the call, an open one begins a stream.            *)
LEMMA ResponseMakes ==
  ASSUME NEW c \in Callers, NEW end, Answered(c, end) \/ Opened(c),
         NEW t, t = task[c], DOMAIN t = Fields
  PROVE  /\ t.phase = "trying"
         /\ \E u :
              /\ Becomes(c, u)
              /\ DOMAIN u = Fields /\ u.job = t.job
              /\ u.generations = t.generations + 1 /\ u.turned = t.turned
              /\ u.fed = t.fed /\ u.sent = t.sent /\ u.pending = t.pending
              /\ \/ u.phase = "streaming" /\ u.end = t.end
                 \/ u.phase = "idle" /\ u.job # "stream"
<1>1. t.phase = "trying"
  BY DEF Answered, Opened, IsAt
<1>2. PICK u :
        /\ Becomes(c, u)
        /\ \/ u = [t EXCEPT !.phase = "idle", !.generations = @ + 1, !.end = end] /\ t.job # "stream"
           \/ u = [t EXCEPT !.phase = "streaming", !.generations = @ + 1]
  BY Zenon DEF Answered, Opened
<1>3. /\ DOMAIN u = Fields /\ u.job = t.job
      /\ u.generations = t.generations + 1 /\ u.turned = t.turned
      /\ u.fed = t.fed /\ u.sent = t.sent /\ u.pending = t.pending
      /\ \/ u.phase = "streaming" /\ u.end = t.end
         \/ u.phase = "idle" /\ u.job # "stream"
  BY <1>2 DEF Fields
<1> QED
  BY <1>1, <1>2, <1>3

(* The sleep is over.                                                      *)
LEMMA WakeMakes ==
  ASSUME NEW c \in Callers, Wake(c), NEW t, t = task[c], DOMAIN t = Fields
  PROVE  /\ t.phase = "sleeping"
         /\ \E u :
              /\ Becomes(c, u)
              /\ DOMAIN u = Fields /\ u.job = t.job
              /\ u.generations = t.generations /\ u.turned = t.turned
              /\ u.fed = t.fed /\ u.sent = t.sent /\ u.pending = t.pending
              /\ u.phase = "trying" /\ u.end = t.end
<1>1. t.phase = "sleeping"
  BY DEF Wake, IsAt
<1>2. PICK u : Becomes(c, u) /\ u = [t EXCEPT !.phase = "trying", !.attempt = @ + 1]
  BY DEF Wake
<1>3. /\ DOMAIN u = Fields /\ u.job = t.job
      /\ u.generations = t.generations /\ u.turned = t.turned
      /\ u.fed = t.fed /\ u.sent = t.sent /\ u.pending = t.pending
      /\ u.phase = "trying" /\ u.end = t.end
  BY <1>2 DEF Fields
<1> QED
  BY <1>1, <1>2, <1>3

(* A piece comes in.                                                       *)
WithPiece(t, piece, u) ==
  /\ DOMAIN u = Fields /\ u.job = t.job
  /\ u.generations = t.generations /\ u.turned = t.turned
  /\ u.fed = t.fed \o piece /\ u.sent = t.sent \o Feed(t, piece).body
  /\ u.pending = Feed(t, piece).pending
  /\ u.phase = t.phase /\ u.end = t.end

LEMMA PieceMakes ==
  ASSUME NEW c \in Callers, NEW piece, Piece(c, piece), NEW t, t = task[c], DOMAIN t = Fields
  PROVE  t.phase = "streaming" /\ \E u : Becomes(c, u) /\ WithPiece(t, piece, u)
<1>1. t.phase = "streaming"
  BY DEF Piece, IsAt
<1>2. PICK fed : fed = Feed(t, piece)
  OBVIOUS
<1>3. PICK u :
        Becomes(c, u) /\ u = [t EXCEPT !.fed = @ \o piece, !.pending = fed.pending,
                                       !.sent = @ \o fed.body]
  BY <1>2, Zenon DEF Piece
<1>4. /\ DOMAIN u = Fields /\ u.job = t.job
      /\ u.generations = t.generations /\ u.turned = t.turned
      /\ u.fed = t.fed \o piece /\ u.sent = t.sent \o fed.body
      /\ u.pending = fed.pending
      /\ u.phase = t.phase /\ u.end = t.end
  BY <1>3 DEF Fields
<1> QED
  BY <1>1, <1>2, <1>3, <1>4 DEF WithPiece

(* A stream comes to its regular end, with its note.                       *)
Note(t, cut) == CASE ~cut -> <<>> [] cut /\ t.sent = <<>> -> <<"note">> [] OTHER -> <<"_", "note">>
WithEnd(t, cut, u) ==
  /\ DOMAIN u = Fields /\ u.job = t.job
  /\ u.generations = t.generations /\ u.turned = t.turned
  /\ u.fed = t.fed /\ u.sent = t.sent \o Note(t, cut)
  /\ u.phase = "idle" /\ u.end = IF cut THEN "cut" ELSE "ok"

LEMMA EndMakes ==
  ASSUME NEW c \in Callers, NEW cut \in BOOLEAN, StreamEnds(c, cut),
         NEW t, t = task[c], DOMAIN t = Fields
  PROVE  t.phase = "streaming" /\ \E u : Becomes(c, u) /\ WithEnd(t, cut, u)
<1>1. t.phase = "streaming"
  BY DEF StreamEnds, IsAt
<1>2. PICK note : note = Note(t, cut)
  OBVIOUS
<1>3. PICK end : end = IF cut THEN "cut" ELSE "ok"
  OBVIOUS
<1>4. PICK u :
        Becomes(c, u) /\ u = [t EXCEPT !.phase = "idle", !.sent = @ \o note, !.end = end]
  BY <1>2, <1>3, Zenon DEF StreamEnds, Note
<1>5. /\ DOMAIN u = Fields /\ u.job = t.job
      /\ u.generations = t.generations /\ u.turned = t.turned
      /\ u.fed = t.fed /\ u.sent = t.sent \o note
      /\ u.phase = "idle" /\ u.end = end
  BY <1>4 DEF Fields
<1> QED
  BY <1>1, <1>2, <1>3, <1>4, <1>5 DEF WithEnd

(* A stream breaks, or its reader hangs up.                                *)
LEMMA BreakMakes ==
  ASSUME NEW c \in Callers, StreamBreaks(c) \/ Hangup(c), NEW t, t = task[c], DOMAIN t = Fields
  PROVE  /\ t.phase # "idle"
         /\ \E u :
              /\ Becomes(c, u)
              /\ DOMAIN u = Fields /\ u.job = t.job
              /\ \/ u.generations = t.generations
                 \/ u.generations = t.generations + 0
                 \/ t.phase = "trying" /\ u.generations = t.generations + 1
              /\ u.turned = t.turned
              /\ u.fed = t.fed /\ u.sent = t.sent /\ u.pending = t.pending
              /\ u.phase = "idle" /\ u.end = "error"
<1>1. t.phase # "idle"
  BY DEF StreamBreaks, Hangup, IsAt
<1>2. CASE StreamBreaks(c)
  <2>1. PICK u : Becomes(c, u) /\ u = [t EXCEPT !.phase = "idle", !.end = "error"]
    BY <1>2 DEF StreamBreaks
  <2>2. /\ DOMAIN u = Fields /\ u.job = t.job
        /\ u.generations = t.generations /\ u.turned = t.turned
        /\ u.fed = t.fed /\ u.sent = t.sent /\ u.pending = t.pending
        /\ u.phase = "idle" /\ u.end = "error"
    BY <2>1 DEF Fields
  <2> QED
    BY <1>1, <2>1, <2>2
<1>3. CASE Hangup(c)
  <2>1. PICK made \in IF t.phase = "trying" THEN {0, 1} ELSE {0} :
          Becomes(c, [t EXCEPT !.phase = "idle", !.generations = @ + made, !.end = "error"])
    BY <1>3 DEF Hangup, IsAt
  <2>2. PICK u : u = [t EXCEPT !.phase = "idle", !.generations = @ + made, !.end = "error"]
    OBVIOUS
  <2>3. /\ DOMAIN u = Fields /\ u.job = t.job
        /\ u.generations = t.generations + made /\ u.turned = t.turned
        /\ u.fed = t.fed /\ u.sent = t.sent /\ u.pending = t.pending
        /\ u.phase = "idle" /\ u.end = "error"
    BY <2>2 DEF Fields
  <2>4. made = 0 \/ (t.phase = "trying" /\ made = 1)
    BY <2>1
  <2> QED
    BY <1>1, <2>1, <2>2, <2>3, <2>4
<1> QED
  BY <1>2, <1>3

(* The step of a task keeps the count of every task.                       *)
LEMMA CountKept ==
  ASSUME Shape, NotYet, NEW c \in Callers, NEW u, Becomes(c, u), DOMAIN u = Fields,
         provider' = provider, Generated(u)
  PROVE  (Shape /\ NotYet)'
<1>1. /\ Shape'
      /\ task'[c] = u
      /\ \A e \in Callers \ {c} : task'[e] = task[e]
  BY StepOfTask
<1>2. \A e \in Callers : Generated(task'[e])
  BY <1>1 DEF NotYet
<1> QED
  BY <1>1, <1>2 DEF NotYet, Generated

(* One step for every action of ClientNext.                                *)
LEMMA NextNotYet == Shape /\ NotYet /\ [ClientNext]_clientVars => (Shape /\ NotYet)'
<1> SUFFICES ASSUME Shape, NotYet, [ClientNext]_clientVars PROVE (Shape /\ NotYet)'
  OBVIOUS
<1>0. ASSUME NEW c \in Callers
      PROVE  \E t : t = task[c] /\ DOMAIN t = Fields /\ Generated(t)
  BY DEF Shape, NotYet
<1>1. ASSUME NEW c \in Callers, NEW job \in {"embed", "chat", "stream"},
             Call(c, job) \/ Refuse(c, job)
      PROVE  (Shape /\ NotYet)'
  <2>1. PICK u : Becomes(c, u) /\ DOMAIN u = Fields /\ u.generations = 0 /\ u.turned = 0
    BY <1>1, CallMakes
  <2>2. provider' = provider
    BY <1>1 DEF Call, Refuse
  <2>3. Generated(u)
    BY <2>1 DEF Generated
  <2> QED
    BY <2>1, <2>2, <2>3, CountKept
<1>2. ASSUME NEW c \in Callers, NEW why \in Failures, AttemptFails(c, why)
      PROVE  (Shape /\ NotYet)'
  <2>1. PICK t : t = task[c] /\ DOMAIN t = Fields /\ Generated(t)
    BY <1>0
  <2>2. provider' = provider
    BY <1>2 DEF AttemptFails
  <2>3. t.phase = "trying"
    BY <1>2, <2>1, FailureMakes
  <2>u. PICK u : \E made \in MayGenerate(why) :
          /\ Becomes(c, u)
          /\ DOMAIN u = Fields /\ u.job = t.job
          /\ u.generations = t.generations + made
          /\ u.fed = t.fed /\ u.sent = t.sent /\ u.pending = t.pending
          /\ \/ /\ why \in Retryable(t.job)
                /\ u.phase = "sleeping" /\ u.end = t.end
                /\ u.turned = IF why = "busy" THEN t.turned + 1 ELSE t.turned
             \/ u.phase = "idle" /\ u.end = "error" /\ u.turned = t.turned
    BY <1>2, <2>1, FailureMakes, SMTT(30)
  <2>4. PICK made \in MayGenerate(why) :
          /\ Becomes(c, u)
          /\ DOMAIN u = Fields /\ u.job = t.job
          /\ u.generations = t.generations + made
          /\ \/ /\ why \in Retryable(t.job)
                /\ u.phase = "sleeping"
                /\ u.turned = IF why = "busy" THEN t.turned + 1 ELSE t.turned
             \/ u.phase = "idle" /\ u.turned = t.turned
    BY <2>u
  <2>5. made \in {0, 1} /\ (why = "refused" => made = 0)
    BY <2>4 DEF MayGenerate
  <2>6. t.job \in {"chat", "stream"} /\ why \in Retryable(t.job) =>
          why = "refused" \/ (why = "busy" /\ provider = "anthropic")
    BY DEF Retryable
  <2>7. Generated(u)
    BY <2>1, <2>2, <2>3, <2>4, <2>5, <2>6 DEF Generated
  <2> QED
    BY <2>2, <2>4, <2>7, CountKept
<1>3. ASSUME NEW c \in Callers, NEW end \in {"ok", "error"}, Answered(c, end) \/ Opened(c)
      PROVE  (Shape /\ NotYet)'
  <2>1. PICK t : t = task[c] /\ DOMAIN t = Fields /\ Generated(t)
    BY <1>0
  <2>2. t.phase = "trying" /\ provider' = provider
    BY <1>3, <2>1, ResponseMakes DEF Answered, Opened
  <2>3. PICK u : /\ Becomes(c, u)
                 /\ DOMAIN u = Fields /\ u.job = t.job
                 /\ u.generations = t.generations + 1 /\ u.turned = t.turned
                 /\ u.phase \in {"streaming", "idle"}
    BY <1>3, <2>1, ResponseMakes
  <2>4. Generated(u)
    BY <2>1, <2>2, <2>3 DEF Generated
  <2> QED
    BY <2>2, <2>3, <2>4, CountKept
<1>4. ASSUME NEW c \in Callers, Wake(c) PROVE (Shape /\ NotYet)'
  <2>1. PICK t : t = task[c] /\ DOMAIN t = Fields /\ Generated(t)
    BY <1>0
  <2>2. t.phase = "sleeping" /\ provider' = provider
    BY <1>4, <2>1, WakeMakes DEF Wake
  <2>3. PICK u : /\ Becomes(c, u)
                 /\ DOMAIN u = Fields /\ u.job = t.job
                 /\ u.generations = t.generations /\ u.turned = t.turned
    BY <1>4, <2>1, WakeMakes
  <2>4. Generated(u)
    BY <2>1, <2>2, <2>3 DEF Generated
  <2> QED
    BY <2>2, <2>3, <2>4, CountKept
<1>5. ASSUME NEW c \in Callers,
             \/ \E piece \in Pieces : Piece(c, piece)
             \/ \E cut \in BOOLEAN : StreamEnds(c, cut)
      PROVE  (Shape /\ NotYet)'
  <2>1. PICK t : t = task[c] /\ DOMAIN t = Fields /\ Generated(t)
    BY <1>0
  <2>2. provider' = provider
    BY <1>5 DEF Piece, StreamEnds
  <2>3. PICK u : /\ Becomes(c, u)
                 /\ \/ \E piece : WithPiece(t, piece, u) /\ t.phase = "streaming"
                    \/ \E cut : WithEnd(t, cut, u)
    BY <1>5, <2>1, PieceMakes, EndMakes
  <2>4. /\ DOMAIN u = Fields /\ u.job = t.job
        /\ u.generations = t.generations /\ u.turned = t.turned
        /\ u.phase \in {"streaming", "idle"}
    BY <2>3 DEF WithPiece, WithEnd
  <2>5. Generated(u)
    BY <2>1, <2>2, <2>4 DEF Generated
  <2> QED
    BY <2>2, <2>3, <2>4, <2>5, CountKept
<1>6. ASSUME NEW c \in Callers, StreamBreaks(c) \/ Hangup(c) PROVE (Shape /\ NotYet)'
  <2>1. PICK t : t = task[c] /\ DOMAIN t = Fields /\ Generated(t)
    BY <1>0
  <2>2. provider' = provider
    BY <1>6 DEF StreamBreaks, Hangup
  <2>3. PICK u : /\ Becomes(c, u)
                 /\ DOMAIN u = Fields /\ u.job = t.job
                 /\ \/ u.generations = t.generations
                    \/ u.generations = t.generations + 0
                    \/ t.phase = "trying" /\ u.generations = t.generations + 1
                 /\ u.turned = t.turned /\ u.phase = "idle"
    BY <1>6, <2>1, BreakMakes
  <2>4. Generated(u)
    BY <2>1, <2>2, <2>3 DEF Generated
  <2> QED
    BY <2>2, <2>3, <2>4, CountKept
<1>7. CASE ServiceChanges \/ UNCHANGED clientVars
  BY <1>7 DEF ServiceChanges, clientVars, Shape, NotYet, Generated
<1> QED
  BY <1>1, <1>2, <1>3, <1>4, <1>5, <1>6, <1>7 DEF ClientNext

(* One chat or stream has Ollama generate at most once, and the Anthropic  *)
(* model once more for each attempt its API turned away, with any number   *)
(* of attempts (property NoStackedGeneration).                             *)
THEOREM NeverStacked == ClientSpec => []NoStackedGeneration
<1>1. NotYet => NoStackedGeneration
  BY DEF NotYet, Generated, NoStackedGeneration
<1> QED
  BY <1>1, InitNotYet, NextNotYet, PTL DEF ClientSpec

-----------------------------------------------------------------------------
(* All the client does to the breaker is what the breaker does; between    *)
(* two attempts only the service it meets is another.                      *)
LEMMA ClientStep ==
  [ClientNext]_clientVars =>
    \/ [Next]_vars
    \/ UNCHANGED <<failures, openFor, seen, up>> /\ \E c \in Callers : Wake(c)
<1> SUFFICES ASSUME [ClientNext]_clientVars
             PROVE  \/ [Next]_vars
                    \/ UNCHANGED <<failures, openFor, seen, up>> /\ \E c \in Callers : Wake(c)
  OBVIOUS
<1>1. ASSUME NEW c \in Callers, NEW job \in {"embed", "chat", "stream"},
             Call(c, job) \/ Refuse(c, job)
      PROVE  Next
  BY <1>1 DEF Call, Refuse, Next
<1>2. ASSUME NEW c \in Callers, NEW why \in Failures, AttemptFails(c, why)
      PROVE  [Next]_vars
  BY <1>2 DEF AttemptFails, Next
<1>3. ASSUME NEW c \in Callers, NEW end \in {"ok", "error"}, Answered(c, end) \/ Opened(c)
      PROVE  Next
  BY <1>3 DEF Answered, Opened, Next
<1>4. ASSUME NEW c \in Callers,
             \/ \E piece \in Pieces : Piece(c, piece)
             \/ \E cut \in BOOLEAN : StreamEnds(c, cut)
             \/ StreamBreaks(c)
      PROVE  UNCHANGED vars
  BY <1>4 DEF Piece, StreamEnds, StreamBreaks
<1>5. ASSUME NEW c \in Callers, Hangup(c) PROVE [Next]_vars
  BY <1>5 DEF Hangup, Next
<1>6. ASSUME NEW c \in Callers, Wake(c) PROVE UNCHANGED <<failures, openFor, seen, up>>
  BY <1>6 DEF Wake
<1>7. CASE ServiceChanges \/ UNCHANGED clientVars
  BY <1>7 DEF ServiceChanges, Next, clientVars
<1> QED
  BY <1>1, <1>2, <1>3, <1>4, <1>5, <1>6, <1>7 DEF ClientNext

(* For one caller at a time the client, with its retries and streams, uses *)
(* the breaker as the docstring describes it (property ImplementsContract).*)
THEOREM ClientKeepsTheContract ==
  ASSUME NEW d, Callers = {d}
  PROVE  ClientSpec => ImplementsContract
<1>1. ClientInit => TypeOK /\ SeenIsCurrent /\ Contract!Init
  BY InitTypeOK DEF ClientInit, Init, SeenIsCurrent, Contract!Init, State
<1>2. TypeOK /\ SeenIsCurrent /\ [ClientNext]_clientVars => (TypeOK /\ SeenIsCurrent)'
  <2>1. ASSUME NEW c \in Callers, Wake(c), TypeOK, SeenIsCurrent,
               UNCHANGED <<failures, openFor, seen, up>>
        PROVE  (TypeOK /\ SeenIsCurrent)'
    BY <2>1 DEF Wake, TypeOK, SeenIsCurrent, State
  <2> QED
    BY <2>1, ClientStep, NextTypeOK, NextSeen
<1>3. TypeOK /\ SeenIsCurrent /\ [ClientNext]_clientVars => [Contract!Next]_(Contract!vars)
  <2>1. UNCHANGED <<failures, openFor, seen, up>> => UNCHANGED Contract!vars
    BY DEF Contract!vars, State
  <2> QED
    BY <2>1, ClientStep, StepRefines
<1> QED
  BY <1>1, <1>2, <1>3, PTL DEF ClientSpec, ImplementsContract, Contract!Spec

-----------------------------------------------------------------------------
(* A set of natural numbers has a least element, which is what Min         *)
(* chooses.                                                                *)
LEMMA Least ==
  ASSUME NEW T \in SUBSET Nat, T # {}
  PROVE  Min(T) \in T /\ \A m \in T : Min(T) <= m
<1> DEFINE Below == {p \in Nat \X Nat : p[1] < p[2]}
<1>1. IsWellFoundedOn(Below, Nat)
  BY NatLessThanWellFounded DEF OpToRel
<1> HIDE DEF Below
<1>2. PICK n \in T : \A m \in T : <<m, n>> \notin Below
  BY <1>1, WFMin
<1>3. ASSUME NEW m \in T PROVE n <= m
  <2>1. m \in Nat /\ n \in Nat
    OBVIOUS
  <2>2. ~ m < n
    BY <1>2, <2>1 DEF Below
  <2> QED
    BY <2>1, <2>2
<1> QED
  BY <1>3 DEF Min

(* A set of numbers up to n has a greatest element, which is what Max      *)
(* chooses.                                                                *)
LEMMA Greatest ==
  ASSUME NEW n \in Nat, NEW T \in SUBSET (0..n), T # {}
  PROVE  Max(T) \in T /\ \A m \in T : m <= Max(T)
<1> DEFINE U == {n - m : m \in T}
<1>1. U # {} /\ \A u \in U : u \in Nat
  <2>1. PICK m \in T : TRUE
    OBVIOUS
  <2>2. n - m \in U
    BY <2>1
  <2> QED
    BY <2>2
<1>2. PICK u \in U : \A v \in U : u <= v
  BY <1>1, Least
<1>3. PICK m \in T : u = n - m
  OBVIOUS
<1>4. \A k \in T : n - k \in U
  OBVIOUS
<1>5. \A k \in T : k <= m
  BY <1>2, <1>3, <1>4
<1> QED
  BY <1>5 DEF Max

(* A sequence cut behind its n-th element.                                 *)
LEMMA CutInTwo ==
  ASSUME NEW S, NEW s \in Seq(S), NEW n \in 0..Len(s)
  PROVE  /\ s = SubSeq(s, 1, n) \o SubSeq(s, n + 1, Len(s))
         /\ SubSeq(s, 1, n) \in Seq(S) /\ Len(SubSeq(s, 1, n)) = n
         /\ \A i \in 1..n : SubSeq(s, 1, n)[i] = s[i]
         /\ SubSeq(s, n + 1, Len(s)) \in Seq(S)
         /\ Len(SubSeq(s, n + 1, Len(s))) = Len(s) - n
         /\ \A i \in 1..Len(s) - n : SubSeq(s, n + 1, Len(s))[i] = s[n + i]
<1>1. Len(s) \in Nat /\ n \in Nat /\ n <= Len(s) /\ \A i \in 1..Len(s) : s[i] \in S
  BY LenProperties, ElementOfSeq
<1>2. /\ SubSeq(s, 1, n) \in Seq(S) /\ Len(SubSeq(s, 1, n)) = n
      /\ \A i \in 1..n : SubSeq(s, 1, n)[i] = s[i]
  <2>1. \A i \in 1..n : s[i] \in S
    BY <1>1
  <2>2. 1 \in Int /\ n \in Int
    BY <1>1
  <2> QED
    BY <1>1, <2>1, <2>2, SubSeqProperties
<1>3. /\ SubSeq(s, n + 1, Len(s)) \in Seq(S)
      /\ Len(SubSeq(s, n + 1, Len(s))) = Len(s) - n
      /\ \A i \in 1..Len(s) - n : SubSeq(s, n + 1, Len(s))[i] = s[n + i]
  <2>1. \A i \in n + 1..Len(s) : s[i] \in S
    BY <1>1
  <2>2. n + 1 \in Int /\ Len(s) \in Int
    BY <1>1
  <2>3. /\ SubSeq(s, n + 1, Len(s)) \in Seq(S)
        /\ Len(SubSeq(s, n + 1, Len(s))) = IF n + 1 <= Len(s) THEN Len(s) - (n + 1) + 1 ELSE 0
        /\ \A i \in 1..Len(s) - (n + 1) + 1 : SubSeq(s, n + 1, Len(s))[i] = s[(n + 1) + i - 1]
    BY <2>1, <2>2, SubSeqProperties
  <2>4. \A i \in 1..Len(s) - n : i \in 1..Len(s) - (n + 1) + 1 /\ (n + 1) + i - 1 = n + i
    BY <1>1
  <2> QED
    BY <1>1, <2>3, <2>4
<1>4. s = SubSeq(s, 1, n) \o SubSeq(s, n + 1, Len(s))
  <2>1. SubSeq(s, 1, Len(s)) = s
    BY SubSeqFull
  <2>2. 1 \in 1..Len(s) + 1 /\ n \in 1 - 1..Len(s) /\ Len(s) \in n..Len(s)
    BY <1>1
  <2> QED
    BY <2>1, <2>2, ConcatAdjacentSubSeq
<1> QED
  BY <1>2, <1>3, <1>4

(* The two parts of a concatenation are where they were put.               *)
LEMMA PartsOfJoin ==
  ASSUME NEW S, NEW s \in Seq(S), NEW t \in Seq(S)
  PROVE  /\ SubSeq(s \o t, 1, Len(s)) = s
         /\ SubSeq(s \o t, Len(s) + 1, Len(s \o t)) = t
<1> DEFINE u == s \o t
<1>1. /\ u \in Seq(S) /\ Len(u) = Len(s) + Len(t)
      /\ Len(s) \in Nat /\ Len(t) \in Nat
      /\ \A i \in 1..Len(s) + Len(t) : u[i] = IF i <= Len(s) THEN s[i] ELSE t[i - Len(s)]
  BY ConcatProperties, LenProperties
<1> HIDE DEF u
<1>2. Len(s) \in 0..Len(u) /\ Len(u) - Len(s) = Len(t)
  BY <1>1
<1>3. /\ SubSeq(u, 1, Len(s)) \in Seq(S) /\ Len(SubSeq(u, 1, Len(s))) = Len(s)
      /\ \A i \in 1..Len(s) : SubSeq(u, 1, Len(s))[i] = u[i]
      /\ SubSeq(u, Len(s) + 1, Len(u)) \in Seq(S)
      /\ Len(SubSeq(u, Len(s) + 1, Len(u))) = Len(t)
      /\ \A i \in 1..Len(t) : SubSeq(u, Len(s) + 1, Len(u))[i] = u[Len(s) + i]
  BY <1>1, <1>2, CutInTwo
<1>4. \A i \in 1..Len(s) : u[i] = s[i]
  BY <1>1
<1>5. \A i \in 1..Len(t) : u[Len(s) + i] = t[i]
  <2> SUFFICES ASSUME NEW i \in 1..Len(t) PROVE u[Len(s) + i] = t[i]
    OBVIOUS
  <2>1. Len(s) + i \in 1..Len(s) + Len(t) /\ ~ Len(s) + i <= Len(s) /\ (Len(s) + i) - Len(s) = i
    BY <1>1
  <2> QED
    BY <1>1, <2>1
<1>6. SubSeq(u, 1, Len(s)) = s
  BY <1>3, <1>4, SeqEqual
<1>7. SubSeq(u, Len(s) + 1, Len(u)) = t
  BY <1>3, <1>5, SeqEqual
<1> QED
  BY <1>6, <1>7 DEF u

(* A text, all of it white space, one that white space neither begins nor  *)
(* ends.                                                                   *)
Letters == {"w", "_"}
Texts == Seq(Letters)
Blank(s) == s \in Texts /\ Visible(s) = {}
Tight(s) == s \in Texts /\ (s # <<>> => 1 \in Visible(s) /\ Len(s) \in Visible(s))

(* The positions of a text.                                                *)
LEMMA TextFacts ==
  ASSUME NEW s \in Texts
  PROVE  Len(s) \in Nat /\ Visible(s) \in SUBSET (1..Len(s)) /\ (s # <<>> => Len(s) > 0)
<1>1. Len(s) \in Nat /\ DOMAIN s = 1..Len(s)
  BY LenProperties DEF Texts
<1>2. s # <<>> => Len(s) \in Nat \ {0}
  BY EmptySeq DEF Texts
<1> QED
  BY <1>1, <1>2 DEF Visible

(* Where a part or a join of texts shows something.                        *)
LEMMA VisibleCut ==
  ASSUME NEW s \in Texts, NEW n \in 0..Len(s)
  PROVE  /\ s = SubSeq(s, 1, n) \o SubSeq(s, n + 1, Len(s))
         /\ SubSeq(s, 1, n) \in Texts /\ Len(SubSeq(s, 1, n)) = n
         /\ Visible(SubSeq(s, 1, n)) = Visible(s) \cap 1..n
         /\ SubSeq(s, n + 1, Len(s)) \in Texts /\ Len(SubSeq(s, n + 1, Len(s))) = Len(s) - n
         /\ \A i \in 1..Len(s) - n :
              i \in Visible(SubSeq(s, n + 1, Len(s))) <=> n + i \in Visible(s)
<1> DEFINE a == SubSeq(s, 1, n)
           b == SubSeq(s, n + 1, Len(s))
<1>1. /\ s = a \o b
      /\ a \in Texts /\ Len(a) = n /\ \A i \in 1..n : a[i] = s[i]
      /\ b \in Texts /\ Len(b) = Len(s) - n /\ \A i \in 1..Len(s) - n : b[i] = s[n + i]
  BY CutInTwo DEF Texts
<1>2. DOMAIN a = 1..n /\ DOMAIN b = 1..Len(s) - n /\ DOMAIN s = 1..Len(s) /\ Len(s) \in Nat
  BY <1>1, LenProperties DEF Texts
<1> HIDE DEF a, b
<1>3. n \in Nat /\ n <= Len(s)
  BY <1>2
<1>4. Visible(a) = Visible(s) \cap 1..n
  <2>1. 1..n \subseteq 1..Len(s)
    BY <1>2, <1>3
  <2> QED
    BY <1>1, <1>2, <2>1, Zenon DEF Visible
<1>5. \A i \in 1..Len(s) - n : i \in Visible(b) <=> n + i \in Visible(s)
  <2>1. \A i \in 1..Len(s) - n : n + i \in 1..Len(s)
    BY <1>2, <1>3
  <2> QED
    BY <1>1, <1>2, <2>1, Zenon DEF Visible
<1> QED
  BY <1>1, <1>4, <1>5 DEF a, b

(* What is visible of two texts put together.                              *)
LEMMA VisibleJoin ==
  ASSUME NEW s \in Texts, NEW t \in Texts
  PROVE  /\ s \o t \in Texts /\ Len(s \o t) = Len(s) + Len(t)
         /\ \A i \in 1..Len(s) : i \in Visible(s \o t) <=> i \in Visible(s)
         /\ \A i \in 1..Len(t) : Len(s) + i \in Visible(s \o t) <=> i \in Visible(t)
<1> DEFINE u == s \o t
<1>1. /\ u \in Texts /\ Len(u) = Len(s) + Len(t)
      /\ \A i \in 1..Len(s) + Len(t) : u[i] = IF i <= Len(s) THEN s[i] ELSE t[i - Len(s)]
  BY ConcatProperties DEF Texts
<1>2. /\ DOMAIN u = 1..Len(u) /\ DOMAIN s = 1..Len(s) /\ DOMAIN t = 1..Len(t)
      /\ Len(s) \in Nat /\ Len(t) \in Nat
  BY <1>1, LenProperties DEF Texts
<1> HIDE DEF u
<1>3. \A i \in 1..Len(s) : i \in 1..Len(u) /\ u[i] = s[i]
  BY <1>1, <1>2
<1>4. \A i \in 1..Len(t) : Len(s) + i \in 1..Len(u) /\ u[Len(s) + i] = t[i]
  <2> SUFFICES ASSUME NEW i \in 1..Len(t) PROVE Len(s) + i \in 1..Len(u) /\ u[Len(s) + i] = t[i]
    OBVIOUS
  <2>1. /\ Len(s) + i \in 1..Len(s) + Len(t)
        /\ ~ Len(s) + i <= Len(s) /\ (Len(s) + i) - Len(s) = i
    BY <1>2
  <2> QED
    BY <1>1, <2>1
<1>5. \A i \in 1..Len(s) : i \in Visible(u) <=> i \in Visible(s)
  BY <1>2, <1>3, Zenon DEF Visible
<1>6. \A i \in 1..Len(t) : Len(s) + i \in Visible(u) <=> i \in Visible(t)
  BY <1>2, <1>4, Zenon DEF Visible
<1> QED
  BY <1>1, <1>5, <1>6 DEF u

(* Of white space nothing is left.                                         *)
LEMMA NothingVisible ==
  ASSUME NEW s, Visible(s) = {}
  PROVE  LStrip(s) = <<>> /\ RStrip(s) = <<>> /\ Strip(s) = <<>>
BY DEF LStrip, RStrip, Strip, Visible

(* What str.strip takes away at either end.                                *)
LEMMA RStripOf ==
  ASSUME NEW s \in Texts, NEW n \in Visible(s), \A i \in Visible(s) : i <= n
  PROVE  RStrip(s) = SubSeq(s, 1, n)
<1>1. Visible(s) \subseteq Int
  BY TextFacts
<1>2. Max(Visible(s)) = n
  <2> DEFINE V == Visible(s)
  <2>1. V \subseteq Int /\ n \in V /\ \A y \in V : n >= y
    BY <1>1
  <2> HIDE DEF V
  <2>2. \A m \in V : (\A y \in V : m >= y) => m = n
    BY <2>1
  <2> QED
    BY <2>1, <2>2 DEF Max, V
<1> QED
  BY <1>2 DEF RStrip

(* From the first letter on.                                               *)
LEMMA LStripOf ==
  ASSUME NEW s \in Texts, NEW n \in Visible(s), \A i \in Visible(s) : n <= i
  PROVE  LStrip(s) = SubSeq(s, n, Len(s))
<1>1. Visible(s) \subseteq Int
  BY TextFacts
<1>2. Min(Visible(s)) = n
  <2> DEFINE V == Visible(s)
  <2>1. V \subseteq Int /\ n \in V /\ \A y \in V : n <= y
    BY <1>1
  <2> HIDE DEF V
  <2>2. \A m \in V : (\A y \in V : m <= y) => m = n
    BY <2>1
  <2> QED
    BY <2>1, <2>2 DEF Min, V
<1> QED
  BY <1>2 DEF LStrip

(* rstrip() takes white space away, up to a last letter.                   *)
LEMMA RStripSplits ==
  ASSUME NEW s \in Texts
  PROVE  /\ RStrip(s) \in Texts
         /\ RStrip(s) # <<>> => Len(RStrip(s)) \in Visible(RStrip(s))
         /\ Blank(SubSeq(s, Len(RStrip(s)) + 1, Len(s)))
         /\ s = RStrip(s) \o SubSeq(s, Len(RStrip(s)) + 1, Len(s))
<1>1. CASE Visible(s) = {}
  <2>1. RStrip(s) = <<>>
    BY <1>1, NothingVisible
  <2>2. SubSeq(s, 1, Len(s)) = s /\ <<>> \o s = s
    BY SubSeqFull, ConcatEmptySeq DEF Texts
  <2>3. <<>> \in Texts /\ Len(<<>>) = 0
    BY EmptySeq DEF Texts
  <2>4. Len(RStrip(s)) + 1 = 1
    BY <2>1, <2>3
  <2> QED
    BY <1>1, <2>1, <2>2, <2>3, <2>4 DEF Blank
<1>2. CASE Visible(s) # {}
  <2>0. Len(s) \in Nat /\ Visible(s) \in SUBSET (1..Len(s))
    BY TextFacts
  <2>1. PICK n \in Visible(s) : \A i \in Visible(s) : i <= n
    <3>1. Visible(s) \in SUBSET (0..Len(s))
      BY <2>0
    <3> QED
      BY <1>2, <2>0, <3>1, Greatest
  <2>2. RStrip(s) = SubSeq(s, 1, n)
    BY <2>1, RStripOf
  <2>3. n \in 1..Len(s) /\ n \in 0..Len(s)
    BY <2>0, <2>1
  <2> DEFINE body == SubSeq(s, 1, n)
             held == SubSeq(s, n + 1, Len(s))
  <2>4. /\ s = body \o held
        /\ body \in Texts /\ Len(body) = n /\ Visible(body) = Visible(s) \cap 1..n
        /\ held \in Texts /\ Len(held) = Len(s) - n
        /\ \A i \in 1..Len(s) - n : i \in Visible(held) <=> n + i \in Visible(s)
    BY <2>3, VisibleCut
  <2>5. n \in Visible(body)
    BY <2>3, <2>4
  <2>6. Visible(held) = {}
    <3>1. Visible(held) \subseteq 1..Len(s) - n
      BY <2>4, TextFacts
    <3>2. \A i \in 1..Len(s) - n : ~ n + i <= n
      BY <2>3
    <3> QED
      BY <2>1, <2>4, <3>1, <3>2
  <2> QED
    BY <2>2, <2>4, <2>5, <2>6 DEF Blank
<1> QED
  BY <1>1, <1>2

(* lstrip() of a text that ends in a letter takes white space away, and    *)
(* what it leaves is tight.                                                *)
LEMMA LStripSplits ==
  ASSUME NEW s \in Texts, s # <<>> => Len(s) \in Visible(s)
  PROVE  /\ Tight(LStrip(s))
         /\ \E l : Blank(l) /\ s = l \o LStrip(s)
<1>1. CASE s = <<>>
  <2>1. LStrip(s) = <<>> /\ Visible(s) = {}
    BY <1>1 DEF LStrip, Visible
  <2>2. <<>> \o <<>> = <<>> /\ <<>> \in Texts
    BY EmptySeq, ConcatEmptySeq DEF Texts
  <2> QED
    BY <1>1, <2>1, <2>2 DEF Tight, Blank
<1>2. CASE s # <<>>
  <2>0. Len(s) \in Nat /\ Visible(s) \in SUBSET (1..Len(s)) /\ Visible(s) \in SUBSET Nat
    BY TextFacts
  <2>1. PICK n \in Visible(s) : \A i \in Visible(s) : n <= i
    BY <1>2, <2>0, Least
  <2>2. LStrip(s) = SubSeq(s, n, Len(s))
    BY <2>1, LStripOf
  <2> DEFINE m == n - 1
  <2>3. n \in 1..Len(s) /\ m \in 0..Len(s) /\ m + 1 = n
    BY <2>0, <2>1
  <2> HIDE DEF m
  <2> DEFINE l == SubSeq(s, 1, m)
             body == SubSeq(s, m + 1, Len(s))
  <2>4. /\ s = l \o body
        /\ l \in Texts /\ Len(l) = m /\ Visible(l) = Visible(s) \cap 1..m
        /\ body \in Texts /\ Len(body) = Len(s) - m
        /\ \A i \in 1..Len(s) - m : i \in Visible(body) <=> m + i \in Visible(s)
    BY <2>3, VisibleCut
  <2>5. Visible(l) = {}
    <3>1. \A i \in 1..m : ~ n <= i
      BY <2>3
    <3> QED
      BY <2>1, <2>4, <3>1
  <2>6. 1 \in Visible(body) /\ Len(body) \in Visible(body)
    <3>1. /\ 1 \in 1..Len(s) - m /\ Len(body) \in 1..Len(s) - m
          /\ m + 1 = n /\ m + Len(body) = Len(s)
      BY <2>0, <2>3, <2>4
    <3> QED
      BY <1>2, <2>1, <2>4, <3>1
  <2>7. LStrip(s) = body
    BY <2>2, <2>3
  <2> QED
    BY <2>4, <2>5, <2>6, <2>7 DEF Blank, Tight
<1> QED
  BY <1>1, <1>2

(* Stripping takes exactly the white space around a tight text.            *)
LEMMA StripOf ==
  ASSUME NEW l, NEW b, NEW r, Blank(l), Blank(r), Tight(b)
  PROVE  Strip(l \o b \o r) = b
<1> DEFINE t == l \o b
           s == t \o r
<1>1. l \in Texts /\ r \in Texts /\ b \in Texts
  BY DEF Tight, Blank
<1>2. /\ t \in Texts /\ Len(t) = Len(l) + Len(b)
      /\ \A i \in 1..Len(l) : i \notin Visible(t)
      /\ \A i \in 1..Len(b) : Len(l) + i \in Visible(t) <=> i \in Visible(b)
  BY <1>1, VisibleJoin DEF Blank
<1> HIDE DEF t
<1>3. /\ s \in Texts /\ Len(s) = Len(t) + Len(r)
      /\ \A i \in 1..Len(t) : i \in Visible(s) <=> i \in Visible(t)
      /\ \A i \in 1..Len(r) : Len(t) + i \notin Visible(s)
  BY <1>1, <1>2, VisibleJoin DEF Blank
<1>4. SubSeq(s, 1, Len(t)) = t /\ SubSeq(t, Len(l) + 1, Len(t)) = b
  BY <1>1, <1>2, PartsOfJoin DEF Texts, t
<1> HIDE DEF s
<1>5. /\ Len(l) \in Nat /\ Len(b) \in Nat /\ Len(r) \in Nat /\ Len(t) \in Nat /\ Len(s) \in Nat
      /\ Visible(s) \in SUBSET (1..Len(s)) /\ Visible(t) \in SUBSET (1..Len(t))
      /\ Visible(b) \in SUBSET (1..Len(b))
  BY <1>1, <1>2, <1>3, TextFacts
<1>6. Visible(s) = Visible(t)
  <2>1. \A i \in 1..Len(s) : i \notin 1..Len(t) => i - Len(t) \in 1..Len(r) /\ Len(t) + (i - Len(t)) = i
    BY <1>3, <1>5
  <2>2. 1..Len(t) \subseteq 1..Len(s)
    BY <1>3, <1>5
  <2>3. ASSUME NEW i \in Visible(s) PROVE i \in 1..Len(t)
    <3>1. i \in 1..Len(s)
      BY <1>5
    <3>2. CASE i \notin 1..Len(t)
      BY <1>3, <2>1, <3>1, <3>2
    <3> QED
      BY <3>2
  <2> QED
    BY <1>3, <1>5, <2>3
<1>7. CASE b = <<>>
  <2>1. Len(b) = 0 /\ Visible(s) = {}
    <3>1. Len(b) = 0
      BY <1>7, EmptySeq
    <3>2. \A i \in 1..Len(t) : i \in 1..Len(l)
      BY <1>2, <1>5, <3>1
    <3> QED
      BY <1>2, <1>5, <1>6, <3>1, <3>2
  <2> QED
    BY <1>7, <2>1, NothingVisible DEF s, t
<1>8. CASE b # <<>>
  <2>1. 1 \in Visible(b) /\ Len(b) \in Visible(b)
    BY <1>8 DEF Tight
  <2>2. 1 \in 1..Len(b) /\ Len(b) \in 1..Len(b)
    BY <1>5, <2>1
  <2>3. Len(t) \in Visible(s) /\ \A i \in Visible(s) : i <= Len(t)
    <3>1. Len(l) + Len(b) \in Visible(t)
      BY <1>2, <2>1, <2>2
    <3>2. \A i \in 1..Len(t) : i <= Len(t)
      BY <1>5
    <3> QED
      BY <1>2, <1>5, <1>6, <3>1, <3>2
  <2>4. RStrip(s) = t
    BY <1>3, <1>4, <2>3, RStripOf
  <2>5. Len(l) + 1 \in Visible(t) /\ \A i \in Visible(t) : Len(l) + 1 <= i
    <3>1. \A i \in 1..Len(t) : ~ Len(l) + 1 <= i => i \in 1..Len(l)
      BY <1>5
    <3> QED
      BY <1>2, <1>5, <2>1, <2>2, <3>1
  <2>6. LStrip(t) = b
    BY <1>2, <1>4, <2>5, LStripOf
  <2> QED
    BY <2>4, <2>6 DEF Strip, s, t
<1> QED
  BY <1>7, <1>8

(* White space after white space.                                          *)
LEMMA BlankJoin == \A a, b : Blank(a) /\ Blank(b) => Blank(a \o b)
<1> SUFFICES ASSUME NEW a, NEW b, Blank(a), Blank(b) PROVE Visible(a \o b) = {} /\ a \o b \in Texts
  BY DEF Blank
<1>1. /\ a \o b \in Texts /\ Len(a \o b) = Len(a) + Len(b)
      /\ \A i \in 1..Len(a) : i \notin Visible(a \o b)
      /\ \A i \in 1..Len(b) : Len(a) + i \notin Visible(a \o b)
  BY VisibleJoin DEF Blank
<1>2. Len(a) \in Nat /\ Len(b) \in Nat /\ Visible(a \o b) \subseteq 1..Len(a \o b)
  BY <1>1, TextFacts DEF Blank
<1>3. ASSUME NEW i \in 1..Len(a \o b) PROVE i \in 1..Len(a) \/ \E j \in 1..Len(b) : i = Len(a) + j
  <2>1. CASE i <= Len(a)
    BY <1>1, <1>2, <2>1
  <2>2. CASE ~ i <= Len(a)
    <3>1. i - Len(a) \in 1..Len(b) /\ i = Len(a) + (i - Len(a))
      BY <1>1, <1>2, <2>2
    <3> QED
      BY <3>1
  <2> QED
    BY <2>1, <2>2
<1> QED
  BY <1>1, <1>2, <1>3

(* A tight text and one that ends in a letter.                             *)
LEMMA TightJoin ==
  ASSUME NEW a, NEW b \in Texts, Tight(a), a # <<>>, b # <<>> => Len(b) \in Visible(b)
  PROVE  Tight(a \o b) /\ a \o b # <<>>
<1>1. a \in Texts /\ Len(a) \in Nat /\ Len(a) > 0 /\ Len(b) \in Nat /\ Visible(b) \in SUBSET (1..Len(b))
  BY TextFacts DEF Tight
<1>2. /\ a \o b \in Texts /\ Len(a \o b) = Len(a) + Len(b)
      /\ \A i \in 1..Len(a) : i \in Visible(a \o b) <=> i \in Visible(a)
      /\ \A i \in 1..Len(b) : Len(a) + i \in Visible(a \o b) <=> i \in Visible(b)
  BY <1>1, VisibleJoin
<1>3. 1 \in Visible(a \o b)
  BY <1>1, <1>2 DEF Tight
<1>4. Len(a \o b) \in Visible(a \o b)
  <2>1. CASE b = <<>>
    <3>1. a \o b = a
      BY <1>1, <2>1, ConcatEmptySeq DEF Texts
    <3> QED
      BY <3>1 DEF Tight
  <2>2. CASE b # <<>>
    BY <1>1, <1>2, <2>2
  <2> QED
    BY <2>1, <2>2
<1>5. a \o b # <<>>
  BY <1>3 DEF Visible
<1> QED
  BY <1>2, <1>3, <1>4, <1>5 DEF Tight

(* Concatenation under a name the provers do not look into.                *)
Join(a, b) == a \o b

(* What is left of it: texts stay texts, in any grouping.                  *)
LEMMA JoinLaws ==
  /\ \A a, b \in Texts : Join(a, b) \in Texts
  /\ \A a, b, c \in Texts : Join(Join(a, b), c) = Join(a, Join(b, c))
<1>1. ASSUME NEW a \in Texts, NEW b \in Texts PROVE a \o b \in Texts
  BY VisibleJoin
<1>2. ASSUME NEW a \in Texts, NEW b \in Texts, NEW c \in Texts
      PROVE  (a \o b) \o c = a \o (b \o c)
  BY ConcatAssociative DEF Texts
<1> QED
  BY <1>1, <1>2 DEF Join

(* The empty text.                                                         *)
LEMMA EmptyText ==
  /\ <<>> \in Texts /\ Blank(<<>>) /\ Tight(<<>>)
  /\ \A s \in Texts : s \o <<>> = s /\ <<>> \o s = s
<1>1. <<>> \in Texts /\ Visible(<<>>) = {}
  BY EmptySeq DEF Texts, Visible
<1>2. \A s \in Texts : s \o <<>> = s /\ <<>> \o s = s
  BY ConcatEmptySeq DEF Texts
<1> QED
  BY <1>1, <1>2 DEF Blank, Tight

(* Four texts in two groupings.                                            *)
LEMMA Regrouped ==
  ASSUME NEW a, NEW b, NEW c, NEW d,
         a \in Texts, b \in Texts, c \in Texts, d \in Texts
  PROVE  Join(a, Join(Join(b, c), d)) = Join(Join(Join(a, b), c), d)
BY JoinLaws

(* The two ways to cut what was fed: before feed(), and after it.          *)
LEMMA Rejoined ==
  ASSUME NEW l, NEW sent, NEW pending, NEW piece, NEW body, NEW held,
         l \in Texts, sent \in Texts, pending \in Texts, piece \in Texts,
         body \in Texts, held \in Texts, Join(pending, piece) = Join(body, held)
  PROVE  Join(Join(Join(l, sent), pending), piece) = Join(Join(l, Join(sent, body)), held)
<1>1. Join(l, sent) \in Texts
  BY JoinLaws
<1>2. Join(Join(Join(l, sent), pending), piece) = Join(Join(l, sent), Join(body, held))
  BY <1>1, JoinLaws
<1>3. Join(Join(l, sent), Join(body, held)) = Join(Join(Join(l, sent), body), held)
  BY <1>1, JoinLaws
<1> QED
  BY <1>2, <1>3, JoinLaws

-----------------------------------------------------------------------------
(* A text that does not end in white space.                                *)
Closed(s) == s # <<>> => Len(s) \in Visible(s)

(* What was fed is white space, what went out, and the white space that is *)
(* held back; nothing is held back before something went out.              *)
Trimmed(fed, sent, pending) ==
  /\ Tight(sent) /\ Blank(pending)
  /\ \E l : Blank(l) /\ fed = l \o sent \o pending
  /\ sent = <<>> => pending = <<>>

(* What went out is what str.strip leaves of what was fed.                 *)
LEMMA TrimmedIsStripped ==
  ASSUME NEW fed, NEW sent, NEW pending, Trimmed(fed, sent, pending)
  PROVE  Strip(fed) = sent
BY StripOf DEF Trimmed

(* A stream that was only opened.                                          *)
LEMMA NothingTrimmed == Trimmed(<<>>, <<>>, <<>>)
<1>1. <<>> \in Texts /\ <<>> \o <<>> = <<>> /\ Visible(<<>>) = {}
  BY EmptySeq, ConcatEmptySeq DEF Texts, Visible
<1> QED
  BY <1>1 DEF Trimmed, Tight, Blank

(* After something went out: the buffered text goes out but for its end.   *)
LEMMA TrimmedOn ==
  ASSUME NEW fed, NEW sent, NEW pending, NEW piece \in Texts,
         Trimmed(fed, sent, pending), sent # <<>>,
         NEW body \in Texts, NEW held, pending \o piece = body \o held,
         Closed(body), Blank(held)
  PROVE  Trimmed(fed \o piece, sent \o body, held)
<1>1. PICK l : Blank(l) /\ fed = l \o sent \o pending
  BY DEF Trimmed
<1>2. sent \in Texts /\ pending \in Texts /\ l \in Texts /\ held \in Texts
  BY <1>1 DEF Trimmed, Tight, Blank
<1>3. Tight(sent \o body) /\ sent \o body # <<>>
  BY TightJoin DEF Trimmed, Closed
<1>4. fed \o piece = l \o (sent \o body) \o held
  <2>1. Join(pending, piece) = Join(body, held)
    BY DEF Join
  <2>2. Join(Join(Join(l, sent), pending), piece) = Join(Join(l, Join(sent, body)), held)
    BY <1>2, <2>1, Rejoined
  <2> QED
    BY <1>1, <2>2 DEF Join
<1> QED
  BY <1>1, <1>3, <1>4 DEF Trimmed

(* Before: the beginning goes too, and nothing is kept of white space.     *)
LEMMA TrimmedFirst ==
  ASSUME NEW l, NEW body \in Texts, NEW out, NEW held, Blank(l), Blank(held),
         Closed(body),
         out = LStrip(body)
  PROVE  Trimmed(l \o (body \o held), out, IF body = <<>> THEN <<>> ELSE held)
<1>1. Tight(out) /\ \E k : Blank(k) /\ body = k \o out
  BY LStripSplits DEF Closed
<1>2. PICK k : Blank(k) /\ body = k \o out
  BY <1>1
<1>3. l \in Texts /\ k \in Texts /\ held \in Texts /\ out \in Texts
  BY <1>1, <1>2 DEF Blank, Tight
<1>4. CASE body = <<>>
  <2>1. out = <<>>
    BY <1>4, NothingVisible DEF Visible
  <2>2. body \o held = held
    BY <1>3, <1>4, EmptyText
  <2>3. Blank(l \o held)
    BY BlankJoin
  <2>4. l \o held = (l \o held) \o <<>> \o <<>>
    <3>1. l \o held \in Texts
      BY <2>3 DEF Blank
    <3> QED
      BY <3>1, EmptyText
  <2> QED
    BY <1>4, <2>1, <2>2, <2>3, <2>4, EmptyText DEF Trimmed
<1>5. CASE body # <<>>
  <2>1. out # <<>>
    <3>1. SUFFICES ASSUME out = <<>> PROVE FALSE
      OBVIOUS
    <3>2. body = k
      BY <1>2, <1>3, <3>1, EmptyText
    <3> QED
      BY <1>2, <1>5, <3>2 DEF Blank, Closed
  <2>2. Blank(l \o k)
    BY <1>2, BlankJoin
  <2>3. l \o ((k \o out) \o held) = (l \o k) \o out \o held
    <3>1. Join(l, Join(Join(k, out), held)) = Join(Join(Join(l, k), out), held)
      BY <1>3, Regrouped
    <3> QED
      BY <3>1 DEF Join
  <2> QED
    BY <1>1, <1>2, <1>5, <2>1, <2>2, <2>3 DEF Trimmed
<1> QED
  BY <1>4, <1>5

(* feed() keeps the three parts apart, whatever the piece.                 *)
LEMMA FeedTrims ==
  ASSUME NEW t, NEW piece \in Texts, Trimmed(t.fed, t.sent, t.pending)
  PROVE  Trimmed(t.fed \o piece, t.sent \o Feed(t, piece).body, Feed(t, piece).pending)
<1> DEFINE buffered == t.pending \o piece
<1>1. t.sent \in Texts /\ t.pending \in Texts
  BY DEF Trimmed, Tight, Blank
<1>2. buffered \in Texts
  BY <1>1, VisibleJoin
<1> HIDE DEF buffered
<1>3. PICK body, held : /\ body = RStrip(buffered)
                        /\ held = SubSeq(buffered, Len(body) + 1, Len(buffered))
  OBVIOUS
<1>4. /\ body \in Texts /\ Closed(body)
      /\ Blank(held) /\ buffered = body \o held
  BY <1>2, <1>3, RStripSplits DEF Closed
<1>5. CASE t.sent # <<>>
  <2>1. Feed(t, piece).body = body /\ Feed(t, piece).pending = held
    BY <1>3, <1>5 DEF Feed, buffered
  <2>2. Trimmed(t.fed \o piece, t.sent \o body, held)
    BY <1>4, <1>5, TrimmedOn DEF buffered
  <2> QED
    BY <2>1, <2>2
<1>6. CASE t.sent = <<>>
  <2>1. PICK out : out = LStrip(body)
    OBVIOUS
  <2>2. /\ Feed(t, piece).body = out
        /\ Feed(t, piece).pending = IF body = <<>> THEN <<>> ELSE held
    BY <1>3, <1>6, <2>1 DEF Feed, buffered
  <2>3. PICK l : Blank(l) /\ t.fed = l \o t.sent \o t.pending
    BY DEF Trimmed
  <2>4. t.fed = l /\ buffered = piece
    <3>1. t.pending = <<>> /\ l \in Texts
      BY <1>6, <2>3 DEF Trimmed, Blank
    <3> QED
      BY <1>6, <2>3, <3>1, EmptyText DEF buffered
  <2>5. Trimmed(l \o (body \o held), out, IF body = <<>> THEN <<>> ELSE held)
    BY <1>4, <2>1, <2>3, TrimmedFirst
  <2>6. t.sent \o out = out
    <3>1. out \in Texts
      BY <2>5 DEF Trimmed, Tight
    <3> QED
      BY <1>6, <3>1, EmptyText
  <2>7. t.fed \o piece = l \o (body \o held)
    BY <1>4, <2>4
  <2> QED
    BY <2>2, <2>5, <2>6, <2>7
<1> QED
  BY <1>5, <1>6

-----------------------------------------------------------------------------
(* A stream that runs has sent what is trimmed so far and said nothing of  *)
(* its end; one that is over fits what StreamedOnce says of it.            *)
Told(t) ==
  /\ t.end \in {"ok", "cut"} =>
       \/ t.sent = WholeText(t.fed, t.end = "cut")
       \/ t.sent = <<"note">> /\ Strip(t.fed) = <<>> /\ t.end = "cut"
  /\ t.end \notin {"ok", "cut"} => t.sent = Strip(t.fed)

Streamed(t) ==
  t.job = "stream" =>
    /\ t.phase # "idle" => t.end = "none" /\ Trimmed(t.fed, t.sent, t.pending)
    /\ t.phase = "idle" => Told(t)

AllStreamed == \A c \in Callers : Streamed(task[c])

(* A stream that has not ended as it should shows the text so far.         *)
LEMMA NotOverYet ==
  ASSUME NEW t, t.end \notin {"ok", "cut"}, Trimmed(t.fed, t.sent, t.pending)
  PROVE  Told(t)
BY TrimmedIsStripped DEF Told

(* Nothing has been streamed.                                              *)
LEMMA InitStreamed == ClientInit => AllStreamed
<1>1. Told(NoTask)
  <2>1. NoTask.fed = <<>> /\ NoTask.sent = <<>> /\ NoTask.pending = <<>> /\ NoTask.end = "none"
    BY DEF NoTask
  <2> QED
    BY <2>1, NothingTrimmed, NotOverYet
<1> QED
  BY <1>1 DEF ClientInit, AllStreamed, Streamed, NoTask

(* One task takes the step, the others are the same.                       *)
LEMMA OthersKeep ==
  ASSUME Shape, AllStreamed, NEW c \in Callers, NEW u, Becomes(c, u), DOMAIN u = Fields,
         Streamed(u)
  PROVE  AllStreamed'
<1>1. task'[c] = u /\ \A e \in Callers \ {c} : task'[e] = task[e]
  BY StepOfTask
<1>2. \A e \in Callers : Streamed(task'[e])
  BY <1>1 DEF AllStreamed
<1> QED
  BY <1>2 DEF AllStreamed

(* The step of a task that has not sent anything that matters: its stream  *)
(* goes on as it was, or ends as one that broke.                           *)
LEMMA StreamIdles ==
  ASSUME Shape, AllStreamed, NEW c \in Callers, NEW t, t = task[c], t.phase # "idle",
         NEW u, Becomes(c, u), DOMAIN u = Fields, u.job = t.job,
         u.fed = t.fed, u.sent = t.sent, u.pending = t.pending,
         IF u.phase = "idle" THEN u.job = "stream" => u.end \notin {"ok", "cut"}
         ELSE u.end = t.end
  PROVE  AllStreamed'
<1>1. Streamed(t)
  BY DEF AllStreamed
<1>2. CASE u.phase = "idle"
  BY <1>1, <1>2, NotOverYet, OthersKeep DEF Streamed
<1>3. CASE u.phase # "idle"
  BY <1>1, <1>3, OthersKeep DEF Streamed
<1> QED
  BY <1>2, <1>3

(* One step for every action of ClientNext.                                *)
LEMMA NextStreamed == Shape /\ AllStreamed /\ [ClientNext]_clientVars => AllStreamed'
<1> SUFFICES ASSUME Shape, AllStreamed, [ClientNext]_clientVars PROVE AllStreamed'
  OBVIOUS
<1>0. ASSUME NEW c \in Callers
      PROVE  \E t : t = task[c] /\ DOMAIN t = Fields /\ Streamed(t)
  BY DEF Shape, AllStreamed
<1>1. ASSUME NEW c \in Callers, NEW job \in {"embed", "chat", "stream"},
             Call(c, job) \/ Refuse(c, job)
      PROVE  AllStreamed'
  <2>1. PICK u : /\ Becomes(c, u) /\ DOMAIN u = Fields
                 /\ u.fed = <<>> /\ u.sent = <<>> /\ u.pending = <<>>
                 /\ \/ u.phase = "trying" /\ u.end = "none"
                    \/ u.phase = "idle" /\ u.end = "error"
    BY <1>1, CallMakes
  <2>2. Streamed(u)
    BY <2>1, NothingTrimmed, NotOverYet DEF Streamed
  <2> QED
    BY <2>1, <2>2, OthersKeep
<1>2. ASSUME NEW c \in Callers, NEW why \in Failures, AttemptFails(c, why)
      PROVE  AllStreamed'
  <2>1. PICK t : t = task[c] /\ DOMAIN t = Fields
    BY <1>0
  <2>2. t.phase # "idle"
    BY <1>2, <2>1, FailureMakes
  <2>3. PICK u : /\ Becomes(c, u) /\ DOMAIN u = Fields /\ u.job = t.job
                 /\ u.fed = t.fed /\ u.sent = t.sent /\ u.pending = t.pending
                 /\ \/ u.phase = "sleeping" /\ u.end = t.end
                    \/ u.phase = "idle" /\ u.end = "error"
    BY <1>2, <2>1, FailureMakes
  <2> QED
    BY <2>1, <2>2, <2>3, StreamIdles
<1>3. ASSUME NEW c \in Callers, NEW end \in {"ok", "error"}, Answered(c, end) \/ Opened(c)
      PROVE  AllStreamed'
  <2>1. PICK t : t = task[c] /\ DOMAIN t = Fields
    BY <1>0
  <2>2. t.phase # "idle"
    BY <1>3, <2>1, ResponseMakes
  <2>3. PICK u : /\ Becomes(c, u) /\ DOMAIN u = Fields /\ u.job = t.job
                 /\ u.fed = t.fed /\ u.sent = t.sent /\ u.pending = t.pending
                 /\ \/ u.phase = "streaming" /\ u.end = t.end
                    \/ u.phase = "idle" /\ u.job # "stream"
    BY <1>3, <2>1, ResponseMakes
  <2> QED
    BY <2>1, <2>2, <2>3, StreamIdles
<1>4. ASSUME NEW c \in Callers, Wake(c) PROVE AllStreamed'
  <2>1. PICK t : t = task[c] /\ DOMAIN t = Fields
    BY <1>0
  <2>2. t.phase # "idle"
    BY <1>4, <2>1, WakeMakes
  <2>3. PICK u : /\ Becomes(c, u) /\ DOMAIN u = Fields /\ u.job = t.job
                 /\ u.fed = t.fed /\ u.sent = t.sent /\ u.pending = t.pending
                 /\ u.phase = "trying" /\ u.end = t.end
    BY <1>4, <2>1, WakeMakes
  <2> QED
    BY <2>1, <2>2, <2>3, StreamIdles
<1>5. ASSUME NEW c \in Callers, NEW piece \in Pieces, Piece(c, piece) PROVE AllStreamed'
  <2>1. PICK t : t = task[c] /\ DOMAIN t = Fields /\ Streamed(t)
    BY <1>0
  <2>2. t.phase = "streaming" /\ piece \in Texts
    BY <1>5, <2>1, PieceMakes, ClientAssumption DEF Texts, Letters
  <2>3. PICK u : Becomes(c, u) /\ WithPiece(t, piece, u)
    BY <1>5, <2>1, PieceMakes
  <2>4. Streamed(u)
    BY <2>1, <2>2, <2>3, FeedTrims DEF Streamed, WithPiece
  <2> QED
    BY <2>3, <2>4, OthersKeep DEF WithPiece
<1>6. ASSUME NEW c \in Callers, NEW cut \in BOOLEAN, StreamEnds(c, cut) PROVE AllStreamed'
  <2>1. PICK t : t = task[c] /\ DOMAIN t = Fields /\ Streamed(t)
    BY <1>0
  <2>2. t.phase = "streaming"
    BY <1>6, <2>1, EndMakes
  <2>3. PICK u : Becomes(c, u) /\ WithEnd(t, cut, u)
    BY <1>6, <2>1, EndMakes
  <2>4. ASSUME t.job = "stream" PROVE Told(u)
    <3>1. Strip(t.fed) = t.sent
      BY <2>1, <2>2, <2>4, TrimmedIsStripped DEF Streamed
    <3>2. CASE cut /\ t.sent = <<>>
      BY <2>3, <3>1, <3>2 DEF Told, Note, WithEnd
    <3>3. CASE ~(cut /\ t.sent = <<>>)
      BY <2>3, <3>1, <3>3 DEF Told, WholeText, Note, WithEnd
    <3> QED
      BY <3>2, <3>3
  <2>5. Streamed(u)
    BY <2>3, <2>4 DEF Streamed, WithEnd
  <2> QED
    BY <2>3, <2>5, OthersKeep DEF WithEnd
<1>7. ASSUME NEW c \in Callers, StreamBreaks(c) \/ Hangup(c) PROVE AllStreamed'
  <2>1. PICK t : t = task[c] /\ DOMAIN t = Fields
    BY <1>0
  <2>2. t.phase # "idle"
    BY <1>7, <2>1, BreakMakes
  <2>3. PICK u : /\ Becomes(c, u) /\ DOMAIN u = Fields /\ u.job = t.job
                 /\ u.fed = t.fed /\ u.sent = t.sent /\ u.pending = t.pending
                 /\ u.phase = "idle" /\ u.end = "error"
    BY <1>7, <2>1, BreakMakes
  <2> QED
    BY <2>1, <2>2, <2>3, StreamIdles
<1>8. CASE ServiceChanges \/ UNCHANGED clientVars
  BY <1>8 DEF ServiceChanges, clientVars, AllStreamed
<1> QED
  BY <1>1, <1>2, <1>3, <1>4, <1>5, <1>6, <1>7, <1>8 DEF ClientNext

(* What a stream has sent is at any moment a beginning of the answer, and  *)
(* at a regular end the whole of it, for pieces of any length cut anywhere *)
(* (property StreamedOnce).                                                *)
THEOREM StreamIsTheAnswer == ClientSpec => []StreamedOnce
<1>1. AllStreamed => StreamedOnce
  <2> SUFFICES ASSUME AllStreamed, NEW c \in Callers, task[c].job = "stream"
               PROVE  Told(task[c])
    BY DEF StreamedOnce, Told
  <2>1. PICK t : t = task[c]
    OBVIOUS
  <2>2. Streamed(t)
    BY <2>1 DEF AllStreamed
  <2>3. Told(t)
    BY <2>1, <2>2, NotOverYet DEF Streamed
  <2> QED
    BY <2>1, <2>3
<1> QED
  BY <1>1, InitStreamed, NextStreamed, InitNotYet, NextNotYet, PTL DEF ClientSpec

-----------------------------------------------------------------------------
LEMMA ConfiguredIsRight ==
  ASSUME NEW c, c # Absent, c.enabled, NEW id \in DOMAIN c.clients,
         NEW s \in c.clients[id].scopes
  PROVE  <<id, s, c.realm>> \in Rights(c)
  BY DEF Rights

-----------------------------------------------------------------------------
(* Rights in force are recorded as of now and none as of later; a token    *)
(* carries only rights that were in force when it was issued.              *)
ConfigOK == config \in Configs \cup {Absent} /\ clock \in Nat
RightsAreCurrent == \A r \in Rights(config) : r \in DOMAIN allowed /\ allowed[r] = clock
NoneIsLater == \A r \in DOMAIN allowed : allowed[r] \in Nat /\ allowed[r] <= clock
BackedToken(t) ==
  /\ t.iat \in Nat
  /\ t.sub \in ClientIds
  /\ \E ttl \in Ttls : t.exp = t.iat + ttl
  /\ \A s \in t.scopes :
       LET right == <<t.sub, s, t.realm>>
       IN  right \in DOMAIN allowed /\ t.iat <= allowed[right]
TokensAreBacked == \A t \in tokens : BackedToken(t)

AccessInv == ConfigOK /\ RightsAreCurrent /\ NoneIsLater /\ TokensAreBacked

LEMMA InitAccessInv == AccessInit => AccessInv
  BY DEF AccessInit, AccessInv, ConfigOK, RightsAreCurrent, NoneIsLater, TokensAreBacked, Rights

(* The record only moves forward when settings or the clock change.        *)
LEMMA RecordAdvances ==
  ASSUME AccessInv, NEW c, NEW now \in Nat, clock <= now,
         config' = c, clock' = now, allowed' = LastAllowed(c, now), tokens' = tokens
  PROVE  RightsAreCurrent' /\ NoneIsLater' /\ TokensAreBacked'
<1> USE DEF AccessInv, ConfigOK
<1>1. DOMAIN allowed' = DOMAIN allowed \cup Rights(c)
  BY DEF LastAllowed
<1>2. \A r \in DOMAIN allowed' : allowed'[r] = IF r \in Rights(c) THEN now ELSE allowed[r]
  BY DEF LastAllowed
<1>3. RightsAreCurrent'
  <2>1. Rights(config)' = Rights(c)
    BY DEF Rights
  <2> QED
    BY <1>1, <1>2, <2>1 DEF RightsAreCurrent
<1>4. NoneIsLater'
  BY <1>1, <1>2 DEF NoneIsLater
<1>5. \A r \in DOMAIN allowed : r \in DOMAIN allowed' /\ allowed[r] <= allowed'[r]
  BY <1>1, <1>2 DEF NoneIsLater
<1>6. TokensAreBacked'
  <2> SUFFICES ASSUME NEW t \in tokens PROVE BackedToken(t)'
    BY DEF TokensAreBacked
  <2>1. BackedToken(t)
    BY DEF TokensAreBacked
  <2>2. ASSUME NEW s \in t.scopes
        PROVE  <<t.sub, s, t.realm>> \in DOMAIN allowed' /\ t.iat <= allowed'[<<t.sub, s, t.realm>>]
    <3> DEFINE right == <<t.sub, s, t.realm>>
    <3>1. right \in DOMAIN allowed /\ t.iat <= allowed[right] /\ t.iat \in Nat
      BY <2>1 DEF BackedToken
    <3>2. allowed[right] \in Nat /\ allowed[right] <= allowed'[right] /\ allowed'[right] \in Nat
      BY <3>1, <1>4, <1>5 DEF NoneIsLater
    <3> HIDE DEF right
    <3>3. right \in DOMAIN allowed' /\ t.iat <= allowed'[right]
      BY <3>1, <3>2, <1>5
    <3> QED
      BY <3>3 DEF right
  <2> QED
    BY <2>1, <2>2 DEF BackedToken, Ttls
<1> QED
  BY <1>3, <1>4, <1>6

LEMMA NextAccessInv == AccessInv /\ [AccessNext]_accessVars => AccessInv'
<1> SUFFICES ASSUME AccessInv, [AccessNext]_accessVars PROVE AccessInv'
  OBVIOUS
<1> USE AccessAssumption DEF AccessInv, ConfigOK
<1>1. CASE Restart
  <2>1. /\ config' \in Configs \cup {Absent} /\ clock' = clock /\ tokens' = tokens
        /\ allowed' = LastAllowed(config', clock)
    BY <1>1 DEF Restart
  <2>2. PICK c : c = config'
    OBVIOUS
  <2> QED
    BY <2>1, <2>2, RecordAdvances
<1>2. CASE ClockAdvances
  <2>1. /\ clock' \in Nat /\ clock <= clock' /\ config' = config /\ tokens' = tokens
        /\ allowed' = LastAllowed(config, clock')
    BY <1>2 DEF ClockAdvances
  <2>2. PICK c, now : c = config /\ now = clock'
    OBVIOUS
  <2> QED
    BY <2>1, <2>2, RecordAdvances
<1>3. CASE IssueToken
  <2>1. UNCHANGED <<config, clock, allowed>>
    BY <1>3 DEF IssueToken
  <2>2. ASSUME NEW id \in ClientIds, NEW secret, NEW requested,
               config # Absent, config.enabled, verify_client(id, secret),
               Permitted(requested, config.clients[id].scopes)
        PROVE  BackedToken(create_access_token(id, requested))
    <3> DEFINE t == create_access_token(id, requested)
    <3>1. t.iat = clock /\ t.sub = id /\ t.exp = clock + config.ttl /\ t.scopes = requested
          /\ t.realm = config.realm
      BY DEF create_access_token
    <3>2. ASSUME NEW s \in requested
          PROVE  /\ <<id, s, config.realm>> \in DOMAIN allowed
                 /\ clock <= allowed[<<id, s, config.realm>>]
      <4>1. <<id, s, config.realm>> \in Rights(config)
        BY <2>2, ConfiguredIsRight DEF verify_client, Permitted
      <4> QED
        BY <4>1 DEF RightsAreCurrent
    <3>3. config.ttl \in Ttls
      BY <2>2 DEF Ttls
    <3> HIDE DEF t
    <3> QED
      BY <3>1, <3>2, <3>3 DEF BackedToken, t
  <2>3. \A t \in tokens' : BackedToken(t)
    BY <1>3, <2>2 DEF IssueToken, TokensAreBacked
  <2> QED
    BY <2>1, <2>3 DEF RightsAreCurrent, NoneIsLater, TokensAreBacked, BackedToken, Rights
<1>4. CASE CallRoute \/ UNCHANGED accessVars
  BY <1>4 DEF CallRoute, accessVars, RightsAreCurrent, NoneIsLater, TokensAreBacked, BackedToken, Rights
<1> QED
  BY <1>1, <1>2, <1>3, <1>4 DEF AccessNext

LEMMA NextRevocation ==
  AccessInv /\ RevocationTakesEffect /\ [AccessNext]_accessVars => RevocationTakesEffect'
<1> SUFFICES ASSUME AccessInv, RevocationTakesEffect, [AccessNext]_accessVars
             PROVE  RevocationTakesEffect'
  OBVIOUS
<1>1. CASE Restart \/ ClockAdvances \/ IssueToken
  <2>1. reply'.status # 200 \/ reply'.scope = Absent
    BY <1>1 DEF Restart, ClockAdvances, IssueToken, NoReply, Reply
  <2> QED
    BY <2>1 DEF RevocationTakesEffect
<1>2. CASE CallRoute
  <2>1. UNCHANGED <<config, clock, tokens, allowed>>
    BY <1>2 DEF CallRoute
  <2>2. CASE ~config.enabled
    BY <1>2, <2>1, <2>2 DEF CallRoute, Reply, RevocationTakesEffect
  <2>3. CASE reply'.status = 200 /\ config.enabled
    <3>1. PICK t \in tokens, scope \in ALL_SCOPES :
            Accepted(t) /\ scope \in t.scopes /\ reply' = Reply(200, t.sub, scope)
      BY <1>2, <2>3 DEF CallRoute, Reply
    <3>2. BackedToken(t)
      BY DEF AccessInv, TokensAreBacked
    <3> DEFINE right == <<t.sub, scope, config.realm>>
    <3>3. right \in DOMAIN allowed /\ t.iat <= allowed[right]
      BY <3>1, <3>2 DEF BackedToken, Accepted
    <3>4. PICK ttl \in Ttls : t.exp = t.iat + ttl
      BY <3>2 DEF BackedToken
    <3>5. clock - allowed[right] < ttl + LEEWAY_SECONDS
      <4>1. t.exp > clock - LEEWAY_SECONDS /\ LEEWAY_SECONDS = 10
        BY <3>1 DEF Accepted, LEEWAY_SECONDS
      <4>2. t.iat \in Nat /\ ttl \in Nat /\ clock \in Nat /\ allowed[right] \in Nat
        BY <3>2, <3>3, <3>4, AccessAssumption DEF BackedToken, Ttls, AccessInv, ConfigOK, NoneIsLater
      <4> HIDE DEF right
      <4> QED
        BY <3>3, <3>4, <4>1, <4>2
    <3>6. t.sub # "anonymous"
      BY <3>2, AccessAssumption DEF BackedToken
    <3> QED
      BY <2>1, <3>1, <3>3, <3>5, <3>6 DEF Reply, RevocationTakesEffect, Ttls
  <2> QED
    BY <2>2, <2>3 DEF RevocationTakesEffect
<1>3. CASE UNCHANGED accessVars
  BY <1>3 DEF accessVars, RevocationTakesEffect
<1> QED
  BY <1>1, <1>2, <1>3 DEF AccessNext

(* A client is served with a scope only if settings with the present       *)
(* secret gave it that scope within the last lifetime of a token and the   *)
(* leeway (property RevocationTakesEffect).                                *)
THEOREM RevocationIsBounded == AccessSpec => []RevocationTakesEffect
<1>1. AccessInit => RevocationTakesEffect
  BY DEF AccessInit, NoReply, RevocationTakesEffect
<1> QED
  BY <1>1, InitAccessInv, NextAccessInv, NextRevocation, PTL DEF AccessSpec

-----------------------------------------------------------------------------
(* A row is that of a PDF: only its mark may differ.                       *)
RowOf(r, e) ==
  /\ r.pdf = e /\ r.key = Row(e).key /\ r.revision = Row(e).revision /\ r.date = Row(e).date
  /\ r.superseded \in BOOLEAN
  /\ DOMAIN r = {"pdf", "key", "revision", "date", "superseded"}
IsRow(r) == \E e \in Editions : RowOf(r, e)
(* Two sightings of a document agree in what the note is made of.          *)
SameRow(r, s) == r.key = s.key /\ r.revision = s.revision /\ r.date = s.date

(* Ids are given once; what was loaded has not changed since, but for its  *)
(* mark.                                                                   *)
UploadsOK == uploads \in Nat /\ DOMAIN library \subseteq 1..uploads
LibraryOK == \A d \in DOMAIN library : IsRow(library[d])
LoadedOK ==
  /\ DOMAIN loaded \subseteq 1..uploads
  /\ \A d \in DOMAIN loaded : IsRow(loaded[d])
  /\ \A d \in DOMAIN loaded \cap DOMAIN library : SameRow(loaded[d], library[d])
RevisionsInv == UploadsOK /\ LibraryOK /\ LoadedOK

(* A stored PDF has its row.                                               *)
LEMMA NewRow == ASSUME NEW e \in Editions PROVE IsRow(Row(e))
<1>1. PICK p : p = document_revision(e.headers, e.revision, e.title)
  OBVIOUS
<1>2. PICK k : k = IF e.key # None THEN e.key ELSE document_key(p.revision)
  OBVIOUS
<1>3. Row(e) = [pdf |-> e, revision |-> p.revision, date |-> p.issued,
                superseded |-> FALSE, key |-> k]
  BY <1>1, <1>2 DEF Row
<1>4. RowOf(Row(e), e)
  BY <1>3 DEF RowOf
<1> QED
  BY <1>4 DEF IsRow

(* At first no document is stored.                                         *)
LEMMA InitRevisionsInv == RevisionsInit => RevisionsInv
  BY DEF RevisionsInit, RevisionsStart, RevisionsInv, UploadsOK, LibraryOK, LoadedOK

(* A new document has an id nothing loaded has.                            *)
LEMMA UploadKeeps ==
  ASSUME RevisionsInv, Upload PROVE RevisionsInv'
<1>1. PICK e \in Editions :
        library' = [d \in {uploads + 1} \cup {c \in DOMAIN library : library[c].pdf # e} |->
                      IF d = uploads + 1 THEN Row(e) ELSE library[d]]
  BY DEF Upload
<1>2. uploads' = uploads + 1 /\ loaded' = loaded /\ uploads \in Nat
  BY DEF Upload, RevisionsInv, UploadsOK
<1>3. DOMAIN library' = {uploads + 1} \cup {c \in DOMAIN library : library[c].pdf # e}
  BY <1>1
<1>4. \A d \in DOMAIN library' : library'[d] = IF d = uploads + 1 THEN Row(e) ELSE library[d]
  BY <1>1
<1>5. UploadsOK'
  BY <1>2, <1>3 DEF RevisionsInv, UploadsOK
<1>6. LibraryOK'
  <2> SUFFICES ASSUME NEW d \in DOMAIN library' PROVE IsRow(library'[d])
    BY DEF LibraryOK, IsRow, RowOf
  <2>1. CASE d = uploads + 1
    BY <2>1, <1>4, NewRow
  <2>2. CASE d # uploads + 1
    BY <2>2, <1>3, <1>4 DEF RevisionsInv, LibraryOK
  <2> QED
    BY <2>1, <2>2
<1>7. LoadedOK'
  <2>1. DOMAIN loaded \subseteq 1..uploads + 1 /\ uploads + 1 \notin DOMAIN loaded
    BY <1>2 DEF RevisionsInv, LoadedOK
  <2>2. \A d \in DOMAIN loaded : IsRow(loaded[d])
    BY DEF RevisionsInv, LoadedOK
  <2>3. ASSUME NEW d \in DOMAIN loaded \cap DOMAIN library'
        PROVE  SameRow(loaded[d], library'[d])
    <3>1. d \in DOMAIN library /\ library'[d] = library[d]
      BY <1>3, <1>4, <2>1
    <3> QED
      BY <3>1 DEF RevisionsInv, LoadedOK
  <2> QED
    BY <2>1, <2>2, <2>3, <1>2 DEF LoadedOK, IsRow, RowOf, SameRow
<1> QED
  BY <1>5, <1>6, <1>7 DEF RevisionsInv

(* A mark changes nothing else of a row.                                   *)
LEMMA MarkKeeps ==
  ASSUME RevisionsInv, Mark PROVE RevisionsInv'
<1>1. PICK d \in DOMAIN library : library' = [library EXCEPT ![d].superseded = ~@]
  BY DEF Mark
<1>2. uploads' = uploads /\ loaded' = loaded
  BY DEF Mark
<1>3. PICK e \in Editions : RowOf(library[d], e)
  BY DEF RevisionsInv, LibraryOK, IsRow
<1>4. PICK r : r = [library[d] EXCEPT !.superseded = ~@]
  OBVIOUS
<1>5. /\ DOMAIN library' = DOMAIN library
      /\ library'[d] = r
      /\ \A c \in DOMAIN library : c # d => library'[c] = library[c]
  BY <1>1, <1>4
<1>6. RowOf(r, e)
  BY <1>3, <1>4 DEF RowOf
<1>7. SameRow(library[d], r)
  BY <1>3, <1>6 DEF RowOf, SameRow
<1>8. UploadsOK'
  BY <1>2, <1>5 DEF RevisionsInv, UploadsOK
<1>9. LibraryOK'
  <2> SUFFICES ASSUME NEW c \in DOMAIN library' PROVE IsRow(library'[c])
    BY DEF LibraryOK, IsRow, RowOf
  <2>1. IsRow(r)
    BY <1>6 DEF IsRow
  <2>2. c # d => IsRow(library[c])
    BY <1>5 DEF RevisionsInv, LibraryOK
  <2> QED
    BY <2>1, <2>2, <1>5
<1>10. LoadedOK'
  <2>1. ASSUME NEW c \in DOMAIN loaded \cap DOMAIN library'
        PROVE  SameRow(loaded[c], library'[c])
    <3>1. SameRow(loaded[c], library[c])
      BY <1>5 DEF RevisionsInv, LoadedOK
    <3> QED
      BY <3>1, <1>5, <1>7 DEF SameRow
  <2>2. DOMAIN loaded \subseteq 1..uploads /\ \A c \in DOMAIN loaded : IsRow(loaded[c])
    BY DEF RevisionsInv, LoadedOK
  <2> QED
    BY <2>1, <2>2, <1>2 DEF LoadedOK, IsRow, RowOf, SameRow
<1> QED
  BY <1>8, <1>9, <1>10 DEF RevisionsInv

(* What is loaded are rows as they are stored.                             *)
LEMMA LoadKeeps ==
  ASSUME RevisionsInv, LoadSources PROVE RevisionsInv'
<1>1. PICK S \in SUBSET DOMAIN library : loaded' = Restricted(S)
  BY DEF LoadSources
<1>2. library' = library /\ uploads' = uploads
  BY DEF LoadSources
<1>3. DOMAIN loaded' = S /\ \A d \in S : loaded'[d] = library[d]
  BY <1>1 DEF Restricted
<1>4. LoadedOK'
  <2>1. DOMAIN loaded' \subseteq 1..uploads
    BY <1>3 DEF RevisionsInv, UploadsOK
  <2>2. \A d \in DOMAIN loaded' : IsRow(loaded'[d])
    BY <1>3 DEF RevisionsInv, LibraryOK
  <2>3. \A d \in DOMAIN loaded' \cap DOMAIN library : SameRow(loaded'[d], library[d])
    BY <1>3 DEF SameRow
  <2> QED
    BY <2>1, <2>2, <2>3, <1>2 DEF LoadedOK, IsRow, RowOf, SameRow
<1> QED
  BY <1>2, <1>4 DEF RevisionsInv, UploadsOK, LibraryOK, IsRow, RowOf

(* Every step of the library and of the answer keeps the invariant.        *)
LEMMA NextKeepsRevisionsInv == RevisionsInv /\ [RevisionsNext]_revisionVars => RevisionsInv'
<1> SUFFICES ASSUME RevisionsInv, [RevisionsNext]_revisionVars PROVE RevisionsInv'
  OBVIOUS
<1>1. CASE Upload
  BY <1>1, UploadKeeps
<1>2. CASE Mark
  BY <1>2, MarkKeeps
<1>3. CASE LoadSources
  BY <1>3, LoadKeeps
<1>4. CASE FindNewer
  BY <1>4 DEF FindNewer, RevisionsInv, UploadsOK, LibraryOK, LoadedOK, IsRow, RowOf, SameRow
<1>5. CASE UNCHANGED revisionVars
  BY <1>5 DEF revisionVars, RevisionsInv, UploadsOK, LibraryOK, LoadedOK, IsRow, RowOf, SameRow
<1> QED
  BY <1>1, <1>2, <1>3, <1>4, <1>5 DEF RevisionsNext

-----------------------------------------------------------------------------
(* The parts of source_revision, its LETs by name.                         *)
NewerIn(rows, d) == {c \in DOMAIN rows : rows[d].key # None /\ _newer(rows, d, c)}
Before(rows, c, e) == rows[c].date < rows[e].date \/ (rows[c].date = rows[e].date /\ c < e)
NewestOf(rows, S) == {c \in S : ~\E e \in S : Before(rows, c, e)}

(* source_revision is put together from them.                              *)
LEMMA SourceRevisionIs ==
  ASSUME NEW rows, NEW d, NEW newest, newest = NewestOf(rows, NewerIn(rows, d))
  PROVE  source_revision(rows, d) =
           [superseded |-> rows[d].superseded,
            newer |-> IF newest = {} THEN None ELSE CHOOSE c \in newest : TRUE,
            note |-> IF rows[d].superseded THEN "superseded"
                     ELSE IF \E c \in newest : rows[c].revision # None THEN "newer"
                     ELSE "confirm"]
  BY DEF source_revision, NewestOf, NewerIn, Before

(* Among finitely many dated documents one is the newest.                  *)
LEMMA OneIsNewest ==
  ASSUME NEW n \in Nat, NEW S \in SUBSET (1..n), S # {},
         NEW rows, \A c \in S : rows[c].date \in Nat
  PROVE  NewestOf(rows, S) # {}
<1>1. IsFiniteSet(S)
  <2>1. IsFiniteSet(1..n)
    BY FS_Interval
  <2> QED
    BY <2>1, FS_Subset
<1>2. \A c \in S : c \in Nat /\ rows[c].date \in Nat
  OBVIOUS
<1>3. \A c, e, x \in S : Before(rows, c, e) /\ Before(rows, e, x) => Before(rows, c, x)
  <2> TAKE c, e, x \in S
  <2>1. c \in Nat /\ e \in Nat /\ x \in Nat
    BY <1>2
  <2>2. PICK k, l, m \in Nat : k = rows[c].date /\ l = rows[e].date /\ m = rows[x].date
    BY <1>2
  <2> QED
    BY <2>1, <2>2 DEF Before
<1>4. \A e \in S : ~Before(rows, e, e)
  <2> TAKE e \in S
  <2>1. PICK k \in Nat : k = rows[e].date
    BY <1>2
  <2> QED
    BY <1>2, <2>1 DEF Before
<1> DEFINE After(c) == {e \in S : Before(rows, c, e)}
           Counts == {Cardinality(After(c)) : c \in S}
<1>5. \A c \in S : IsFiniteSet(After(c)) /\ Cardinality(After(c)) \in Nat
  BY <1>1, FS_Subset, FS_CardinalityType
<1>6. PICK k \in Counts : \A m \in Counts : k <= m
  <2>1. Counts \in SUBSET Nat /\ Counts # {}
    BY <1>5
  <2> HIDE DEF Counts
  <2> QED
    BY <2>1, Least
<1>7. PICK c \in S : Cardinality(After(c)) = k
  OBVIOUS
<1>8. ASSUME NEW e \in S, Before(rows, c, e) PROVE FALSE
  <2>1. After(e) \subseteq After(c) /\ e \in After(c) /\ e \notin After(e)
    BY <1>8, <1>3, <1>4
  <2>2. Cardinality(After(e)) <= Cardinality(After(c)) /\ Cardinality(After(e)) # Cardinality(After(c))
    BY <1>5, <2>1, FS_Subset
  <2>3. Cardinality(After(e)) \in Counts
    OBVIOUS
  <2>4. Cardinality(After(c)) <= Cardinality(After(e))
    BY <1>6, <1>7, <2>3
  <2> HIDE DEF After
  <2> QED
    BY <1>5, <2>2, <2>4
<1>9. c \in NewestOf(rows, S)
  BY <1>8 DEF NewestOf
<1> QED
  BY <1>9

(* The keys of two rows tell whether they belong to one manual.            *)
LEMMA KeysTell ==
  ASSUME NEW r, NEW s, IsRow(r), IsRow(s)
  PROVE  /\ r.key = s.key <=> Head(r.revision) = Head(s.revision)
         /\ r.key # None /\ r.revision # None /\ r.date \in Nat /\ r.superseded \in BOOLEAN
<1>1. PICK e \in Editions : RowOf(r, e)
  BY DEF IsRow
<1>2. PICK f \in Editions : RowOf(s, f)
  BY DEF IsRow
<1> QED
  BY <1>1, <1>2, RevisionsAssumption DEF RowOf

(* The note on d, from the rows of the documents with the keys of those    *)
(* loaded: rows loaded keep the values they had, which is no difference to *)
(* the note.                                                               *)
LEMMA NoteIsTrue ==
  ASSUME RevisionsInv, NEW d \in DOMAIN loaded,
         NEW same, same = {c \in DOMAIN library :
                             library[c].key \in {loaded[x].key : x \in DOMAIN loaded} \ {None}},
         NEW rows, DOMAIN rows = same \cup {d},
         \A c \in same \cup {d} : rows[c] = IF c \in DOMAIN loaded THEN loaded[c] ELSE library[c]
  PROVE  IsTrue(d, source_revision(rows, d))
<1>1. PICK later : later = NewerIn(rows, d)
  OBVIOUS
<1>2. PICK newest : newest = NewestOf(rows, later)
  OBVIOUS
<1>3. PICK n : n = source_revision(rows, d)
  OBVIOUS
<1>4. n = [superseded |-> rows[d].superseded,
           newer |-> IF newest = {} THEN None ELSE CHOOSE c \in newest : TRUE,
           note |-> IF rows[d].superseded THEN "superseded"
                    ELSE IF \E c \in newest : rows[c].revision # None THEN "newer"
                    ELSE "confirm"]
  BY <1>1, <1>2, <1>3, SourceRevisionIs
<1>5. /\ n.newer = IF newest = {} THEN None ELSE CHOOSE c \in newest : TRUE
      /\ n.note = IF rows[d].superseded THEN "superseded"
                  ELSE IF \E c \in newest : rows[c].revision # None THEN "newer" ELSE "confirm"
  BY <1>4
<1>6. uploads \in Nat /\ DOMAIN library \subseteq 1..uploads /\ DOMAIN loaded \subseteq 1..uploads
  BY DEF RevisionsInv, UploadsOK, LoadedOK
<1>7. rows[d] = loaded[d] /\ IsRow(rows[d])
  BY DEF RevisionsInv, LoadedOK
<1>8. ASSUME NEW c \in same
      PROVE  /\ c \in DOMAIN library /\ c \in 1..uploads
             /\ IsRow(rows[c]) /\ SameRow(rows[c], library[c])
  <2>1. c \in DOMAIN library /\ IsRow(library[c])
    BY DEF RevisionsInv, LibraryOK
  <2>2. c \in DOMAIN loaded => IsRow(loaded[c]) /\ SameRow(loaded[c], library[c])
    BY <2>1 DEF RevisionsInv, LoadedOK
  <2> QED
    BY <1>6, <2>1, <2>2 DEF SameRow
<1>9. /\ Family(loaded[d]) \subseteq same
      /\ \A c \in same : rows[c].key = rows[d].key => c \in Family(loaded[d])
  <2>1. ASSUME NEW c \in Family(loaded[d]) PROVE c \in same
    <3>1. c \in DOMAIN library /\ Head(library[c].revision) = Head(loaded[d].revision)
      BY DEF Family
    <3>2. IsRow(library[c])
      BY <3>1 DEF RevisionsInv, LibraryOK
    <3>3. library[c].key = loaded[d].key /\ loaded[d].key # None
      BY <1>7, <3>1, <3>2, KeysTell
    <3> QED
      BY <3>1, <3>3
  <2>2. ASSUME NEW c \in same, rows[c].key = rows[d].key PROVE c \in Family(loaded[d])
    <3>1. Head(rows[c].revision) = Head(rows[d].revision)
      BY <1>7, <1>8, <2>2, KeysTell
    <3> QED
      BY <1>7, <1>8, <3>1 DEF Family, SameRow
  <2> QED
    BY <2>1, <2>2
<1>10. ASSUME NEW c \in Family(loaded[d]) PROVE rows[c].key = rows[d].key
  <2>1. c \in same /\ Head(library[c].revision) = Head(loaded[d].revision)
    BY <1>9 DEF Family
  <2> QED
    BY <1>7, <1>8, <2>1, KeysTell DEF SameRow
<1>11. d \in Nat /\ rows[d].date \in Nat /\ rows[d].key # None /\ rows[d].superseded \in BOOLEAN
  BY <1>6, <1>7, KeysTell
<1>12. ASSUME NEW c \in later
       PROVE  /\ c \in Family(loaded[d]) /\ c \in same /\ c # d
              /\ IF rows[c].date # 0 /\ rows[d].date # 0 THEN rows[c].date > rows[d].date
                 ELSE rows[c].revision # rows[d].revision /\ c > d
  BY <1>1, <1>9 DEF NewerIn, _newer
<1>13. ASSUME NEW c \in Family(loaded[d]), c # d,
              IF rows[c].date # 0 /\ rows[d].date # 0 THEN rows[c].date > rows[d].date
              ELSE rows[c].revision # rows[d].revision /\ c > d
       PROVE  c \in later
  BY <1>1, <1>9, <1>10, <1>11, <1>13 DEF NewerIn, _newer
<1>14. later # {} => newest # {}
  <2>1. later \in SUBSET (1..uploads)
    BY <1>8, <1>12
  <2>2. \A c \in later : rows[c].date \in Nat
    BY <1>8, <1>12, KeysTell
  <2> QED
    BY <1>2, <1>6, <2>1, <2>2, OneIsNewest
<1>15. newest \subseteq later /\ \A c \in newest : \A x \in later : ~Before(rows, c, x)
  BY <1>2 DEF NewestOf
<1>16. \A c \in same : /\ rows[c].revision = library[c].revision /\ rows[c].date = library[c].date
                       /\ rows[c].date \in Nat /\ rows[c].revision # None /\ c # None /\ c \in Nat
  BY <1>6, <1>8, KeysTell, RevisionsAssumption DEF SameRow
<1>17. n.newer # None => n.newer \in newest
  BY <1>5
<1>18. newest # {} => n.newer \in newest /\ n.newer # None
  BY <1>5, <1>12, <1>15, <1>16
<1>19. n.newer # None => /\ n.newer \in Family(loaded[d])
                         /\ <<library[n.newer].revision, library[n.newer].date>>
                              # <<loaded[d].revision, loaded[d].date>>
  BY <1>7, <1>11, <1>12, <1>15, <1>16, <1>17
<1>20. ASSUME loaded[d].date # 0, \A c \in Family(loaded[d]) : library[c].date # 0,
              NEW L, L = {c \in Family(loaded[d]) : library[c].date > loaded[d].date}
       PROVE  IF L = {} THEN n.newer = None
              ELSE n.newer # None /\ \A c \in L : library[n.newer].date >= library[c].date
  <2>1. later = L
    <3>1. ASSUME NEW c \in later PROVE c \in L
      BY <1>7, <1>12, <1>16, <1>20
    <3>2. ASSUME NEW c \in L PROVE c \in later
      <4>1. c \in Family(loaded[d]) /\ c \in same /\ rows[c].date = library[c].date
        BY <1>9, <1>16, <1>20
      <4>2. c # d
        BY <1>7, <1>11, <1>20, <4>1
      <4> QED
        BY <1>7, <1>13, <1>20, <4>1, <4>2
    <3> QED
      BY <3>1, <3>2
  <2>2. CASE L = {}
    BY <1>5, <1>15, <2>1, <2>2
  <2>3. CASE L # {}
    <3>1. n.newer \in newest /\ n.newer # None /\ n.newer \in later
      BY <1>14, <1>15, <1>18, <2>1, <2>3
    <3>2. ASSUME NEW c \in L PROVE library[n.newer].date >= library[c].date
      <4>1. ~Before(rows, n.newer, c)
        BY <1>15, <2>1, <3>1
      <4>2. c \in same /\ n.newer \in same
        BY <1>12, <2>1, <3>1
      <4> QED
        BY <1>16, <4>1, <4>2 DEF Before
    <3> QED
      BY <2>3, <3>1, <3>2
  <2> QED
    BY <2>2, <2>3
<1>21. ASSUME loaded[d].date = 0,
              NEW c \in Family(loaded[d]), c > d, library[c].revision # loaded[d].revision
       PROVE  n.note # "confirm"
  <2>1. c \in same /\ c # d
    BY <1>9, <1>11, <1>16, <1>21
  <2>2. c \in later
    BY <1>7, <1>13, <1>16, <1>21, <2>1
  <2>3. PICK x \in newest : TRUE
    BY <1>14, <2>2
  <2>4. rows[x].revision # None
    BY <1>12, <1>15, <1>16
  <2> QED
    BY <1>5, <2>4
<1>22. loaded[d].superseded <=> n.note = "superseded"
  BY <1>5, <1>7, <1>11
<1> QED
  BY <1>3, <1>19, <1>20, <1>21, <1>22 DEF IsTrue

(* FindNewer writes a true note on each document.                          *)
LEMMA NoteStep ==
  ASSUME RevisionsInv, FindNewer
  PROVE  \A d \in DOMAIN loaded : IsTrue(d, notes'[d])
<1> TAKE d \in DOMAIN loaded
<1>1. PICK same : same = {c \in DOMAIN library :
                            library[c].key \in {loaded[x].key : x \in DOMAIN loaded} \ {None}}
  OBVIOUS
<1>2. PICK all : all = [c \in DOMAIN loaded \cup same |->
                          IF c \in DOMAIN loaded THEN loaded[c] ELSE library[c]]
  OBVIOUS
<1>3. notes' = [x \in DOMAIN loaded |-> source_revision([e \in same \cup {x} |-> all[e]], x)]
  BY <1>1, <1>2 DEF FindNewer
<1>4. PICK rows : rows = [e \in same \cup {d} |-> all[e]]
  OBVIOUS
<1>5. /\ DOMAIN rows = same \cup {d}
      /\ \A c \in same \cup {d} : rows[c] = IF c \in DOMAIN loaded THEN loaded[c] ELSE library[c]
  BY <1>2, <1>4
<1>6. IsTrue(d, source_revision(rows, d))
  BY <1>1, <1>5, NoteIsTrue
<1>7. notes'[d] = source_revision(rows, d)
  BY <1>3, <1>4
<1> QED
  BY <1>6, <1>7

(* The note names the newest stored revision of the same manual, and never *)
(* an older one, the same one or another manual, whatever is uploaded and  *)
(* marked between the two statements (source_revisions, _newer).           *)
THEOREM NotesTrue == RevisionsSpec => NotesAreTrue
<1>1. RevisionsInit => RevisionsInv
  BY InitRevisionsInv
<1>2. RevisionsInv /\ [RevisionsNext]_revisionVars => RevisionsInv'
  BY NextKeepsRevisionsInv
<1>3. RevisionsInv /\ [RevisionsNext]_revisionVars =>
        [(phase = "loaded" /\ phase' = "noted") =>
           \A d \in DOMAIN loaded : IsTrue(d, notes'[d])]_revisionVars
  <2> SUFFICES ASSUME RevisionsInv, RevisionsNext, phase = "loaded" /\ phase' = "noted"
               PROVE  \A d \in DOMAIN loaded : IsTrue(d, notes'[d])
    OBVIOUS
  <2>1. FindNewer
    BY DEF RevisionsNext, Upload, Mark, LoadSources
  <2> QED
    BY <2>1, NoteStep
<1> QED
  BY <1>1, <1>2, <1>3, PTL DEF RevisionsSpec, NotesAreTrue

-----------------------------------------------------------------------------
(* Induction, over a set in place of a predicate.                          *)
LEMMA NaturalInduction ==
  ASSUME NEW S, 0 \in S, \A k \in Nat : k \in S => k + 1 \in S
  PROVE  \A k \in Nat : k \in S
<1> SUFFICES ASSUME NEW j \in Nat, j \notin S PROVE FALSE
  OBVIOUS
<1>1. PICK T : T = {k \in Nat : k \notin S}
  OBVIOUS
<1>2. T \in SUBSET Nat /\ T # {}
  BY <1>1
<1>3. PICK k \in T : \A m \in T : k <= m
  BY <1>2, Least
<1>4. k \in Nat /\ k \notin S /\ k # 0
  BY <1>1, <1>3
<1>5. k - 1 \in Nat /\ ~ k <= k - 1 /\ (k - 1) + 1 = k
  BY <1>4
<1>6. k - 1 \in S
  BY <1>1, <1>3, <1>5
<1> QED
  BY <1>4, <1>5, <1>6

-----------------------------------------------------------------------------
(* Tens is the power of ten: the recursion has a solution.                 *)
Powers(m, f) ==
  /\ f \in [0..m -> Nat]
  /\ f[0] = 1 /\ \A i \in 1..m : f[i] = 10 * f[i - 1]

(* Up to any bound there are such powers, and there is one choice.         *)
LEMMA PowersExist == \A m \in Nat : \E f : Powers(m, f)
<1>1. PICK S : S = {m \in Nat : \E f : Powers(m, f)}
  OBVIOUS
<1>2. 0 \in S
  <2>1. PICK f : f = [i \in 0..0 |-> 1]
    OBVIOUS
  <2>2. Powers(0, f)
    BY <2>1 DEF Powers
  <2> QED
    BY <1>1, <2>2
<1>3. ASSUME NEW m \in Nat, m \in S PROVE m + 1 \in S
  <2>1. PICK f : Powers(m, f)
    BY <1>1, <1>3
  <2>2. PICK g : g = [i \in 0..m + 1 |-> IF i = m + 1 THEN 10 * f[m] ELSE f[i]]
    OBVIOUS
  <2>3. g \in [0..m + 1 -> Nat] /\ g[0] = 1
    BY <2>1, <2>2 DEF Powers
  <2>4. ASSUME NEW i \in 1..m + 1 PROVE g[i] = 10 * g[i - 1]
    <3>1. i - 1 \in 0..m /\ g[i - 1] = f[i - 1]
      BY <2>2
    <3>2. CASE i = m + 1
      BY <2>2, <3>1, <3>2
    <3>3. CASE i # m + 1
      BY <2>1, <2>2, <3>1, <3>3 DEF Powers
    <3> QED
      BY <3>2, <3>3
  <2>5. Powers(m + 1, g)
    BY <2>3, <2>4 DEF Powers
  <2> QED
    BY <1>1, <2>5
<1>4. \A m \in Nat : m \in S
  BY <1>2, <1>3, NaturalInduction
<1> QED
  BY <1>1, <1>4

(* Powers up to two bounds agree where both are.                           *)
LEMMA PowersAgree ==
  ASSUME NEW m \in Nat, NEW n \in Nat, NEW f, Powers(m, f), NEW g, Powers(n, g)
  PROVE  \A k \in Nat : k <= m /\ k <= n => f[k] = g[k]
<1>1. PICK S : S = {k \in Nat : k <= m /\ k <= n => f[k] = g[k]}
  OBVIOUS
<1>2. 0 \in S
  BY <1>1 DEF Powers
<1>3. ASSUME NEW k \in Nat, k \in S PROVE k + 1 \in S
  <2> SUFFICES ASSUME k + 1 <= m, k + 1 <= n PROVE f[k + 1] = g[k + 1]
    BY <1>1
  <2>1. f[k] = g[k]
    BY <1>1, <1>3
  <2>2. k + 1 \in 1..m /\ k + 1 \in 1..n /\ (k + 1) - 1 = k
    OBVIOUS
  <2>3. f[k + 1] = 10 * f[k] /\ g[k + 1] = 10 * g[k]
    BY <2>2 DEF Powers
  <2> QED
    BY <2>1, <2>3
<1>4. \A k \in Nat : k \in S
  BY <1>2, <1>3, NaturalInduction
<1> QED
  BY <1>1, <1>4

(* Tens[k] is 10^k.                                                        *)
LEMMA TensIs ==
  /\ Tens[0] = 1
  /\ \A k \in Nat : Tens[k + 1] = 10 * Tens[k]
  /\ \A k \in Nat : Tens[k] \in Nat \ {0}
<1> DEFINE f(m) == CHOOSE f : Powers(m, f)
           IsTens(t) == t = [k \in Nat |-> IF k = 0 THEN 1 ELSE 10 * t[k - 1]]
<1>1. \A m \in Nat : Powers(m, f(m))
  BY PowersExist
<1> HIDE DEF f
<1>2. PICK t : t = [m \in Nat |-> f(m)[m]]
  OBVIOUS
<1>3. \A k \in Nat : t[k] = f(k)[k] /\ t[k] \in Nat
  BY <1>1, <1>2 DEF Powers
<1>4. t[0] = 1
  BY <1>1, <1>3 DEF Powers
<1>5. ASSUME NEW k \in Nat, k # 0 PROVE t[k] = 10 * t[k - 1]
  <2>1. k - 1 \in Nat /\ k \in 1..k /\ k - 1 <= k
    BY <1>5
  <2>2. f(k)[k] = 10 * f(k)[k - 1]
    BY <1>1, <2>1 DEF Powers
  <2>3. f(k)[k - 1] = f(k - 1)[k - 1]
    BY <1>1, <2>1, PowersAgree
  <2> QED
    BY <1>3, <2>1, <2>2, <2>3
<1>6. IsTens(t)
  <2>1. \A k \in Nat : t[k] = IF k = 0 THEN 1 ELSE 10 * t[k - 1]
    BY <1>4, <1>5
  <2>2. t = [k \in Nat |-> t[k]]
    BY <1>2
  <2> QED
    BY <2>1, <2>2
<1> HIDE DEF IsTens
<1>7. Tens = CHOOSE x : IsTens(x)
  BY DEF Tens, IsTens
<1>8. IsTens(Tens)
  BY <1>6, <1>7
<1>9. \A k \in Nat : Tens[k] = IF k = 0 THEN 1 ELSE 10 * Tens[k - 1]
  BY <1>8 DEF IsTens
<1>10. Tens[0] = 1
  BY <1>9
<1>11. ASSUME NEW k \in Nat PROVE Tens[k + 1] = 10 * Tens[k]
  <2>1. k + 1 \in Nat /\ k + 1 # 0 /\ (k + 1) - 1 = k
    OBVIOUS
  <2> QED
    BY <1>9, <2>1
<1>12. \A k \in Nat : Tens[k] \in Nat \ {0}
  <2>1. PICK S : S = {k \in Nat : Tens[k] \in Nat \ {0}}
    OBVIOUS
  <2>2. 0 \in S
    BY <1>10, <2>1
  <2>3. \A k \in Nat : k \in S => k + 1 \in S
    BY <1>11, <2>1
  <2>4. \A k \in Nat : k \in S
    BY <2>2, <2>3, NaturalInduction
  <2> QED
    BY <2>1, <2>4
<1> QED
  BY <1>10, <1>11, <1>12

(* Exponents add up.                                                       *)
LEMMA TensAdd == \A a, b \in Nat : Tens[a + b] = Tens[a] * Tens[b]
<1> SUFFICES ASSUME NEW a \in Nat PROVE \A b \in Nat : Tens[a + b] = Tens[a] * Tens[b]
  OBVIOUS
<1>1. PICK S : S = {b \in Nat : Tens[a + b] = Tens[a] * Tens[b]}
  OBVIOUS
<1>2. 0 \in S
  BY <1>1, TensIs
<1>3. ASSUME NEW b \in Nat, b \in S PROVE b + 1 \in S
  <2>1. Tens[a + b] = Tens[a] * Tens[b]
    BY <1>1, <1>3
  <2>2. Tens[(a + b) + 1] = 10 * Tens[a + b] /\ Tens[b + 1] = 10 * Tens[b]
    BY TensIs
  <2>3. (a + b) + 1 = a + (b + 1)
    OBVIOUS
  <2>4. Tens[a] \in Nat /\ Tens[b] \in Nat /\ Tens[a + b] \in Nat
    BY TensIs
  <2>5. \A x, y \in Nat : 10 * (x * y) = x * (10 * y)
    OBVIOUS
  <2>6. Tens[a + (b + 1)] = Tens[a] * Tens[b + 1]
    BY <2>1, <2>2, <2>3, <2>4, <2>5
  <2> QED
    BY <1>1, <2>6
<1>4. \A b \in Nat : b \in S
  BY <1>2, <1>3, NaturalInduction
<1> QED
  BY <1>1, <1>4

-----------------------------------------------------------------------------
(* Division without a remainder.                                           *)
LEMMA Divides ==
  ASSUME NEW n \in Nat, NEW t \in Nat \ {0}
  PROVE  /\ n \div t \in Nat
         /\ n % t = 0 => n = (n \div t) * t
         /\ \A b \in Nat : n = b * t => n % t = 0
<1>1. n \div t \in Nat /\ n % t \in 0..t - 1 /\ n = t * (n \div t) + (n % t)
  OBVIOUS
<1>2. \A b \in Nat : (t * b + 0) % t = 0
  OBVIOUS
<1>3. \A b \in Nat : b * t = t * b + 0
  OBVIOUS
<1>4. n % t = 0 => n = (n \div t) * t
  BY <1>1
<1> QED
  BY <1>1, <1>2, <1>3, <1>4

(* _value takes as many zeros as it can.                                   *)
Zeros(n, p) == Max({k \in 0..p : n % Tens[k] = 0})
Reduced(n, p) == n \div Tens[Zeros(n, p)]

(* What is left of a number has no zero at its end, or no places.          *)
LEMMA NoZerosLeft ==
  ASSUME NEW n \in Nat, NEW p \in Nat
  PROVE  /\ Zeros(n, p) \in 0..p
         /\ Reduced(n, p) \in Nat
         /\ n = Reduced(n, p) * Tens[Zeros(n, p)]
         /\ Zeros(n, p) < p => \A b \in Nat : Reduced(n, p) # 10 * b
<1>1. PICK S : S = {k \in 0..p : n % Tens[k] = 0}
  OBVIOUS
<1>2. n % Tens[0] = 0
  BY TensIs
<1>3. S \in SUBSET (0..p) /\ S # {}
  BY <1>1, <1>2
<1>4. PICK z : z = Zeros(n, p)
  OBVIOUS
<1>5. z \in S /\ \A k \in S : k <= z
  BY <1>1, <1>3, <1>4, Greatest DEF Zeros
<1>6. z \in 0..p /\ n % Tens[z] = 0
  BY <1>1, <1>5
<1>7. z \in Nat /\ Tens[z] \in Nat \ {0} /\ Tens[z + 1] = 10 * Tens[z] /\ Tens[z + 1] \in Nat \ {0}
  BY <1>6, TensIs
<1>8. PICK a : a = Reduced(n, p)
  OBVIOUS
<1>9. a = n \div Tens[z]
  BY <1>4, <1>8 DEF Reduced
<1>10. a \in Nat /\ n = a * Tens[z]
  BY <1>6, <1>7, <1>9, Divides
<1>11. ASSUME z < p, NEW b \in Nat, a = 10 * b PROVE FALSE
  <2>1. \A x, y \in Nat : (10 * x) * y = x * (10 * y)
    OBVIOUS
  <2>2. n = b * Tens[z + 1]
    BY <1>7, <1>10, <1>11, <2>1
  <2>3. n % Tens[z + 1] = 0
    BY <1>7, <2>2, Divides
  <2>4. z + 1 \in 0..p
    BY <1>6, <1>11
  <2>5. z + 1 \in S
    BY <1>1, <2>3, <2>4
  <2>6. z + 1 <= z
    BY <1>5, <2>5
  <2> QED
    BY <1>7, <2>6
<1> QED
  BY <1>4, <1>6, <1>8, <1>10, <1>11

(* Of two reduced decimals that are equal none has more places.            *)
LEMMA NotMorePlaces ==
  ASSUME NEW a \in Nat, NEW b \in Nat, NEW q \in Nat, NEW s \in Nat,
         a * Tens[s] = b * Tens[q], q > 0 => \A c \in Nat : a # 10 * c
  PROVE  q <= s
<1> SUFFICES ASSUME q > s PROVE FALSE
  OBVIOUS
<1>1. PICK d : d = (q - s) - 1
  OBVIOUS
<1>2. d \in Nat /\ q = s + (d + 1) /\ d + 1 \in Nat
  BY <1>1
<1>3. Tens[q] = Tens[s] * Tens[d + 1] /\ Tens[d + 1] = 10 * Tens[d]
  BY <1>2, TensAdd, TensIs
<1>4. Tens[s] \in Nat \ {0} /\ Tens[d] \in Nat
  BY <1>2, TensIs
<1>5. \A t \in Nat \ {0} : \A e \in Nat : a * t = b * (t * (10 * e)) => a = 10 * (b * e)
  OBVIOUS
<1>6. a = 10 * (b * Tens[d])
  BY <1>3, <1>4, <1>5
<1>7. b * Tens[d] \in Nat
  BY <1>4
<1> QED
  BY <1>2, <1>6, <1>7

(* Two decimals are the same number exactly when they reduce to the same.  *)
LEMMA SameReduced ==
  ASSUME NEW n \in Nat, NEW p \in Nat, NEW m \in Nat, NEW r \in Nat
  PROVE  n * Tens[r] = m * Tens[p]
           <=> Reduced(n, p) = Reduced(m, r) /\ p - Zeros(n, p) = r - Zeros(m, r)
<1>1. PICK a, z : a = Reduced(n, p) /\ z = Zeros(n, p)
  OBVIOUS
<1>2. PICK b, w : b = Reduced(m, r) /\ w = Zeros(m, r)
  OBVIOUS
<1>3. z \in 0..p /\ a \in Nat /\ n = a * Tens[z] /\ (z < p => \A c \in Nat : a # 10 * c)
  <2>1. /\ Zeros(n, p) \in 0..p /\ Reduced(n, p) \in Nat
        /\ n = Reduced(n, p) * Tens[Zeros(n, p)]
        /\ Zeros(n, p) < p => \A c \in Nat : Reduced(n, p) # 10 * c
    BY NoZerosLeft
  <2> QED
    BY <1>1, <2>1
<1>4. w \in 0..r /\ b \in Nat /\ m = b * Tens[w] /\ (w < r => \A c \in Nat : b # 10 * c)
  <2>1. /\ Zeros(m, r) \in 0..r /\ Reduced(m, r) \in Nat
        /\ m = Reduced(m, r) * Tens[Zeros(m, r)]
        /\ Zeros(m, r) < r => \A c \in Nat : Reduced(m, r) # 10 * c
    BY NoZerosLeft
  <2> QED
    BY <1>2, <2>1
<1>5. PICK q, s : q = p - z /\ s = r - w
  OBVIOUS
<1>6. q \in Nat /\ s \in Nat /\ z \in Nat /\ w \in Nat /\ p = q + z /\ r = s + w
  BY <1>3, <1>4, <1>5
<1>7. Tens[p] = Tens[q] * Tens[z] /\ Tens[r] = Tens[s] * Tens[w]
  BY <1>6, TensAdd
<1>8. /\ Tens[q] \in Nat \ {0} /\ Tens[z] \in Nat \ {0}
      /\ Tens[s] \in Nat \ {0} /\ Tens[w] \in Nat \ {0}
  BY <1>6, TensIs
<1>9. n * Tens[r] = m * Tens[p] <=> a * Tens[s] = b * Tens[q]
  <2>1. \A x, y \in Nat : \A tq, tz, ts, tw \in Nat \ {0} :
          (x * tz) * (ts * tw) = (y * tw) * (tq * tz) <=> x * ts = y * tq
    <3> TAKE x, y \in Nat
    <3> TAKE tq, tz, ts, tw \in Nat \ {0}
    <3>1. (x * tz) * (ts * tw) = (x * ts) * (tz * tw) /\ (y * tw) * (tq * tz) = (y * tq) * (tz * tw)
      OBVIOUS
    <3>2. \A u, v \in Nat : \A t \in Nat \ {0} : u * t = v * t <=> u = v
      OBVIOUS
    <3>3. x * ts \in Nat /\ y * tq \in Nat /\ tz * tw \in Nat \ {0}
      OBVIOUS
    <3> QED
      BY <3>1, <3>2, <3>3
  <2>2. PICK tq, tz, ts, tw \in Nat \ {0} :
          tq = Tens[q] /\ tz = Tens[z] /\ ts = Tens[s] /\ tw = Tens[w]
    BY <1>8
  <2>3. Tens[p] = tq * tz /\ Tens[r] = ts * tw /\ n = a * tz /\ m = b * tw
    BY <1>3, <1>4, <1>7, <2>2
  <2>4. (a * tz) * (ts * tw) = (b * tw) * (tq * tz) <=> a * ts = b * tq
    BY <1>3, <1>4, <2>1
  <2> QED
    BY <2>2, <2>3, <2>4
<1>10. ASSUME a * Tens[s] = b * Tens[q] PROVE a = b /\ q = s
  <2>1. q <= s
    BY <1>3, <1>4, <1>5, <1>6, <1>10, NotMorePlaces
  <2>2. s <= q
    BY <1>3, <1>4, <1>5, <1>6, <1>10, NotMorePlaces
  <2>3. q = s
    BY <1>6, <2>1, <2>2
  <2>4. \A x, y \in Nat : \A t \in Nat \ {0} : x * t = y * t => x = y
    OBVIOUS
  <2> QED
    BY <1>3, <1>4, <1>8, <1>10, <2>3, <2>4
<1> QED
  BY <1>1, <1>2, <1>5, <1>9, <1>10

(* Values are compared as numbers are.                                     *)
LEMMA ValuesTell ==
  ASSUME NEW f \in Figure, NEW g \in Figure
  PROVE  _value(f) = _value(g) <=> SameNumber(f, g)
<1>1. /\ f.n \in Nat /\ f.places \in Nat /\ f.over \in Nat
      /\ g.n \in Nat /\ g.places \in Nat /\ g.over \in Nat
  BY DEF Figure
<1>2. ASSUME NEW h
      PROVE  _value(h) = IF h.over # 0 THEN <<h.n, h.places, h.over>>
                         ELSE <<Reduced(h.n, h.places), h.places - Zeros(h.n, h.places), 0>>
  BY DEF _value, Reduced, Zeros
<1>3. PICK v : v = <<Reduced(f.n, f.places), f.places - Zeros(f.n, f.places), 0>>
  OBVIOUS
<1>4. PICK w : w = <<Reduced(g.n, g.places), g.places - Zeros(g.n, g.places), 0>>
  OBVIOUS
<1>5. v = w <=> f.n * Tens[g.places] = g.n * Tens[f.places]
  BY <1>1, <1>3, <1>4, SameReduced
<1>6. CASE f.over = 0 /\ g.over = 0
  BY <1>2, <1>3, <1>4, <1>5, <1>6 DEF SameNumber
<1>7. CASE f.over # g.over
  BY <1>2, <1>7 DEF SameNumber
<1>8. CASE f.over = g.over /\ f.over # 0
  <2>1. _value(f) = <<f.n, f.places, f.over>> /\ _value(g) = <<g.n, g.places, g.over>>
    BY <1>2, <1>8
  <2>2. Tens[f.places] \in Nat \ {0}
    BY <1>1, TensIs
  <2>3. \A x, y \in Nat : \A t \in Nat \ {0} : x * t = y * t <=> x = y
    OBVIOUS
  <2>4. f.places = g.places => (f.n * Tens[g.places] = g.n * Tens[f.places] <=> f.n = g.n)
    <3>1. f.n * Tens[f.places] = g.n * Tens[f.places] <=> f.n = g.n
      <4>1. PICK t \in Nat \ {0} : t = Tens[f.places]
        BY <2>2
      <4>2. PICK x \in Nat, y \in Nat : x = f.n /\ y = g.n
        BY <1>1
      <4>3. x * t = y * t <=> x = y
        BY <2>3
      <4> QED
        BY <4>1, <4>2, <4>3
    <3> QED
      BY <3>1
  <2> QED
    BY <1>8, <2>1, <2>4 DEF SameNumber
<1> QED
  BY <1>6, <1>7, <1>8
(* The canonical names.                                                    *)
UnitNames == {"in", "ft", "in-lb", "ft-lb", "lb", "psi", "%"} \cup TIME_UNITS

(* No spelling stands for two units.                                       *)
LEMMA UnitsApart ==
  /\ DOMAIN UNIT_SPELLINGS = UnitNames
  /\ \A m, n \in UnitNames : m # n => UNIT_SPELLINGS[m] \cap UNIT_SPELLINGS[n] = {}
<1>1. DOMAIN UNIT_SPELLINGS = UnitNames
  BY DEF UNIT_SPELLINGS, UnitNames
<1>2. /\ UNIT_SPELLINGS["in"] = {"inch", "inches", "in", "in."}
      /\ UNIT_SPELLINGS["ft"] = {"foot", "feet", "ft", "ft."}
      /\ UNIT_SPELLINGS["in-lb"] = {"inch-pound", "inch-pounds", "in-lb", "in.-lbs."}
      /\ UNIT_SPELLINGS["ft-lb"] = {"foot-pound", "foot-pounds", "ft-lb", "ft.-lbs."}
      /\ UNIT_SPELLINGS["lb"] = {"pound", "pounds", "lb", "lbs."}
      /\ UNIT_SPELLINGS["min"] = {"minute", "minutes", "min"}
      /\ UNIT_SPELLINGS["h"] = {"hour", "hours", "hr", "hrs"}
      /\ UNIT_SPELLINGS["s"] = {"second", "seconds", "sec"}
      /\ UNIT_SPELLINGS["psi"] = {"psi"}
      /\ UNIT_SPELLINGS["%"] = {"percent", "%"}
  BY DEF UNIT_SPELLINGS, TIME_UNITS
<1>3. \A m, n \in UnitNames : m # n => UNIT_SPELLINGS[m] \cap UNIT_SPELLINGS[n] = {}
  <2> TAKE m, n \in UnitNames
  <2> HAVE m # n
  <2> SUFFICES ASSUME NEW x \in UNIT_SPELLINGS[m], x \in UNIT_SPELLINGS[n] PROVE FALSE
    OBVIOUS
  <2> QED
    BY <1>2 DEF UnitNames, TIME_UNITS
<1> QED
  BY <1>1, <1>3

(* A spelling has the one canonical name it stands under.                  *)
LEMMA UnitIs ==
  ASSUME NEW u \in Spellings
  PROVE  /\ u # NoUnit /\ _unit(u) # NoUnit
         /\ \A name \in UnitNames : u \in UNIT_SPELLINGS[name] <=> _unit(u) = name
<1>1. PICK name \in UnitNames : u \in UNIT_SPELLINGS[name]
  BY UnitsApart DEF Spellings
<1>2. u # NoUnit
  BY FiguresAssumption
<1>3. _unit(u) \in UnitNames /\ u \in UNIT_SPELLINGS[_unit(u)]
  BY <1>1, <1>2, UnitsApart DEF _unit
<1> QED
  BY <1>2, <1>3, UnitsApart, FiguresAssumption

(* Units are compared as their names are.                                  *)
LEMMA UnitsTell ==
  ASSUME NEW u \in Spellings, NEW v \in Spellings
  PROVE  SameUnit(u, v) <=> _unit(u) = _unit(v)
<1>1. DOMAIN UNIT_SPELLINGS = UnitNames
  BY UnitsApart
<1>2. _unit(u) \in UnitNames
  BY UnitsApart, UnitIs DEF Spellings
<1> QED
  BY <1>1, <1>2, UnitIs DEF SameUnit

(* The spellings of times that the check asks for.                         *)
LEMMA TimeUnits ==
  /\ {"min", "hr", "sec"} \subseteq Spellings
  /\ _unit("min") = "min" /\ _unit("hr") = "h" /\ _unit("sec") = "s"
<1>1. "min" \in UNIT_SPELLINGS["min"] /\ "hr" \in UNIT_SPELLINGS["h"] /\ "sec" \in UNIT_SPELLINGS["s"]
  BY DEF UNIT_SPELLINGS, TIME_UNITS
<1>2. {"min", "h", "s"} \subseteq UnitNames /\ DOMAIN UNIT_SPELLINGS = UnitNames
  BY UnitsApart DEF UnitNames, TIME_UNITS
<1>3. {"min", "hr", "sec"} \subseteq Spellings
  BY <1>1, <1>2 DEF Spellings
<1> QED
  BY <1>1, <1>2, <1>3, UnitIs

(* What numbers_in makes of figures, one by one.                           *)
LEMMA NumbersAre ==
  ASSUME NEW figures \in Seq(Figure)
  PROVE  /\ Range(numbers_in(figures)) = {numbers_in(figures)[i] : i \in DOMAIN figures}
         /\ \A i \in DOMAIN figures :
              /\ figures[i] \in Figure
              /\ UnitAt(figures, i) \in Spellings \cup {NoUnit}
              /\ numbers_in(figures)[i].value = _value(figures[i])
              /\ numbers_in(figures)[i].unit = _unit(UnitAt(figures, i))
              /\ numbers_in(figures)[i].written = written(figures[i])
<1>1. PICK n \in Nat : n = Len(figures) /\ DOMAIN figures = 1..n
  BY LenProperties
<1>2. \A i \in DOMAIN figures : figures[i] \in Figure
  BY <1>1, ElementOfSeq
<1>3. \A i \in DOMAIN figures :
        numbers_in(figures)[i] = [value |-> _value(figures[i]), written |-> written(figures[i]),
                                  unit |-> _unit(UnitAt(figures, i))]
  BY DEF numbers_in, UnitAt
<1>4. DOMAIN numbers_in(figures) = DOMAIN figures
  BY DEF numbers_in
<1>5. \A i \in DOMAIN figures : UnitAt(figures, i) \in Spellings \cup {NoUnit}
  <2> TAKE i \in DOMAIN figures
  <2>1. figures[i].unit \in Spellings \cup {NoUnit}
    BY <1>2 DEF Figure
  <2>2. i < Len(figures) => figures[i + 1].unit \in Spellings \cup {NoUnit}
    BY <1>1, <1>2 DEF Figure
  <2> QED
    BY <2>1, <2>2 DEF UnitAt
<1> QED
  BY <1>2, <1>3, <1>4, <1>5 DEF Range

(* A value is one of the figures' exactly when a figure says that number.  *)
LEMMA ValueIsThere ==
  ASSUME NEW figures \in Seq(Figure), NEW f \in Figure
  PROVE  _value(f) \in {x.value : x \in Range(numbers_in(figures))}
           <=> \E j \in DOMAIN figures : SameNumber(figures[j], f)
<1>1. \A j \in DOMAIN figures : _value(figures[j]) = _value(f) <=> SameNumber(figures[j], f)
  BY NumbersAre, ValuesTell
<1>2. \A x \in Range(numbers_in(figures)) : \E j \in DOMAIN figures : x.value = _value(figures[j])
  BY NumbersAre
<1>3. \A j \in DOMAIN figures : \E x \in Range(numbers_in(figures)) : x.value = _value(figures[j])
  BY NumbersAre
<1> QED
  BY <1>1, <1>2, <1>3

-----------------------------------------------------------------------------
(* The parts of verify_answer, its LETs by name.                           *)
GoodOf(a, passages) == parse_citations(a.cites) \cap DOMAIN passages
SourceOf(a, passages) ==
  UNION {Range(numbers_in(passages[n])) : n \in used(GoodOf(a, passages), passages)}
FoundIn(a, asked) ==
  {x \in Range(numbers_in(a.figures)) :
     x.value \notin {y.value : y \in Range(numbers_in(asked))}}
UnknownIn(a, passages, asked) ==
  {x \in FoundIn(a, asked) : x.value \notin {y.value : y \in SourceOf(a, passages)}}
UnitsGiven(source, v) == {x.unit : x \in {y \in source : y.value = v /\ y.unit # NoUnit}}
Mismatched(source, x) ==
  /\ x.unit # NoUnit /\ UnitsGiven(source, x.value) # {}
  /\ ~_units_compatible(x.unit, UnitsGiven(source, x.value))
Elsewhere(a, passages, v) ==
  {n \in DOMAIN passages \ GoodOf(a, passages) :
     /\ GoodOf(a, passages) # {}
     /\ v \in {y.value : y \in Range(numbers_in(passages[n]))}}

(* verify_answer is put together from them.                                *)
LEMMA VerifyIs ==
  ASSUME NEW a, NEW passages, NEW asked
  PROVE  verify_answer(a, passages, asked) =
           [cited |-> GoodOf(a, passages),
            bad_citations |-> parse_citations(a.cites) \ GoodOf(a, passages),
            unsupported |-> {x.written : x \in UnknownIn(a, passages, asked)},
            unit_mismatch |-> {x.written : x \in {y \in FoundIn(a, asked) \ UnknownIn(a, passages, asked) :
                                 Mismatched(SourceOf(a, passages), y)}},
            found_in_uncited |->
              {[figure |-> x.written, blocks |-> Elsewhere(a, passages, x.value)] :
                 x \in {y \in UnknownIn(a, passages, asked) : Elsewhere(a, passages, y.value) # {}}}]
  BY Zenon DEF verify_answer, GoodOf, SourceOf, FoundIn, UnknownIn, UnitsGiven, Mismatched, Elsewhere

(* Min of two numbers.                                                     *)
LEMMA SmallerOfTwo == ASSUME NEW a \in Nat, NEW b \in Nat
                 PROVE  Min({a, b}) = IF a <= b THEN a ELSE b
<1>1. {a, b} \in SUBSET Nat /\ {a, b} # {}
  OBVIOUS
<1>2. Min({a, b}) \in {a, b} /\ \A m \in {a, b} : Min({a, b}) <= m
  BY <1>1, Least
<1> QED
  BY <1>2

(* What the answer cites, in a prompt of at most MAX_CITED_RANGE blocks.   *)
LEMMA CitesAre ==
  ASSUME prompt \in Prompts, answer \in ModelAnswers,
         NEW cited, cited = parse_citations(answer.cites)
  PROVE  /\ cited \cap DOMAIN prompt = {n \in DOMAIN prompt : Cites(n)}
         /\ cited \ DOMAIN prompt = {} <=> CitesOnlyItsPrompt
<1>1. PICK N \in 0..50 : N = Len(prompt) /\ DOMAIN prompt = 1..N
  <2>1. prompt \in Seq(Seq(Figure)) /\ Len(prompt) <= 50
    BY QuestionAssumption DEF MAX_CITED_RANGE
  <2>2. Len(prompt) \in Nat /\ DOMAIN prompt = 1..Len(prompt)
    BY <2>1, LenProperties
  <2>3. PICK N : N = Len(prompt)
    OBVIOUS
  <2>4. N \in Nat /\ N <= 50 /\ DOMAIN prompt = 1..N
    BY <2>1, <2>2, <2>3
  <2>5. N \in 0..50
    BY <2>4
  <2> QED
    BY <2>3, <2>4, <2>5
<1>2. \A i \in DOMAIN answer.cites : answer.cites[i].lo \in Nat /\ answer.cites[i].hi \in Nat
  <2>1. answer.cites \in Seq([lo : Nat, hi : Nat])
    BY QuestionAssumption
  <2>2. \A i \in DOMAIN answer.cites : answer.cites[i] \in [lo : Nat, hi : Nat]
    BY <2>1, LenProperties, ElementOfSeq
  <2> QED
    BY <2>2
<1>3. cited = UNION {c.lo..Min({c.hi, c.lo + 50}) : c \in Range(answer.cites)}
  BY DEF parse_citations, MAX_CITED_RANGE
<1>4. ASSUME NEW n
      PROVE  n \in cited <=> \E i \in DOMAIN answer.cites :
                /\ n \in Nat /\ answer.cites[i].lo <= n
                /\ n <= answer.cites[i].hi /\ n <= answer.cites[i].lo + 50
  <2>1. n \in cited <=> \E i \in DOMAIN answer.cites :
          n \in answer.cites[i].lo..Min({answer.cites[i].hi, answer.cites[i].lo + 50})
    BY <1>3 DEF Range
  <2>2. ASSUME NEW i \in DOMAIN answer.cites
        PROVE  n \in answer.cites[i].lo..Min({answer.cites[i].hi, answer.cites[i].lo + 50})
                 <=> /\ n \in Nat /\ answer.cites[i].lo <= n
                     /\ n <= answer.cites[i].hi /\ n <= answer.cites[i].lo + 50
    <3>1. PICK lo \in Nat, hi \in Nat : lo = answer.cites[i].lo /\ hi = answer.cites[i].hi
      BY <1>2
    <3>2. Min({hi, lo + 50}) = IF hi <= lo + 50 THEN hi ELSE lo + 50
      BY SmallerOfTwo
    <3> QED
      BY <3>1, <3>2
  <2> QED
    BY <2>1, <2>2
<1>5. ASSUME NEW n \in 1..N PROVE n \in cited <=> Cites(n)
  <2>1. ASSUME NEW i \in DOMAIN answer.cites
        PROVE  answer.cites[i].lo <= n /\ n <= answer.cites[i].hi
                 <=> /\ n \in Nat /\ answer.cites[i].lo <= n
                     /\ n <= answer.cites[i].hi /\ n <= answer.cites[i].lo + 50
    <3>1. PICK lo \in Nat, hi \in Nat : lo = answer.cites[i].lo /\ hi = answer.cites[i].hi
      BY <1>2
    <3>2. n \in Nat /\ n <= lo + 50
      OBVIOUS
    <3> QED
      BY <3>1, <3>2
  <2> QED
    BY <1>4, <2>1 DEF Cites
<1>6. ASSUME \A n \in cited : n \in 1..N, NEW i \in DOMAIN answer.cites,
             answer.cites[i].lo <= answer.cites[i].hi
      PROVE  answer.cites[i].lo >= 1 /\ answer.cites[i].hi <= N
  <2>1. PICK lo \in Nat, hi \in Nat : lo = answer.cites[i].lo /\ hi = answer.cites[i].hi
    BY <1>2
  <2>2. lo \in cited
    BY <1>4, <1>6, <2>1
  <2>3. hi <= lo + 50 => hi \in cited
    BY <1>4, <1>6, <2>1
  <2>4. lo + 50 <= hi => lo + 50 \in cited
    BY <1>4, <1>6, <2>1
  <2> QED
    BY <1>6, <2>1, <2>2, <2>3, <2>4
<1>7. ASSUME CitesOnlyItsPrompt, NEW n \in cited PROVE n \in 1..N
  <2>1. PICK i \in DOMAIN answer.cites :
          n \in Nat /\ answer.cites[i].lo <= n /\ n <= answer.cites[i].hi
    BY <1>4
  <2>2. answer.cites[i].lo >= 1 /\ answer.cites[i].hi <= N
    BY <1>1, <1>2, <1>7, <2>1 DEF CitesOnlyItsPrompt
  <2> QED
    BY <1>2, <2>1, <2>2
<1>8. CitesOnlyItsPrompt <=> \A n \in cited : n \in 1..N
  BY <1>1, <1>6, <1>7 DEF CitesOnlyItsPrompt
<1> QED
  BY <1>1, <1>5, <1>8

-----------------------------------------------------------------------------
(* The i-th figure of the answer, as numbers_in gives it.                  *)
Number(i) == numbers_in(answer.figures)[i]

(* The units of a figure, passage by passage.                              *)
LEMMA UnitsForIs ==
  ASSUME NEW i, NEW u
  PROVE  u \in UnitsFor(i) <=> /\ u # NoUnit
                              /\ \E n \in Held : \E j \in Places(i, n) : u = UnitAt(prompt[n], j)
<1> DEFINE W(n) == {UnitAt(prompt[n], j) : j \in Places(i, n)}
<1>1. UnitsFor(i) = (UNION {W(n) : n \in Held}) \ {NoUnit}
  BY DEF UnitsFor
<1>2. \A n : u \in W(n) <=> \E j \in Places(i, n) : u = UnitAt(prompt[n], j)
  OBVIOUS
<1>3. u \in UNION {W(n) : n \in Held} <=> \E n \in Held : u \in W(n)
  OBVIOUS
<1> HIDE DEF W
<1> QED
  BY <1>1, <1>2, <1>3

(* Values and units of the passages held against the answer, figure by     *)
(* figure.                                                                 *)
LEMMA UnitsAre ==
  ASSUME prompt \in Prompts, answer \in ModelAnswers, NEW i \in DOMAIN answer.figures,
         NEW source, source = SourceOf(answer, prompt)
  PROVE  /\ Number(i).value \in {x.value : x \in source}
              <=> \E n \in Held : Places(i, n) # {}
         /\ UnitsGiven(source, Number(i).value) = {_unit(u) : u \in UnitsFor(i)}
         /\ \A n \in DOMAIN prompt :
              Number(i).value \in {x.value : x \in Range(numbers_in(prompt[n]))} <=> Places(i, n) # {}
         /\ UnitsFor(i) \subseteq Spellings
<1>1. PICK f \in Figure : f = answer.figures[i] /\ Number(i).value = _value(f)
  BY QuestionAssumption, NumbersAre DEF Number
<1>2. used(GoodOf(answer, prompt), prompt) = Held /\ Held \subseteq DOMAIN prompt
  BY CitesAre DEF used, Held, GoodOf
<1>3. ASSUME NEW n \in DOMAIN prompt
      PROVE  /\ prompt[n] \in Seq(Figure)
             /\ _value(f) \in {x.value : x \in Range(numbers_in(prompt[n]))} <=> Places(i, n) # {}
             /\ \A j \in DOMAIN prompt[n] : j \in Places(i, n) <=> _value(prompt[n][j]) = _value(f)
  <2>1. prompt[n] \in Seq(Figure)
    BY QuestionAssumption, LenProperties, ElementOfSeq
  <2>2. \A j \in DOMAIN prompt[n] : _value(prompt[n][j]) = _value(f) <=> SameNumber(prompt[n][j], f)
    BY <2>1, NumbersAre, ValuesTell
  <2> QED
    BY <1>1, <2>1, <2>2, ValueIsThere DEF Places
<1>4. \A x : x \in source <=> \E n \in Held : x \in Range(numbers_in(prompt[n]))
  BY <1>2 DEF SourceOf
<1>5. _value(f) \in {x.value : x \in source} <=> \E n \in Held : Places(i, n) # {}
  BY <1>2, <1>3, <1>4
<1>6. ASSUME NEW c
      PROVE  c \in UnitsGiven(source, _value(f))
               <=> \E u \in UnitsFor(i) : c = _unit(u)
  <2>1. \A u \in Spellings : _unit(u) # NoUnit
    BY UnitIs
  <2>2. _unit(NoUnit) = NoUnit
    BY DEF _unit
  <2>3. ASSUME NEW n \in Held, NEW j \in DOMAIN prompt[n]
        PROVE  /\ UnitAt(prompt[n], j) \in Spellings \cup {NoUnit}
               /\ numbers_in(prompt[n])[j] \in Range(numbers_in(prompt[n]))
               /\ numbers_in(prompt[n])[j].value = _value(prompt[n][j])
               /\ numbers_in(prompt[n])[j].unit = _unit(UnitAt(prompt[n], j))
    BY <1>2, <1>3, NumbersAre
  <2>4. ASSUME NEW u \in UnitsFor(i)
        PROVE  _unit(u) \in UnitsGiven(source, _value(f))
    <3>0. PICK n \in Held : \E j \in Places(i, n) : u = UnitAt(prompt[n], j) /\ u # NoUnit
      BY UnitsForIs
    <3>1. PICK j \in Places(i, n) : u = UnitAt(prompt[n], j) /\ u # NoUnit
      BY <3>0
    <3>2. n \in DOMAIN prompt /\ j \in DOMAIN prompt[n] /\ _value(prompt[n][j]) = _value(f)
      BY <1>2, <1>3 DEF Places
    <3>3. PICK x \in source : x.value = _value(f) /\ x.unit = _unit(u)
      BY <1>4, <2>3, <3>1, <3>2
    <3>4. x.unit # NoUnit
      BY <2>1, <2>3, <3>1, <3>2, <3>3
    <3> QED
      BY <3>3, <3>4 DEF UnitsGiven
  <2>5. ASSUME c \in UnitsGiven(source, _value(f))
        PROVE  \E u \in UnitsFor(i) : c = _unit(u)
    <3>1. PICK x \in source : x.value = _value(f) /\ x.unit # NoUnit /\ c = x.unit
      BY <2>5 DEF UnitsGiven
    <3>2. PICK n \in Held : x \in Range(numbers_in(prompt[n]))
      BY <1>4, <3>1
    <3>3. PICK j \in DOMAIN prompt[n] : x = numbers_in(prompt[n])[j]
      BY <1>2, <1>3, <3>2, NumbersAre
    <3>4. j \in Places(i, n) /\ c = _unit(UnitAt(prompt[n], j)) /\ UnitAt(prompt[n], j) # NoUnit
      BY <1>2, <1>3, <2>2, <2>3, <3>1, <3>3
    <3> QED
      BY <3>4, UnitsForIs
  <2> QED
    BY <2>4, <2>5
<1>7. ASSUME NEW u \in UnitsFor(i) PROVE u \in Spellings
  <2>0. PICK n \in Held : \E j \in Places(i, n) : u = UnitAt(prompt[n], j) /\ u # NoUnit
    BY UnitsForIs
  <2>1. PICK j \in Places(i, n) : u = UnitAt(prompt[n], j) /\ u # NoUnit
    BY <2>0
  <2>2. n \in DOMAIN prompt /\ j \in DOMAIN prompt[n] /\ prompt[n] \in Seq(Figure)
    BY <1>2, <1>3 DEF Places
  <2> QED
    BY <2>1, <2>2, NumbersAre
<1> QED
  BY <1>1, <1>3, <1>5, <1>6, <1>7

(* The ways in which a figure is backed.                                   *)
Echoed(i) == \E j \in DOMAIN question.figures : SameNumber(question.figures[j], answer.figures[i])
Placed(i) == \E n \in Held : Places(i, n) # {}
Fits(i) ==
  LET u == UnitAt(answer.figures, i) IN
  \/ u = NoUnit
  \/ UnitsFor(i) = {}
  \/ \E v \in UnitsFor(i) : SameUnit(u, v)
  \/ /\ \E v \in UnitsFor(i) : SameUnit(v, "min")
     /\ ~\E v \in {"min", "hr", "sec"} : SameUnit(u, v)

(* The unit of a figure is contested exactly when it fits none printed.    *)
LEMMA MismatchIs ==
  ASSUME prompt \in Prompts, answer \in ModelAnswers, NEW i \in DOMAIN answer.figures
  PROVE  Mismatched(SourceOf(answer, prompt), Number(i)) <=> ~Fits(i)
<1>1. PICK u : u = UnitAt(answer.figures, i)
  OBVIOUS
<1>2. PICK S : S = UnitsFor(i)
  OBVIOUS
<1>3. PICK G : G = UnitsGiven(SourceOf(answer, prompt), Number(i).value)
  OBVIOUS
<1>4. u \in Spellings \cup {NoUnit} /\ Number(i).unit = _unit(u)
  BY <1>1, QuestionAssumption, NumbersAre DEF Number
<1>5. S \subseteq Spellings /\ G = {_unit(v) : v \in S}
  BY <1>2, <1>3, UnitsAre
<1>6. Mismatched(SourceOf(answer, prompt), Number(i))
        <=> /\ _unit(u) # NoUnit /\ G # {}
            /\ _unit(u) \notin G
            /\ ~("min" \in G /\ _unit(u) \notin {"h", "min", "s"})
  BY <1>3, <1>4 DEF Mismatched, _units_compatible, TIME_UNITS
<1>7. CASE u = NoUnit
  BY <1>1, <1>6, <1>7 DEF Fits, _unit
<1>8. CASE u \in Spellings
  <2>1. u # NoUnit /\ _unit(u) # NoUnit
    BY <1>8, UnitIs
  <2>2. G = {} <=> S = {}
    BY <1>5
  <2>3. _unit(u) \in G <=> \E v \in S : SameUnit(u, v)
    BY <1>5, <1>8, UnitsTell
  <2>4. "min" \in G <=> \E v \in S : SameUnit(v, "min")
    <3>1. "min" \in Spellings /\ _unit("min") = "min"
      BY TimeUnits
    <3>2. \A v \in S : SameUnit(v, "min") <=> _unit(v) = "min"
      BY <1>5, <3>1, UnitsTell
    <3> QED
      BY <1>5, <3>2
  <2>5. _unit(u) \in {"h", "min", "s"} <=> \E v \in {"min", "hr", "sec"} : SameUnit(u, v)
    <3>1. \A v \in {"min", "hr", "sec"} : SameUnit(u, v) <=> _unit(u) = _unit(v)
      BY <1>8, TimeUnits, UnitsTell
    <3> QED
      BY <3>1, TimeUnits
  <2>6. Fits(i) <=> \/ S = {}
                    \/ \E v \in S : SameUnit(u, v)
                    \/ /\ \E v \in S : SameUnit(v, "min")
                       /\ ~\E v \in {"min", "hr", "sec"} : SameUnit(u, v)
    BY <1>1, <1>2, <2>1 DEF Fits
  <2> QED
    BY <1>6, <2>1, <2>2, <2>3, <2>4, <2>5, <2>6
<1> QED
  BY <1>4, <1>7, <1>8

(* What becomes of the figures of the answer.                              *)
LEMMA FiguresSorted ==
  ASSUME prompt \in Prompts, answer \in ModelAnswers, question.figures \in Seq(Figure)
  PROVE  /\ \A x \in FoundIn(answer, question.figures) :
              \E i \in DOMAIN answer.figures : x = Number(i)
         /\ \A i \in DOMAIN answer.figures :
              /\ Number(i) \in FoundIn(answer, question.figures) <=> ~Echoed(i)
              /\ Number(i) \in UnknownIn(answer, prompt, question.figures) <=> ~Echoed(i) /\ ~Placed(i)
              /\ Number(i).written = written(answer.figures[i])
<1>1. answer.figures \in Seq(Figure)
  BY QuestionAssumption
<1>2. Range(numbers_in(answer.figures)) = {Number(i) : i \in DOMAIN answer.figures}
  BY <1>1, NumbersAre DEF Number
<1>3. ASSUME NEW i \in DOMAIN answer.figures
      PROVE  /\ Number(i) \in FoundIn(answer, question.figures) <=> ~Echoed(i)
             /\ Number(i) \in UnknownIn(answer, prompt, question.figures) <=> ~Echoed(i) /\ ~Placed(i)
             /\ Number(i).written = written(answer.figures[i])
  <2>1. /\ answer.figures[i] \in Figure
        /\ Number(i).value = _value(answer.figures[i])
        /\ Number(i).written = written(answer.figures[i])
    BY <1>1, NumbersAre DEF Number
  <2>2. Number(i).value \in {x.value : x \in Range(numbers_in(question.figures))} <=> Echoed(i)
    BY <2>1, ValueIsThere DEF Echoed
  <2>3. Number(i).value \in {x.value : x \in SourceOf(answer, prompt)} <=> Placed(i)
    BY UnitsAre DEF Placed
  <2>4. Number(i) \in FoundIn(answer, question.figures) <=> ~Echoed(i)
    BY <1>2, <2>2 DEF FoundIn
  <2> QED
    BY <2>1, <2>3, <2>4 DEF UnknownIn
<1> QED
  BY <1>2, <1>3 DEF FoundIn

(* An answer passes exactly when it should.                                *)
LEMMA OkMeans ==
  ASSUME prompt \in Prompts, answer \in ModelAnswers, question.figures \in Seq(Figure)
  PROVE  Ok(verify_answer(answer, prompt, question.figures))
           <=> CitesOnlyItsPrompt /\ \A i \in DOMAIN answer.figures : Backed(i)
<1>1. PICK found : found = FoundIn(answer, question.figures)
  OBVIOUS
<1>2. PICK missing : missing = UnknownIn(answer, prompt, question.figures)
  OBVIOUS
<1>3. PICK v : v = verify_answer(answer, prompt, question.figures)
  OBVIOUS
<1>4. /\ v.bad_citations = parse_citations(answer.cites) \ GoodOf(answer, prompt)
      /\ v.unsupported = {x.written : x \in missing}
      /\ v.unit_mismatch =
           {x.written : x \in {y \in found \ missing : Mismatched(SourceOf(answer, prompt), y)}}
  BY <1>1, <1>2, <1>3, VerifyIs
<1>5. v.bad_citations = {} <=> CitesOnlyItsPrompt
  BY <1>4, CitesAre DEF GoodOf
<1>6. Ok(v) <=> /\ CitesOnlyItsPrompt
                /\ missing = {}
                /\ \A x \in found : ~Mismatched(SourceOf(answer, prompt), x)
  BY <1>4, <1>5 DEF Ok
<1>7. missing = {} <=> \A i \in DOMAIN answer.figures : Echoed(i) \/ Placed(i)
  <2>1. \A x \in missing : x \in found
    BY <1>1, <1>2 DEF UnknownIn
  <2> QED
    BY <1>1, <1>2, <2>1, FiguresSorted
<1>8. (\A x \in found : ~Mismatched(SourceOf(answer, prompt), x))
        <=> \A i \in DOMAIN answer.figures : Echoed(i) \/ Fits(i)
  BY <1>1, FiguresSorted, MismatchIs
<1>9. \A i \in DOMAIN answer.figures : Backed(i) <=> Echoed(i) \/ (Placed(i) /\ Fits(i))
  BY DEF Backed, Echoed, Placed, Fits
<1> QED
  BY <1>3, <1>6, <1>7, <1>8, <1>9

(* A figure is said to be in the uncited passages that print it.           *)
LEMMA PointersMean ==
  ASSUME prompt \in Prompts, answer \in ModelAnswers, question.figures \in Seq(Figure),
         NEW x \in verify_answer(answer, prompt, question.figures).found_in_uncited
  PROVE  \E i \in DOMAIN answer.figures :
           /\ written(answer.figures[i]) = x.figure
           /\ x.blocks = {n \in DOMAIN prompt \ Held : Places(i, n) # {}}
<1>1. PICK y \in UnknownIn(answer, prompt, question.figures) :
        /\ x = [figure |-> y.written, blocks |-> Elsewhere(answer, prompt, y.value)]
        /\ Elsewhere(answer, prompt, y.value) # {}
  BY VerifyIs
<1>2. PICK i \in DOMAIN answer.figures : y = Number(i)
  BY FiguresSorted DEF UnknownIn
<1>3. Held = GoodOf(answer, prompt)
  BY <1>1, CitesAre DEF Held, GoodOf, Elsewhere
<1>4. Elsewhere(answer, prompt, y.value) = {n \in DOMAIN prompt \ Held : Places(i, n) # {}}
  <2>1. \A n \in DOMAIN prompt :
          y.value \in {z.value : z \in Range(numbers_in(prompt[n]))} <=> Places(i, n) # {}
    BY <1>2, UnitsAre
  <2>2. GoodOf(answer, prompt) # {}
    BY <1>1 DEF Elsewhere
  <2> QED
    BY <1>3, <2>1, <2>2 DEF Elsewhere
<1>5. written(answer.figures[i]) = y.written
  BY <1>2, FiguresSorted
<1> QED
  BY <1>1, <1>4, <1>5

-----------------------------------------------------------------------------
(* A word of the table is as well known as its pair.                       *)
LEMMA PairIsKnown ==
  ASSUME NEW c, IsFiniteSet(DOMAIN c), NEW terms, NEW b \in DOMAIN SPELLING_VARIANTS,
         NEW pair, pair = {b, SPELLING_VARIANTS[b]},
         NEW holders, holders = {k \in DOMAIN c : stems(c[k]) \cap stems(pair) # {}},
         Cardinality(holders) >= MinChunks
  PROVE  judge(term_chunk_counts(terms, c), MinChunks) \cap pair = {}
<1> SUFFICES ASSUME NEW t \in pair, t \in judge(term_chunk_counts(terms, c), MinChunks) PROVE FALSE
  OBVIOUS
<1>1. PICK S : S = {k \in DOMAIN c : stems(c[k]) \cap stems(_alternatives(t)) # {}}
  OBVIOUS
<1>2. Cardinality(S) < MinChunks
  BY <1>1 DEF judge, term_chunk_counts
<1>3. pair \subseteq _alternatives(t)
  BY QuestionAssumption DEF _alternatives
<1>4. stems(pair) \subseteq stems(_alternatives(t))
  BY <1>3 DEF stems
<1>5. holders \subseteq S /\ S \subseteq DOMAIN c
  BY <1>1, <1>4
<1>6. IsFiniteSet(S) /\ Cardinality(holders) <= Cardinality(S)
  BY <1>5, FS_Subset
<1>7. Cardinality(S) \in Nat /\ Cardinality(holders) \in Nat
  BY <1>5, <1>6, FS_Subset, FS_CardinalityType
<1> QED
  BY <1>2, <1>6, <1>7, QuestionAssumption

-----------------------------------------------------------------------------
(* Every conjunct is about what the step before left behind.               *)
QuestionInv ==
  /\ question.figures \in Seq(Figure) /\ IsFiniteSet(DOMAIN corpus)
  /\ step \in {"asked", "refused", "prompted", "returned", "withheld"}
  /\ \/ unknown = {}
     \/ unknown = judge(term_chunk_counts(question_terms(question.words), corpus), MinChunks)
  /\ step \in {"prompted", "returned", "withheld"} => prompt \in Prompts
  /\ step \in {"returned", "withheld"} =>
       /\ answer \in ModelAnswers
       /\ verification = verify_answer(answer, prompt, question.figures)
       /\ step = "returned" <=> Ok(verification)

(* A question that was just asked.                                         *)
LEMMA InitQuestionInv == QuestionInit => QuestionInv
  BY QuestionAssumption DEF QuestionInit, QuestionStart, QuestionInv

(* Both steps of a question keep the invariant.                            *)
LEMMA NextQuestionInv == QuestionInv /\ [QuestionNext]_questionVars => QuestionInv'
<1> SUFFICES ASSUME QuestionInv, [QuestionNext]_questionVars PROVE QuestionInv'
  OBVIOUS
<1>1. CASE JudgeWords
  BY <1>1 DEF JudgeWords, QuestionInv
<1>2. CASE CheckAnswer
  BY <1>2 DEF CheckAnswer, QuestionInv
<1>3. CASE UNCHANGED questionVars
  BY <1>3 DEF questionVars, QuestionInv
<1> QED
  BY <1>1, <1>2, <1>3 DEF QuestionNext

(* The invariant is what the checks promise.                               *)
LEMMA QuestionInvSuffices == QuestionInv => ChecksKeepTheirWord
<1> SUFFICES ASSUME QuestionInv PROVE ChecksKeepTheirWord
  OBVIOUS
<1>1. FiguresAreBacked
  BY OkMeans DEF QuestionInv, FiguresAreBacked
<1>2. PointersAreTrue
  BY PointersMean DEF QuestionInv, PointersAreTrue
<1>3. SpellingsAreOne
  <2> SUFFICES ASSUME NEW b \in DOMAIN SPELLING_VARIANTS,
                      NEW pair, pair = {b, SPELLING_VARIANTS[b]},
                      NEW holders, holders = {k \in DOMAIN corpus : stems(corpus[k]) \cap stems(pair) # {}},
                      Cardinality(holders) >= MinChunks
               PROVE  unknown \cap pair = {}
    BY DEF SpellingsAreOne
  <2> QED
    BY PairIsKnown DEF QuestionInv
<1> QED
  BY <1>1, <1>2, <1>3 DEF ChecksKeepTheirWord

(* The two checks by code keep their word for any question, prompt of up to *)
(* 50 passages and answer (verify_answer, check_answerability).            *)
THEOREM ChecksKept == QuestionSpec => []ChecksKeepTheirWord
<1>1. QuestionInit => QuestionInv
  BY InitQuestionInv
<1>2. QuestionInv /\ [QuestionNext]_questionVars => QuestionInv'
  BY NextQuestionInv
<1>3. QuestionInv => ChecksKeepTheirWord
  BY QuestionInvSuffices
<1> QED
  BY <1>1, <1>2, <1>3, PTL DEF QuestionSpec
=============================================================================

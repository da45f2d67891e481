----------------------------- MODULE GuardProofs -----------------------------
(***************************************************************************)
(* Proofs about what stands before a request to the API.                   *)
(*   Idempotency  for every set of requests, bodies and faults: the        *)
(*                exclusive ownership of a key, at most one row unless an  *)
(*                outcome was forgotten or a claim overrun, and the        *)
(*                refinement of OnceContract;                              *)
(*   RateLimiter  for any capacity, price, refill rate and bounds of the   *)
(*                clock.  What a request or an observer sees of a bucket   *)
(*                is Level; every fact is about how a step moves it.       *)
(***************************************************************************)
EXTENDS Idempotency, RateLimiter, TLAPS

-----------------------------------------------------------------------------
(* Every reachable state is well typed.                                    *)
LEMMA InitTypeOK == Init => TypeOK
<1> SUFFICES ASSUME Init PROVE TypeOK
  OBVIOUS
<1>1. entry \in [state : {"absent", "in_progress", "done"},
                 owner : Requests \cup {NoRequest}, ex : {"none", "lock", "ttl"}]
  BY DEF Init, Absent
<1>2. forgotten \in BOOLEAN /\ overrun \in BOOLEAN
  BY Zenon DEF Init
<1> QED
  BY <1>1, <1>2 DEF Init, TypeOK

LEMMA NextTypeOK == TypeOK /\ [Next]_vars => TypeOK'
<1> SUFFICES ASSUME TypeOK, [Next]_vars PROVE TypeOK'
  OBVIOUS
<1> USE DEF TypeOK, Absent, ClaimOf, DoneBy, Goto, Answer
<1>1. ASSUME NEW r \in Requests, Claim(r) PROVE TypeOK'
  BY <1>1 DEF Claim
<1>2. ASSUME NEW r \in Requests, ClaimReplyLost(r) PROVE TypeOK'
  BY <1>2 DEF ClaimReplyLost
<1>3. ASSUME NEW r \in Requests, Read(r) PROVE TypeOK'
  BY <1>3 DEF Read
<1>4. ASSUME NEW r \in Requests, BeginFails(r) PROVE TypeOK'
  BY <1>4 DEF BeginFails
<1>5. ASSUME NEW r \in Requests, Commit(r) \/ Return(r) PROVE TypeOK'
  BY <1>5 DEF Commit, Return
<1>12. ASSUME NEW r \in Requests, ActionFails(r) PROVE TypeOK'
  <2>1. forgotten' \in BOOLEAN
    BY <1>12, Zenon DEF ActionFails
  <2> QED
    BY <1>12, <2>1 DEF ActionFails
<1>6. ASSUME NEW r \in Requests, Complete(r) \/ CompleteLost(r) PROVE TypeOK'
  <2>1. forgotten' \in BOOLEAN
    BY <1>6, Zenon DEF Complete, CompleteLost
  <2> QED
    BY <1>6, <2>1 DEF Complete, CompleteLost
<1>7. ASSUME NEW r \in Requests, Abort(r) \/ AbortLost(r) PROVE TypeOK'
  BY <1>7 DEF Abort, AbortLost
<1>8. ASSUME NEW r \in Requests, Crash(r) PROVE TypeOK'
  BY <1>8 DEF Crash
<1>9. CASE ExpireClaim
  BY <1>9 DEF ExpireClaim
<1>10. CASE ExpireDone
  BY <1>10 DEF ExpireDone
<1>11. CASE UNCHANGED vars
  BY <1>11 DEF vars
<1> QED
  BY <1>1, <1>2, <1>3, <1>4, <1>5, <1>6, <1>7, <1>8, <1>9, <1>10, <1>11, <1>12 DEF Next, Step

(* Idempotency is well typed in every behaviour (type invariant).          *)
THEOREM TypeCorrect == Spec => []TypeOK
  BY InitTypeOK, NextTypeOK, PTL DEF Spec

-----------------------------------------------------------------------------
(***************************************************************************)
(* OnceUnlessForgotten is not inductive: it says nothing of who may write  *)
(* the next row.  The strengthening says where the promise lives.  As long *)
(* as nothing was forgotten or overrun, a working request owns the key's   *)
(* claim, and a stored row belongs to a request that still works on it or  *)
(* is remembered as the finished entry.                                    *)
(***************************************************************************)
RowsHaveOwners ==
  \A r \in Requests :
    /\ pc[r] \in {"committed", "complete"} => r \in rows
    /\ r \in rows => \/ pc[r] \in {"committed", "complete"}
                     \/ entry.state = "done" /\ entry.owner = r

WorkersHoldTheClaim == \A r \in Requests : Working(r) => Holds(r)

OwnershipInv ==
  ~forgotten /\ ~overrun => RowsHaveOwners /\ WorkersHoldTheClaim

LEMMA OwnershipImpliesOnce == TypeOK /\ OwnershipInv => OnceUnlessForgotten
  BY DEF TypeOK, OwnershipInv, RowsHaveOwners, WorkersHoldTheClaim,
         OnceUnlessForgotten, Working, Holds

LEMMA InitOwnership == Init => OwnershipInv
  BY DEF Init, OwnershipInv, RowsHaveOwners, WorkersHoldTheClaim, Working, Absent

LEMMA NextOwnership == TypeOK /\ OwnershipInv /\ [Next]_vars => OwnershipInv'
<1> SUFFICES ASSUME TypeOK, OwnershipInv, [Next]_vars, ~forgotten', ~overrun'
             PROVE  RowsHaveOwners' /\ WorkersHoldTheClaim'
  BY DEF OwnershipInv
<1> USE DEF TypeOK, RowsHaveOwners, WorkersHoldTheClaim, Working, Holds,
            Absent, ClaimOf, DoneBy, Goto, Answer
<1>0. ~forgotten /\ ~overrun
  BY Zenon DEF Next, Step, vars, Claim, ClaimReplyLost, Read, BeginFails, Commit, Return,
     ActionFails, Complete, CompleteLost, Abort, AbortLost, Crash, ExpireClaim, ExpireDone
<1>i. RowsHaveOwners /\ WorkersHoldTheClaim
  BY <1>0 DEF OwnershipInv
<1>1. ASSUME NEW r \in Requests, Claim(r)
      PROVE  RowsHaveOwners' /\ WorkersHoldTheClaim'
  BY <1>1, <1>i DEF Claim
<1>2. ASSUME NEW r \in Requests, ClaimReplyLost(r)
      PROVE  RowsHaveOwners' /\ WorkersHoldTheClaim'
  BY <1>2, <1>i DEF ClaimReplyLost
<1>3. ASSUME NEW r \in Requests, Read(r) \/ BeginFails(r)
      PROVE  RowsHaveOwners' /\ WorkersHoldTheClaim'
  BY <1>3, <1>i DEF Read, BeginFails
<1>4. ASSUME NEW r \in Requests, Commit(r) \/ Return(r)
      PROVE  RowsHaveOwners' /\ WorkersHoldTheClaim'
  BY <1>4, <1>i DEF Commit, Return
<1>5. ASSUME NEW r \in Requests, ActionFails(r)
      PROVE  RowsHaveOwners' /\ WorkersHoldTheClaim'
  BY <1>5, <1>i DEF ActionFails
<1>6. ASSUME NEW r \in Requests, Complete(r)
      PROVE  RowsHaveOwners' /\ WorkersHoldTheClaim'
  BY <1>6, <1>i DEF Complete
<1>7. ASSUME NEW r \in Requests, Abort(r) \/ AbortLost(r)
      PROVE  RowsHaveOwners' /\ WorkersHoldTheClaim'
  BY <1>7, <1>i DEF Abort, AbortLost
<1>8. ASSUME NEW r \in Requests, Crash(r)
      PROVE  RowsHaveOwners' /\ WorkersHoldTheClaim'
  <2>1. pc[r] \notin {"committed", "complete"}
    BY <1>8, Zenon DEF Crash
  <2> QED
    BY <1>8, <1>i, <2>1 DEF Crash
<1>9. CASE ExpireClaim
  BY <1>9, <1>i DEF ExpireClaim
<1>10. CASE UNCHANGED vars
  BY <1>10, <1>i DEF vars
<1>11. ASSUME NEW r \in Requests, CompleteLost(r) PROVE FALSE
  BY <1>11 DEF CompleteLost
<1>12. ~ExpireDone
  BY DEF ExpireDone
<1> QED
  BY <1>1, <1>2, <1>3, <1>4, <1>5, <1>6, <1>7, <1>8, <1>9, <1>10, <1>11, <1>12
     DEF Next, Step

(* At most one row per key, unless an outcome was forgotten or a claim was *)
(* overrun: for any number of requests and any combination of faults.      *)
THEOREM AtMostOneRow == Spec => []OnceUnlessForgotten
<1>1. Init => TypeOK /\ OwnershipInv
  BY InitTypeOK, InitOwnership
<1>2. TypeOK /\ OwnershipInv /\ [Next]_vars => (TypeOK /\ OwnershipInv)'
  BY NextTypeOK, NextOwnership
<1> QED
  BY <1>1, <1>2, OwnershipImpliesOnce, PTL DEF Spec

-----------------------------------------------------------------------------
(***************************************************************************)
(* The refinement needs three more facts, which hold whatever is forgotten *)
(* or overrun: a finished entry and a request past its commit have a row,  *)
(* and a request has no reply before its handler ends.                     *)
(***************************************************************************)
AnswersHaveRows ==
  /\ \A r \in Requests : pc[r] \in {"committed", "complete"} => r \in rows
  /\ entry.state = "done" => entry.owner \in rows
  /\ \A r \in Requests : pc[r] # "end" => reply[r] = NoRequest

LEMMA InitAnswers == Init => AnswersHaveRows
  BY DEF Init, AnswersHaveRows, Absent

LEMMA NextAnswers == TypeOK /\ AnswersHaveRows /\ [Next]_vars => AnswersHaveRows'
<1> SUFFICES ASSUME TypeOK, AnswersHaveRows, [Next]_vars PROVE AnswersHaveRows'
  OBVIOUS
<1> USE DEF TypeOK, AnswersHaveRows, Absent, ClaimOf, DoneBy, Goto, Answer, Holds
<1>1. ASSUME NEW r \in Requests, Claim(r) \/ ClaimReplyLost(r) PROVE AnswersHaveRows'
  BY <1>1 DEF Claim, ClaimReplyLost
<1>2. ASSUME NEW r \in Requests, Read(r) \/ BeginFails(r) PROVE AnswersHaveRows'
  BY <1>2 DEF Read, BeginFails
<1>3. ASSUME NEW r \in Requests, Commit(r) \/ Return(r) PROVE AnswersHaveRows'
  BY <1>3 DEF Commit, Return
<1>4. ASSUME NEW r \in Requests, ActionFails(r) PROVE AnswersHaveRows'
  BY <1>4 DEF ActionFails
<1>5. ASSUME NEW r \in Requests, Complete(r) \/ CompleteLost(r) PROVE AnswersHaveRows'
  BY <1>5 DEF Complete, CompleteLost
<1>6. ASSUME NEW r \in Requests, Abort(r) \/ AbortLost(r) PROVE AnswersHaveRows'
  BY <1>6 DEF Abort, AbortLost
<1>7. ASSUME NEW r \in Requests, Crash(r) PROVE AnswersHaveRows'
  BY <1>7 DEF Crash
<1>8. CASE ExpireClaim \/ ExpireDone
  BY <1>8 DEF ExpireClaim, ExpireDone
<1>9. CASE UNCHANGED vars
  BY <1>9 DEF vars
<1> QED
  BY <1>1, <1>2, <1>3, <1>4, <1>5, <1>6, <1>7, <1>8, <1>9 DEF Next, Step

RefinementInv == TypeOK /\ OwnershipInv /\ AnswersHaveRows

(* A refused or failed request leaves the replies as they are.             *)
LEMMA NoReply ==
  ASSUME TypeOK, AnswersHaveRows, NEW r \in Requests, pc[r] # "end",
         NEW what, Answer(r, what, NoRequest)
  PROVE  reply' = reply
  BY DEF TypeOK, AnswersHaveRows, Answer

LEMMA StepRefines ==
  RefinementInv /\ [Next]_vars => [Once!Next]_(Once!vars)
<1> SUFFICES ASSUME RefinementInv, [Next]_vars PROVE [Once!Next]_(Once!vars)
  OBVIOUS
<1> USE DEF RefinementInv, Once!vars
<1>1. ASSUME NEW r \in Requests, Claim(r) PROVE UNCHANGED Once!vars
  BY <1>1 DEF Claim, Goto
<1>2. ASSUME NEW r \in Requests, ClaimReplyLost(r) PROVE UNCHANGED Once!vars
  BY <1>2, NoReply DEF ClaimReplyLost, Goto
<1>3. ASSUME NEW r \in Requests, Read(r) PROVE [Once!Next]_(Once!vars)
  <2>1. CASE reply' = reply
    BY <1>3, <2>1 DEF Read
  <2>2. CASE Answer(r, "replay", entry.owner) /\ entry.state = "done"
             /\ BodyOf[entry.owner] = BodyOf[r]
    <3>1. reply[r] = NoRequest /\ entry.owner \in rows
      BY <1>3, <2>2 DEF Read, AnswersHaveRows
    <3>2. UNCHANGED <<rows, forgotten, overrun>>
      BY <1>3 DEF Read
    <3>3. Once!Answer(r)
      BY <2>2, <3>1, <3>2, Zenon DEF Once!Answer, Answer
    <3> QED
      BY <3>3 DEF Once!Next
  <2> QED
    BY <1>3, <2>1, <2>2, NoReply DEF Read
<1>4. ASSUME NEW r \in Requests, BeginFails(r) PROVE UNCHANGED Once!vars
  BY <1>4, NoReply DEF BeginFails
<1>5. ASSUME NEW r \in Requests, Commit(r) PROVE Once!Next
  <2>1. rows = {} \/ forgotten \/ overrun
    BY <1>5 DEF Commit, OwnershipInv, RowsHaveOwners, WorkersHoldTheClaim,
                Working, Holds, TypeOK
  <2>2. Once!Store(r)
    BY <1>5, <2>1, Zenon DEF Commit, Goto, Once!Store
  <2> QED
    BY <2>2 DEF Once!Next
<1>6. ASSUME NEW r \in Requests, Return(r) PROVE UNCHANGED Once!vars
  BY <1>6 DEF Return, Goto
<1>7. ASSUME NEW r \in Requests, ActionFails(r) PROVE [Once!Next]_(Once!vars)
  <2>1. UNCHANGED <<reply, rows, overrun>>
    BY <1>7 DEF ActionFails, Goto
  <2>2. CASE forgotten' = TRUE
    <3>1. Once!Expose
      BY <2>1, <2>2, Zenon DEF Once!Expose
    <3> QED
      BY <3>1 DEF Once!Next
  <2>3. CASE forgotten' = forgotten
    BY <2>1, <2>3, Zenon
  <2> QED
    BY <1>7, <2>2, <2>3, Zenon DEF ActionFails
<1>8. ASSUME NEW r \in Requests, Complete(r) \/ CompleteLost(r) PROVE Once!Next
  <2>1. reply[r] = NoRequest /\ r \in rows
    BY <1>8 DEF Complete, CompleteLost, AnswersHaveRows
  <2>2. (forgotten \/ overrun)' \in {forgotten \/ overrun, TRUE}
    <3>1. UNCHANGED overrun /\ (forgotten' = forgotten \/ forgotten' = TRUE)
      BY <1>8, Zenon DEF Complete, CompleteLost
    <3>2. CASE forgotten' = TRUE
      <4>1. (forgotten \/ overrun)' = TRUE
        BY <3>2, Zenon
      <4> QED
        BY <4>1
    <3>3. CASE forgotten' = forgotten
      <4>1. (forgotten \/ overrun)' = (forgotten \/ overrun)
        BY <3>1, <3>3, Zenon
      <4> QED
        BY <4>1
    <3> QED
      BY <3>1, <3>2, <3>3
  <2>3. Answer(r, "ok", r) /\ rows' = rows
    BY <1>8 DEF Complete, CompleteLost
  <2>4. Once!Answer(r)
    BY <2>1, <2>2, <2>3, Zenon DEF Answer, Once!Answer
  <2> QED
    BY <2>4 DEF Once!Next
<1>9. ASSUME NEW r \in Requests, Abort(r) \/ AbortLost(r) PROVE UNCHANGED Once!vars
  BY <1>9, NoReply DEF Abort, AbortLost
<1>10. ASSUME NEW r \in Requests, Crash(r) PROVE [Once!Next]_(Once!vars)
  <2>1. UNCHANGED <<reply, rows, overrun>>
    BY <1>10, NoReply DEF Crash
  <2>2. forgotten' = forgotten \/ forgotten' = TRUE
    BY <1>10, Zenon DEF Crash, TypeOK
  <2>3. CASE forgotten' = TRUE
    <3>1. Once!Expose
      BY <2>1, <2>3, Zenon DEF Once!Expose
    <3> QED
      BY <3>1 DEF Once!Next
  <2> QED
    BY <2>1, <2>2, <2>3, Zenon
<1>11. CASE ExpireClaim
  <2>1. UNCHANGED <<reply, rows, forgotten>>
    BY <1>11 DEF ExpireClaim
  <2>2. overrun' = overrun \/ overrun' = TRUE
    BY <1>11, Zenon DEF ExpireClaim, TypeOK
  <2>3. CASE overrun' = TRUE
    <3>1. Once!Expose
      BY <2>1, <2>3, Zenon DEF Once!Expose
    <3> QED
      BY <3>1 DEF Once!Next
  <2> QED
    BY <2>1, <2>2, <2>3, Zenon
<1>12. CASE ExpireDone
  BY <1>12, Zenon DEF ExpireDone, Once!Next, Once!Expose
<1>13. CASE UNCHANGED vars
  BY <1>13 DEF vars
<1> QED
  BY <1>1, <1>2, <1>3, <1>4, <1>5, <1>6, <1>7, <1>8, <1>9, <1>10, <1>11, <1>12, <1>13
     DEF Next, Step

(* Idempotency implements OnceContract under the mapping of its rows and   *)
(* replies: run_once keeps its promise until an outcome is forgotten or a  *)
(* claim overrun.                                                          *)
THEOREM Refinement == Spec => ImplementsOnce
<1>1. Init => RefinementInv
  BY InitTypeOK, InitOwnership, InitAnswers DEF RefinementInv
<1>2. RefinementInv /\ [Next]_vars => RefinementInv'
  BY NextTypeOK, NextOwnership, NextAnswers DEF RefinementInv
<1>3. Init => Once!Init
  BY Zenon DEF Init, Once!Init
<1> QED
  BY <1>1, <1>2, <1>3, StepRefines, PTL DEF Spec, ImplementsOnce, Once!Spec

-----------------------------------------------------------------------------
(* A working request loses its claim only to expiry or to a finished       *)
(* result: the token protects it from every claim and release of others.   *)
THEOREM ClaimPrivacy == Spec => ClaimIsPrivate
<1>1. ASSUME TypeOK, [Next]_vars, NEW q \in Requests, Holds(q), Working(q),
             pc'[q] = pc[q], ~Holds(q)'
      PROVE  (entry' = Absent /\ pc' = pc) \/ entry'.state = "done"
  <2> USE DEF TypeOK, Holds, Working, Absent, ClaimOf, DoneBy, Goto, Answer
  <2>1. ASSUME NEW r \in Requests, Claim(r) \/ ClaimReplyLost(r) PROVE FALSE
    BY <1>1, <2>1 DEF Claim, ClaimReplyLost
  <2>2. ASSUME NEW r \in Requests,
               Read(r) \/ BeginFails(r) \/ Commit(r) \/ Return(r) \/ ActionFails(r)
                 \/ CompleteLost(r) \/ AbortLost(r) \/ Crash(r)
        PROVE  FALSE
    BY <1>1, <2>2 DEF Read, BeginFails, Commit, Return, ActionFails, CompleteLost,
                      AbortLost, Crash
  <2>3. ASSUME NEW r \in Requests, Abort(r) PROVE FALSE
    BY <1>1, <2>3 DEF Abort
  <2>4. ASSUME NEW r \in Requests, Complete(r) PROVE entry'.state = "done"
    BY <2>4 DEF Complete
  <2>5. CASE ExpireClaim \/ ExpireDone
    BY <2>5 DEF ExpireClaim, ExpireDone
  <2>6. CASE UNCHANGED vars
    BY <1>1, <2>6 DEF vars
  <2> QED
    BY <1>1, <2>1, <2>2, <2>3, <2>4, <2>5, <2>6 DEF Next, Step
<1>2. TypeOK /\ [Next]_vars =>
        [\A r \in Requests :
           Holds(r) /\ Working(r) /\ pc'[r] = pc[r] /\ ~Holds(r)'
             => (entry' = Absent /\ pc' = pc) \/ entry'.state = "done"]_vars
  BY <1>1
<1> QED
  BY <1>2, TypeCorrect, PTL DEF Spec, ClaimIsPrivate

(* No two requests work at once.  The strengthening names the claim that   *)
(* keeps them apart; unlike OwnershipInv it holds also after an outcome    *)
(* was forgotten, so a retry that runs again still runs alone.             *)
ExclusionInv == ~overrun => WorkersHoldTheClaim

LEMMA NextExclusion == TypeOK /\ ExclusionInv /\ [Next]_vars => ExclusionInv'
<1> SUFFICES ASSUME TypeOK, ExclusionInv, [Next]_vars, ~overrun'
             PROVE  WorkersHoldTheClaim'
  BY DEF ExclusionInv
<1> USE DEF TypeOK, WorkersHoldTheClaim, Working, Holds, Absent, ClaimOf, DoneBy, Goto, Answer
<1>0. ~overrun
  BY Zenon DEF Next, Step, vars, Claim, ClaimReplyLost, Read, BeginFails, Commit, Return,
     ActionFails, Complete, CompleteLost, Abort, AbortLost, Crash, ExpireClaim, ExpireDone
<1>i. WorkersHoldTheClaim
  BY <1>0 DEF ExclusionInv
<1>1. ASSUME NEW r \in Requests, Claim(r) \/ ClaimReplyLost(r) PROVE WorkersHoldTheClaim'
  BY <1>1, <1>i DEF Claim, ClaimReplyLost
<1>2. ASSUME NEW r \in Requests, Read(r) \/ BeginFails(r) PROVE WorkersHoldTheClaim'
  BY <1>2, <1>i DEF Read, BeginFails
<1>3. ASSUME NEW r \in Requests, Commit(r) \/ Return(r) \/ ActionFails(r)
      PROVE  WorkersHoldTheClaim'
  BY <1>3, <1>i DEF Commit, Return, ActionFails
<1>4. ASSUME NEW r \in Requests, Complete(r) \/ CompleteLost(r) PROVE WorkersHoldTheClaim'
  BY <1>4, <1>i DEF Complete, CompleteLost
<1>5. ASSUME NEW r \in Requests, Abort(r) \/ AbortLost(r) PROVE WorkersHoldTheClaim'
  BY <1>5, <1>i DEF Abort, AbortLost
<1>6. ASSUME NEW r \in Requests, Crash(r) PROVE WorkersHoldTheClaim'
  BY <1>6, <1>i DEF Crash
<1>7. CASE ExpireClaim \/ ExpireDone
  BY <1>7, <1>i DEF ExpireClaim, ExpireDone
<1>8. CASE UNCHANGED vars
  BY <1>8, <1>i DEF vars
<1> QED
  BY <1>1, <1>2, <1>3, <1>4, <1>5, <1>6, <1>7, <1>8 DEF Next, Step

(* The work runs under one claim at a time, for any number of requests and *)
(* any combination of faults (property WorkIsExclusive).                   *)
THEOREM ExclusiveWork == Spec => []WorkIsExclusive
<1>1. Init => ExclusionInv
  BY DEF Init, ExclusionInv, WorkersHoldTheClaim, Working
<1>2. TypeOK /\ ExclusionInv => WorkIsExclusive
  BY DEF ExclusionInv, WorkersHoldTheClaim, WorkIsExclusive, Holds
<1> QED
  BY <1>1, <1>2, NextExclusion, TypeCorrect, PTL DEF Spec

-----------------------------------------------------------------------------
(* The rate limiter.                                                       *)
(* Rounding up to whole seconds.                                           *)
LEMMA CeilDivCovers ==
  ASSUME NEW a \in Nat, NEW b \in Nat \ {0}
  PROVE  /\ CeilDiv(a, b) \in Nat
         /\ b * CeilDiv(a, b) \in Nat
         /\ b * CeilDiv(a, b) >= a
<1> DEFINE q == (a + b - 1) \div b
<1> DEFINE r == (a + b - 1) % b
<1>1. a + b - 1 \in Nat
  OBVIOUS
<1>2. q \in Nat /\ r \in 0..(b - 1) /\ a + b - 1 = b * q + r
  BY <1>1, Z3
<1> QED
  BY <1>2, Z3 DEF CeilDiv

(* EXPIRE gives an idle bucket the time to fill up.                        *)
LEMMA LifetimeFills == Lifetime \in Nat /\ Lifetime >= Capacity
<1>1. TicksPerSecond * CeilDiv(Capacity, TicksPerSecond) >= Capacity
      /\ CeilDiv(Capacity, TicksPerSecond) \in Nat
      /\ TicksPerSecond * CeilDiv(Capacity, TicksPerSecond) \in Nat
  BY CeilDivCovers, LimiterAssumption
<1> DEFINE n == CeilDiv(Capacity, TicksPerSecond)
<1>2. TicksPerSecond * (n + 1) = TicksPerSecond * n + TicksPerSecond
  BY <1>1, LimiterAssumption, Z3
<1> HIDE DEF n
<1> QED
  BY <1>1, <1>2, LimiterAssumption, Z3 DEF Lifetime, n

(* RetryAfter waits until the missing units are refilled.                  *)
LEMMA RetryWaits ==
  ASSUME NEW tokens \in 0..Cost
  PROVE  /\ TicksPerSecond * RetryAfter(tokens) \in Nat
         /\ tokens + TicksPerSecond * RetryAfter(tokens) >= Cost
<1>1. Cost - tokens \in Nat
  BY LimiterAssumption
<1>2. /\ TicksPerSecond * CeilDiv(Cost - tokens, TicksPerSecond) \in Nat
      /\ TicksPerSecond * CeilDiv(Cost - tokens, TicksPerSecond) >= Cost - tokens
  BY <1>1, CeilDivCovers, LimiterAssumption
<1> DEFINE wait == TicksPerSecond * CeilDiv(Cost - tokens, TicksPerSecond)
<1>3. wait \in Nat /\ wait >= Cost - tokens
  BY <1>2
<1> HIDE DEF wait
<1>4. tokens + wait >= Cost
  BY <1>3, LimiterAssumption
<1> QED
  BY <1>3, <1>4 DEF RetryAfter, wait

-----------------------------------------------------------------------------
(* What a stored bucket looks like: a level the script wrote, and the      *)
(* expiry it set with it.                                                  *)
BucketOK ==
  bucket # NoBucket => bucket.tokens \in 0..Capacity /\ bucket.expireAt = bucket.ts + Lifetime

LimiterInv == LimiterTypeOK /\ BucketOK

LEMMA LevelInRange == LimiterInv => Level \in 0..Capacity
  BY LimiterAssumption DEF LimiterInv, LimiterTypeOK, BucketOK, Level, Least, Most, NoBucket, Never

(* Storing a level makes it the level: no time has passed.                 *)
LEMMA StoredLevel ==
  ASSUME LimiterInv, NEW n \in 0..Capacity, Store(n), clock' = clock
  PROVE  Level' = n /\ bucket' # NoBucket /\ BucketOK'
         /\ bucket' \in [tokens : Never..Capacity, ts : 0..MaxClock, expireAt : Nat]
<1>1. bucket' = [tokens |-> n, ts |-> clock, expireAt |-> clock + Lifetime]
  BY DEF Store
<1>2. clock \in 0..MaxClock /\ clock \in Nat /\ Lifetime \in Nat
  BY LifetimeFills, LimiterAssumption DEF LimiterInv, LimiterTypeOK
<1>3. bucket' # NoBucket /\ bucket'.tokens = n /\ bucket'.ts = clock
      /\ bucket'.expireAt = clock + Lifetime
  BY <1>1, LimiterAssumption DEF NoBucket, Never
<1>4. Level' = n
  BY <1>2, <1>3, LimiterAssumption DEF Level, Least, Most
<1>5. n \in Never..Capacity /\ clock + Lifetime \in Nat
  BY <1>2, LimiterAssumption DEF Never
<1>6. Lifetime' = Lifetime
  BY DEF Lifetime, CeilDiv
<1> QED
  BY <1>1, <1>2, <1>3, <1>4, <1>5, <1>6 DEF BucketOK

(* An expired bucket was full: the script would have read Capacity.        *)
LEMMA ExpiredIsFull ==
  ASSUME LimiterInv, bucket # NoBucket, clock >= bucket.expireAt
  PROVE  Level = Capacity
  BY LifetimeFills, LimiterAssumption
     DEF LimiterInv, LimiterTypeOK, BucketOK, Level, Least, Most, NoBucket, Never

LEMMA InitLimiterInv == LimiterInit => LimiterInv
  BY LimiterAssumption DEF LimiterInit, LimiterInv, LimiterTypeOK, BucketOK, NoBucket, Never

LEMMA NextLimiterInv == LimiterInv /\ [LimiterNext]_limiterVars => LimiterInv'
<1> SUFFICES ASSUME LimiterInv, [LimiterNext]_limiterVars PROVE LimiterInv'
  OBVIOUS
<1>0. Level \in 0..Capacity /\ Cost \in 1..Capacity /\ Capacity \in Nat
  BY LevelInRange, LimiterAssumption
<1> USE LimiterAssumption DEF LimiterInv
<1>1. CASE HitAllowed
  <2>1. Level - Cost \in 0..Capacity
    BY <1>0, <1>1 DEF HitAllowed
  <2>2. BucketOK' /\ bucket' \in [tokens : Never..Capacity, ts : 0..MaxClock, expireAt : Nat]
    BY <1>1, <2>1, StoredLevel DEF HitAllowed
  <2>3. served' \in Nat
    BY <1>0, <1>1 DEF HitAllowed, LimiterTypeOK
  <2> QED
    BY <1>1, <2>2, <2>3 DEF HitAllowed, LimiterTypeOK
<1>2. CASE HitRefused
  <2>1. BucketOK' /\ bucket' \in [tokens : Never..Capacity, ts : 0..MaxClock, expireAt : Nat]
    BY <1>0, <1>2, StoredLevel DEF HitRefused
  <2>2. TicksPerSecond * RetryAfter(Level) \in Nat
    <3>1. Level \in 0..Cost
      BY <1>0, <1>2 DEF HitRefused
    <3> QED
      BY <3>1, RetryWaits
  <2>3. retryAt' \in Nat
    BY <1>2, <2>2 DEF HitRefused, LimiterTypeOK
  <2> QED
    BY <1>2, <2>1, <2>3 DEF HitRefused, LimiterTypeOK
<1>3. CASE HitWithoutRedis
  <2>1. served' \in Nat /\ answer' \in {"ok_unlimited", "503"}
    BY <1>0, <1>3 DEF HitWithoutRedis, Degraded, LimiterTypeOK
  <2> QED
    BY <1>3, <2>1 DEF HitWithoutRedis, LimiterTypeOK, BucketOK, Lifetime, CeilDiv
<1>4. CASE HitReplyLost
  <2> DEFINE rest == IF Level >= Cost THEN Level - Cost ELSE Level
  <2>1. rest \in 0..Capacity
    BY <1>0
  <2>2. Store(rest) /\ clock' = clock
    BY <1>4 DEF HitReplyLost
  <2> HIDE DEF rest
  <2>3. BucketOK' /\ bucket' \in [tokens : Never..Capacity, ts : 0..MaxClock, expireAt : Nat]
    BY <2>1, <2>2, StoredLevel
  <2>4. served' \in Nat /\ answer' \in {"ok_unlimited", "503"}
    BY <1>0, <1>4 DEF HitReplyLost, Degraded, LimiterTypeOK
  <2> QED
    BY <1>4, <2>3, <2>4 DEF HitReplyLost, LimiterTypeOK
<1>5. CASE Tick \/ StepBack
  BY <1>5 DEF Tick, StepBack, LimiterTypeOK, BucketOK, Lifetime, CeilDiv
<1>6. CASE Expire
  BY <1>6 DEF Expire, LimiterTypeOK, BucketOK, NoBucket, Never
<1>7. CASE RedisChanges
  <2>1. redisUp' \in BOOLEAN
    BY <1>7, Zenon DEF RedisChanges
  <2> QED
    BY <1>7, <2>1 DEF RedisChanges, LimiterTypeOK, BucketOK, Lifetime, CeilDiv
<1>8. CASE NewWindow
  BY <1>8 DEF NewWindow, LimiterTypeOK, BucketOK, Lifetime, CeilDiv
<1>9. CASE UNCHANGED limiterVars
  BY <1>9 DEF limiterVars, LimiterTypeOK, BucketOK, Lifetime, CeilDiv
<1> QED
  BY <1>1, <1>2, <1>3, <1>4, <1>5, <1>6, <1>7, <1>8, <1>9 DEF LimiterNext

(* The limiter is well typed in every behaviour (type invariant).          *)
THEOREM LimiterTypeCorrect == LimiterSpec => []LimiterTypeOK
<1>1. LimiterSpec => []LimiterInv
  BY InitLimiterInv, NextLimiterInv, PTL DEF LimiterSpec
<1>2. LimiterInv => LimiterTypeOK
  BY DEF LimiterInv
<1> QED
  BY <1>1, <1>2, PTL

-----------------------------------------------------------------------------
(* What each step does to the level, and what it serves and waits for.     *)
LEMMA SpendLevel == LimiterInv /\ HitAllowed => Level >= Cost /\ Level' = Level - Cost
<1> SUFFICES ASSUME LimiterInv, HitAllowed PROVE Level >= Cost /\ Level' = Level - Cost
  OBVIOUS
<1>1. Level >= Cost /\ Level - Cost \in 0..Capacity
  BY LevelInRange, LimiterAssumption DEF HitAllowed
<1> QED
  BY <1>1, StoredLevel DEF HitAllowed

LEMMA RefusedLevel == LimiterInv /\ HitRefused => Level' = Level
  BY LevelInRange, StoredLevel DEF HitRefused

LEMMA LostLevel ==
  LimiterInv /\ HitReplyLost => Level' = IF Level >= Cost THEN Level - Cost ELSE Level
<1> SUFFICES ASSUME LimiterInv, HitReplyLost
             PROVE  Level' = IF Level >= Cost THEN Level - Cost ELSE Level
  OBVIOUS
<1> DEFINE rest == IF Level >= Cost THEN Level - Cost ELSE Level
<1>1. rest \in 0..Capacity
  BY LevelInRange, LimiterAssumption
<1>2. Store(rest) /\ clock' = clock
  BY DEF HitReplyLost
<1> HIDE DEF rest
<1>3. Level' = rest
  BY <1>1, <1>2, StoredLevel
<1> QED
  BY <1>3 DEF rest

LEMMA ClockLevel ==
  ASSUME LimiterInv
  PROVE  /\ Tick => Level' = Level \/ (Level < Capacity /\ Level' = Level + 1)
         /\ StepBack => Level' \in 0..Level
  BY LimiterAssumption
     DEF LimiterInv, LimiterTypeOK, BucketOK, Tick, StepBack, Level, Least, Most, NoBucket, Never

LEMMA ExpireLevel == LimiterInv /\ Expire => Level' = Level
  BY ExpiredIsFull DEF Expire, Level

LEMMA OtherLevel ==
  HitWithoutRedis \/ RedisChanges \/ NewWindow \/ UNCHANGED limiterVars => Level' = Level
  BY DEF HitWithoutRedis, RedisChanges, NewWindow, limiterVars, Level

-----------------------------------------------------------------------------
(* With expiry, outages, lost replies and clock steps the limiter is the   *)
(* bucket that is kept for ever (property ImplementsBucket).               *)
THEOREM LimiterRefinement == LimiterSpec => ImplementsBucket
<1>1. LimiterInit => Bucket!Init
  BY DEF LimiterInit, Bucket!Init, Level
<1>2. LimiterInv /\ [LimiterNext]_limiterVars =>
        [Bucket!Refill \/ Bucket!Spend \/ Bucket!ClockSteppedBack]_Level
  <2> SUFFICES ASSUME LimiterInv, [LimiterNext]_limiterVars
               PROVE  \/ Bucket!Refill \/ Bucket!Spend \/ Bucket!ClockSteppedBack
                      \/ Level' = Level
    OBVIOUS
  <2>1. CASE HitAllowed
    BY <2>1, SpendLevel DEF Bucket!Spend
  <2>2. CASE HitRefused
    BY <2>2, RefusedLevel
  <2>3. CASE HitReplyLost
    BY <2>3, LostLevel DEF Bucket!Spend
  <2>4. CASE Tick \/ StepBack
    BY <2>4, ClockLevel DEF Bucket!Refill, Bucket!ClockSteppedBack
  <2>5. CASE Expire
    BY <2>5, ExpireLevel
  <2>6. CASE HitWithoutRedis \/ RedisChanges \/ NewWindow \/ UNCHANGED limiterVars
    BY <2>6, OtherLevel
  <2> QED
    BY <2>1, <2>2, <2>3, <2>4, <2>5, <2>6 DEF LimiterNext
<1>3. LimiterSpec => []LimiterInv
  BY InitLimiterInv, NextLimiterInv, PTL DEF LimiterSpec
<1> QED
  BY <1>1, <1>2, <1>3, PTL DEF LimiterSpec, ImplementsBucket, Bucket!Spec

-----------------------------------------------------------------------------
(* Any two levels differ by some number of units.                          *)
LEMMA Gap == \A x, y \in Int : \E d \in Int : x = y - d
<1> TAKE x, y \in Int
<1> WITNESS y - x \in Int
<1> QED
  OBVIOUS

(* The budget of a window: what it served and what is left never exceed    *)
(* one full bucket and what the clock refilled.                            *)
Budget == served + Level <= Capacity + forward

(* In strict mode the requests served in any window are worth at most one  *)
(* full bucket and its refill (property WindowBound).                      *)
THEOREM RateIsCapped == ASSUME ~FailOpen PROVE LimiterSpec => []WindowBound
<1>1. LimiterInit => Budget
  BY LimiterAssumption DEF LimiterInit, Budget, Level
<1>2. LimiterInv /\ Budget /\ [LimiterNext]_limiterVars => Budget'
  <2> SUFFICES ASSUME LimiterInv, Budget, [LimiterNext]_limiterVars PROVE Budget'
    OBVIOUS
  <2>0. /\ Level \in 0..Capacity /\ Level' \in 0..Capacity
        /\ served \in Nat /\ forward \in Nat /\ Capacity \in Nat /\ Cost \in 1..Capacity
        /\ served + Level <= Capacity + forward
    <3>1. LimiterInv'
      BY NextLimiterInv
    <3>2. (LimiterInv => Level \in 0..Capacity)'
      BY LevelInRange, PTL
    <3> QED
      BY <3>1, <3>2, LevelInRange, LimiterAssumption DEF LimiterInv, LimiterTypeOK, Budget
  <2>9. PICK spent \in Int : Level' = Level - spent
    BY <2>0, Gap
  <2>1. CASE HitAllowed
    <3>1. served' = served + Cost /\ forward' = forward
      BY <2>1 DEF HitAllowed
    <3> QED
      BY <2>0, <2>1, <3>1, SpendLevel DEF Budget
  <2>2. CASE HitRefused
    <3>1. served' = served /\ forward' = forward
      BY <2>2 DEF HitRefused
    <3> QED
      BY <2>0, <2>2, <3>1, RefusedLevel DEF Budget
  <2>3. CASE HitReplyLost
    <3>1. served' = served /\ forward' = forward
      BY <2>3 DEF HitReplyLost, Degraded
    <3>2. spent >= 0
      BY <2>0, <2>9, <2>3, LostLevel
    <3> QED
      BY <2>0, <2>9, <3>1, <3>2 DEF Budget
  <2>4. CASE Tick
    <3>1. served' = served /\ forward' = forward + 1
      BY <2>4 DEF Tick
    <3>2. spent >= -1
      BY <2>0, <2>9, <2>4, ClockLevel
    <3> QED
      BY <2>0, <2>9, <3>1, <3>2 DEF Budget
  <2>5. CASE StepBack
    <3>1. served' = served /\ forward' = forward
      BY <2>5 DEF StepBack
    <3>2. spent >= 0
      BY <2>0, <2>9, <2>5, ClockLevel
    <3> QED
      BY <2>0, <2>9, <3>1, <3>2 DEF Budget
  <2>6. CASE Expire
    <3>1. served' = served /\ forward' = forward
      BY <2>6 DEF Expire
    <3> QED
      BY <2>0, <2>6, <3>1, ExpireLevel DEF Budget
  <2>7. CASE HitWithoutRedis \/ RedisChanges \/ UNCHANGED limiterVars
    <3>1. served' = served /\ forward' = forward
      BY <2>7 DEF HitWithoutRedis, Degraded, RedisChanges, limiterVars
    <3> QED
      BY <2>0, <2>7, <3>1, OtherLevel DEF Budget
  <2>8. CASE NewWindow
    <3>1. served' = 0 /\ forward' = 0
      BY <2>8 DEF NewWindow
    <3>2. Level - spent <= Capacity
      BY <2>0, <2>9
    <3> QED
      BY <2>0, <2>9, <3>1, <3>2 DEF Budget
  <2> QED
    BY <2>1, <2>2, <2>3, <2>4, <2>5, <2>6, <2>7, <2>8 DEF LimiterNext
<1>3. LimiterInv /\ Budget => WindowBound
  BY LevelInRange, LimiterAssumption DEF Budget, WindowBound, LimiterInv, LimiterTypeOK
<1> QED
  BY <1>1, <1>2, <1>3, InitLimiterInv, NextLimiterInv, PTL DEF LimiterSpec

-----------------------------------------------------------------------------
(* While nobody spends, the bucket a 429 left behind is on its way to a    *)
(* token by the time that 429 named.                                       *)
Filling ==
  (retryAt # Never /\ bucket # NoBucket) => bucket.tokens + (retryAt - bucket.ts) >= Cost

(* A client that waits as long as Retry-After says finds a token (property *)
(* RetryAfterIsEnough).                                                    *)
THEOREM RetryIsKept == LimiterSpec => []RetryAfterIsEnough
<1>1. LimiterInit => Filling
  BY DEF LimiterInit, Filling
<1>2. LimiterInv /\ Filling /\ [LimiterNext]_limiterVars => Filling'
  <2> SUFFICES ASSUME LimiterInv, Filling, [LimiterNext]_limiterVars PROVE Filling'
    OBVIOUS
  <2>1. CASE HitRefused
    <3>1. Level \in 0..Cost /\ Level \in 0..Capacity
      BY <2>1, LevelInRange, LimiterAssumption DEF HitRefused
    <3> DEFINE wait == TicksPerSecond * RetryAfter(Level)
    <3>2. wait \in Nat /\ Level + wait >= Cost
      BY <3>1, RetryWaits
    <3>3. retryAt' = clock + wait /\ bucket'.tokens = Level /\ bucket'.ts = clock
      BY <2>1 DEF HitRefused, Store
    <3>4. clock \in Nat /\ Cost \in Nat
      BY LimiterAssumption DEF LimiterInv, LimiterTypeOK
    <3> HIDE DEF wait
    <3> QED
      BY <3>1, <3>2, <3>3, <3>4, LimiterAssumption DEF Filling
  <2>2. CASE HitAllowed \/ HitReplyLost \/ StepBack
    BY <2>2 DEF HitAllowed, HitReplyLost, StepBack, Filling
  <2>3. CASE Expire
    BY <2>3 DEF Expire, Filling
  <2>4. CASE HitWithoutRedis \/ Tick \/ RedisChanges \/ NewWindow \/ UNCHANGED limiterVars
    BY <2>4 DEF HitWithoutRedis, Tick, RedisChanges, NewWindow, limiterVars, Filling
  <2> QED
    BY <2>1, <2>2, <2>3, <2>4 DEF LimiterNext
<1>3. LimiterInv /\ Filling => RetryAfterIsEnough
  BY LimiterAssumption
     DEF Filling, RetryAfterIsEnough, LimiterInv, LimiterTypeOK, BucketOK, Level, Least, Most,
         NoBucket, Never
<1> QED
  BY <1>1, <1>2, <1>3, InitLimiterInv, NextLimiterInv, PTL DEF LimiterSpec
=============================================================================

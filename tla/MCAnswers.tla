------------------------------ MODULE MCAnswers ------------------------------
(* Three requests for near questions: q1 and q2 agree on their guard words, *)
(* q3 does not ("minimum" and "maximum").  r2 reads a stream.               *)
EXTENDS Answers, TLC

CONSTANTS r1, r2, r3, q1, q2, q3, hits

Asked == r1 :> q1 @@ r2 :> q2 @@ r3 :> q3
GuardWords == q1 :> "min" @@ q2 :> "min" @@ q3 :> "max"
Near == [q \in Questions |-> [p \in Questions |-> IF p = q THEN 2 ELSE 1]]
SameHits == [q \in Questions |-> hits]
TwoCopies == {1, 2}
=============================================================================

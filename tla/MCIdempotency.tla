---------------------------- MODULE MCIdempotency ----------------------------
(* Requests of one caller with one key: three with the same body, one with *)
(* another.                                                                *)
EXTENDS Idempotency

CONSTANTS r1, r2, r3, r4
Retries == {r1, r2, r3}
WithStranger == {r1, r2, r4}
Bodies == [r \in Requests |-> IF r = r4 THEN "other" ELSE "same"]
AnyFault == FaultKinds
LateFailure == {"late_failure"}
=============================================================================

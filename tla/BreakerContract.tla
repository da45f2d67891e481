--------------------------- MODULE BreakerContract ---------------------------
(***************************************************************************)
(* What the docstring of CircuitBreaker promises                           *)
(* (src/app/core/resilience.py:42-47), with one call at a time in mind:    *)
(* N consecutive failures open the circuit, a cool-down window follows,    *)
(* and then one probe decides whether to close or to re-open.              *)
(***************************************************************************)
EXTENDS Naturals

CONSTANT N              \* failure_threshold
VARIABLES mode, streak  \* breaker state, consecutive failures counted

vars == <<mode, streak>>

Init == mode = "closed" /\ streak = 0

Success ==
  /\ mode # "open"
  /\ mode' = "closed"
  /\ streak' = 0

FailureWhileClosed ==
  /\ mode = "closed"
  /\ streak' = streak + 1
  /\ mode' = IF streak' >= N THEN "open" ELSE "closed"

ProbeFailed ==
  /\ mode = "half_open"
  /\ mode' = "open"
  /\ UNCHANGED streak

CoolDown ==
  /\ mode = "open"
  /\ mode' = "half_open"
  /\ UNCHANGED streak

Next == Success \/ FailureWhileClosed \/ ProbeFailed \/ CoolDown

Spec == Init /\ [][Next]_vars
=============================================================================

---------------------------- MODULE CircuitBreaker ----------------------------
(***************************************************************************)
(* CircuitBreaker of src/app/core/resilience.py: several tasks of one      *)
(* event loop share a breaker.  `call` reads the breaker's state, awaits   *)
(* the downstream call, and only then writes the counters, so other tasks  *)
(* run between the read and the write.  Time is kept as the age of         *)
(* _opened_at, saturated at the recovery window: the code looks at nothing *)
(* else of the clock.                                                      *)
(***************************************************************************)
EXTENDS Integers, FiniteSets

CONSTANTS
  Callers,           \* tasks that use the breaker
  Impatient,         \* the callers whose task may be cancelled mid-call
  FailureThreshold,  \* failure_threshold
  RecoveryTicks      \* recovery_seconds, in clock ticks

ASSUME BreakerAssumption ==
  /\ IsFiniteSet(Callers)
  /\ Impatient \subseteq Callers
  /\ FailureThreshold \in Nat \ {0}
  /\ RecoveryTicks \in Nat \ {0}

VARIABLES
  failures,   \* _failures
  openFor,    \* time since _opened_at, NotOpened when it is None
  seen,       \* per task: the local `state` it read, "idle" outside call()
  up,         \* the downstream service answers
  tainted     \* calls in flight that met the service while it was down

vars == <<failures, openFor, seen, up, tainted>>

NotOpened == -1

State == IF openFor = NotOpened THEN "closed"
         ELSE IF openFor >= RecoveryTicks THEN "half_open" ELSE "open"

InFlight == {c \in Callers : seen[c] # "idle"}

TypeOK ==
  /\ failures \in Nat
  /\ openFor \in {NotOpened} \cup 0..RecoveryTicks
  /\ seen \in [Callers -> {"idle", "closed", "half_open"}]
  /\ up \in BOOLEAN
  /\ tainted \subseteq Callers

Init ==
  /\ failures = 0
  /\ openFor = NotOpened
  /\ seen = [c \in Callers |-> "idle"]
  /\ up = TRUE
  /\ tainted = {}

(* Faulty: the window is not tested, an open circuit lets probes through. *)
BeginIgnoringWindow(c) ==
  /\ seen[c] = "idle"
  /\ seen' = [seen EXCEPT ![c] = IF openFor = NotOpened THEN "closed" ELSE "half_open"]
  /\ tainted' = IF up THEN tainted ELSE tainted \cup {c}
  /\ UNCHANGED <<failures, openFor, up>>

(* call(): the state is read once, before the await. *)
Begin(c) ==
  /\ seen[c] = "idle"
  /\ State # "open"
  /\ seen' = [seen EXCEPT ![c] = State]
  /\ tainted' = IF up THEN tainted ELSE tainted \cup {c}
  /\ UNCHANGED <<failures, openFor, up>>

(* CircuitOpenError: the caller fails fast and the breaker is untouched. *)
FailFast(c) ==
  /\ seen[c] = "idle"
  /\ State = "open"
  /\ UNCHANGED vars

Leave(c) ==
  /\ seen' = [seen EXCEPT ![c] = "idle"]
  /\ tainted' = tainted \ {c}
  /\ UNCHANGED up

(* Faulty: the circuit closes and the counter keeps its old failures. *)
SucceedKeepingCounter(c) ==
  /\ c \in InFlight
  /\ up
  /\ openFor' = NotOpened
  /\ UNCHANGED failures
  /\ Leave(c)

(* Faulty: a success resets the counter and leaves the circuit as it is. *)
SucceedWithoutClosing(c) ==
  /\ c \in InFlight
  /\ up
  /\ failures' = 0
  /\ UNCHANGED openFor
  /\ Leave(c)

(* Any success closes the circuit, whatever the state was when it began. *)
Succeed(c) ==
  /\ c \in InFlight
  /\ up
  /\ failures' = 0
  /\ openFor' = NotOpened
  /\ Leave(c)

(* Faulty: failed probes are counted like any other failure. *)
RecordEveryFailure(c) ==
  /\ failures' = failures + 1
  /\ openFor' = IF failures' >= FailureThreshold THEN 0 ELSE openFor

(* Faulty: the circuit opens one failure late. *)
RecordFailureOffByOne(c) ==
  IF seen[c] = "half_open"
  THEN openFor' = 0 /\ UNCHANGED failures
  ELSE /\ failures' = failures + 1
       /\ openFor' = IF failures' > FailureThreshold THEN 0 ELSE openFor

(* The except branch decides on the state read before the await. *)
RecordFailure(c) ==
  IF seen[c] = "half_open"
  THEN openFor' = 0 /\ UNCHANGED failures
  ELSE /\ failures' = failures + 1
       /\ openFor' = IF failures' >= FailureThreshold THEN 0 ELSE openFor

Fail(c) ==
  /\ c \in InFlight
  /\ c \in tainted
  /\ RecordFailure(c)
  /\ Leave(c)

(* CancelledError is not an Exception: nothing is recorded. *)
Cancel(c) ==
  /\ c \in InFlight \cap Impatient
  /\ Leave(c)
  /\ UNCHANGED <<failures, openFor>>

Tick ==
  /\ State = "open"
  /\ openFor' = openFor + 1
  /\ UNCHANGED <<failures, seen, up, tainted>>

GoDown ==
  /\ up
  /\ up' = FALSE
  /\ tainted' = InFlight
  /\ UNCHANGED <<failures, openFor, seen>>

ComeUp ==
  /\ ~up
  /\ up' = TRUE
  /\ UNCHANGED <<failures, openFor, seen, tainted>>

Next ==
  \/ \E c \in Callers : Begin(c) \/ FailFast(c) \/ Succeed(c) \/ Fail(c) \/ Cancel(c)
  \/ Tick \/ GoDown \/ ComeUp

Spec == Init /\ [][Next]_vars

(* Time passes, the HTTP timeouts end every call, and callers that do not  *)
(* hang up keep asking.  The service itself is under no obligation.        *)
Fairness ==
  /\ WF_vars(Tick)
  /\ \A c \in Callers : WF_vars(Succeed(c) \/ Fail(c))
  /\ \A c \in Callers \ Impatient : WF_vars(Begin(c))

FairSpec == Spec /\ Fairness

-----------------------------------------------------------------------------
(* A counter at the threshold means an opened circuit: no interleaving of  *)
(* late successes and failures leaves the breaker closed with the counter  *)
(* at or over the threshold.                                               *)
ThresholdOpens == failures >= FailureThreshold => openFor # NotOpened

(* Late failures of calls begun while closed push the counter past the     *)
(* threshold, but only by the calls that were in flight.                   *)
FailureBudget ==
  failures + Cardinality({c \in Callers : seen[c] = "closed"})
    <= FailureThreshold - 1 + Cardinality(Callers)

(* An open circuit always gets to its next probe (or closes): late failures *)
(* extend the window, but cannot do so for ever.                           *)
OpenEnds == (State = "open") ~> (State # "open")

(* Once the service stays up, the breaker closes and stays closed, however *)
(* many calls that met the outage are still to end.                        *)
Recovers == (<>[]up) => <>[](openFor = NotOpened)

(* "one probe call decides whether to close or re-open"                    *)
(* (resilience.py:45-46): a closed circuit is opened by counted failures   *)
(* only, never by the late result of another probe of a decided window.    *)
OneProbeDecides ==
  [][openFor = NotOpened /\ openFor' # NotOpened => failures' >= FailureThreshold]_vars

Contract == INSTANCE BreakerContract
              WITH N <- FailureThreshold, mode <- State, streak <- failures

(* With one call at a time, the breaker is the docstring's breaker.        *)
ImplementsContract == Contract!Spec
=============================================================================

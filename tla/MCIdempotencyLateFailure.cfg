SPECIFICATION Spec
CONSTANTS
  r1 = r1
  r2 = r2
  r3 = r3
  r4 = r4
  NoRequest = NoRequest
  Requests <- Retries
  BodyOf <- Bodies
  Faults <- LateFailure
INVARIANT AtMostOnce
CHECK_DEADLOCK FALSE

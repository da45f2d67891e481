SPECIFICATION FairSpec
CONSTANTS
  r1 = r1
  r2 = r2
  r3 = r3
  r4 = r4
  NoRequest = NoRequest
  Requests <- WithStranger
  BodyOf <- Bodies
  Faults <- AnyFault
INVARIANTS TypeOK OnceUnlessForgotten WorkIsExclusive
PROPERTIES ClaimIsPrivate ClaimsEnd ImplementsOnce
CHECK_DEADLOCK FALSE

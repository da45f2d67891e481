SPECIFICATION LimiterSpec
CONSTANTS
  Capacity = 5
  Cost = 2
  TicksPerSecond = 3
  FailOpen = FALSE
  MaxClock = 14
  MaxForward = 12
INVARIANTS WindowBound RetryAfterIsEnough
PROPERTY ImplementsBucket

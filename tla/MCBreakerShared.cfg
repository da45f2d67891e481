SPECIFICATION FairSpec
CONSTANTS
  c1 = c1
  c2 = c2
  c3 = c3
  Callers <- Three
  Impatient <- Hangers
  FailureThreshold = 2
  RecoveryTicks = 2
INVARIANTS ThresholdOpens FailureBudget
PROPERTIES OpenEnds Recovers

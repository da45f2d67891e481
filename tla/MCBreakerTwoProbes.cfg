SPECIFICATION Spec
CONSTANTS
  c1 = c1
  c2 = c2
  c3 = c3
  Callers <- Two
  Impatient <- Hangers
  FailureThreshold = 2
  RecoveryTicks = 2
PROPERTY OneProbeDecides

SPECIFICATION FairSpec
CONSTANTS
  up1 = up1
  up2 = up2
  re1 = re1
  re2 = re2
  m1 = m1
  m2 = m2
  Original = Original
  NoDoc = NoDoc
  Ingests <- Calls
  Replacing <- Replacements
  Markers <- Marks
  Undoing <- Undos
INVARIANTS FullyIngestedOnce ReplacementsAreExclusive
PROPERTIES NeverMissing IngestsEnd
CHECK_DEADLOCK FALSE

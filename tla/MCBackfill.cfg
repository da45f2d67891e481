SPECIFICATION Spec
CONSTANTS
  c1 = c1
  c2 = c2
  c3 = c3
  c4 = c4
  c5 = c5
  Rows = {c1, c2, c3, c4, c5}
  Old = Old
  Target = Target
  Untagged = Untagged
  BatchSize = 2
SYMMETRY Alike
INVARIANTS TagsAreHonest CleanRunDidItsRows SecondRunLeavesNoMix

SPECIFICATION Spec
CONSTANTS
  up1 = up1
  up2 = up2
  re1 = re1
  re2 = re2
  m1 = m1
  m2 = m2
  Original = Original
  NoDoc = NoDoc
  Ingests <- FewCalls
  Replacing <- Replacements
  Markers <- OneMark
  Undoing <- NoUndo
INVARIANT MarkLasts
CHECK_DEADLOCK FALSE

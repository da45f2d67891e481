SPECIFICATION Spec
CONSTANTS
  c1 = c1
  c2 = c2
  c3 = c3
  d1 = d1
  e1 = e1
  e2 = e2
  loose = loose
  Chunks = {c1, c2, c3, d1, e1, e2, loose}
  NoPosition = NoPosition
  Position <- PositionOf
  Replaced = 1
  Replacement = 2
  TopK = 2
  RerankCandidates = 3
  RrfK = 60
  Scale <- Denominators
  Distances <- DistancesOf
  MaxDistance = 0
  ContextMaxDistance = 1
  Neighbours = 2
  MaxChunks = 4
CHECK_DEADLOCK FALSE
INVARIANTS HybridKeepsTheGate WideningKeepsTheText BudgetIsShared OneCopyIsRead

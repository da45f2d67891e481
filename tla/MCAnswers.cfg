SPECIFICATION FairSpec
CONSTANTS
  r1 = r1
  r2 = r2
  r3 = r3
  q1 = q1
  q2 = q2
  q3 = q3
  hits = hits
  NoText = NoText
  NoPassages = NoPassages
  Requests = {r1, r2, r3}
  Streaming = {r2}
  Questions = {q1, q2, q3}
  QuestionOf <- Asked
  Guard <- GuardWords
  Similarity <- Near
  Retrieved <- SameHits
  Copies <- TwoCopies
  PoolSize = 1
  MaxEntries = 2
INVARIANTS OnlySoundTextIsShared ReusedTextFits UncheckedNeverAnswered ModelsNeverHoldConnections
PROPERTIES ImplementsStream RequestsEnd
CHECK_DEADLOCK FALSE

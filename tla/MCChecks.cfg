SPECIFICATION ChecksSpec
CONSTANTS
  c1 = c1
  Callers <- One
  Impatient <- One
  FailureThreshold = 5
  RecoveryTicks = 30
  MaxRetries = 3
  Pieces <- ShortPieces
  MaxText = 4
  None = None
  NoUnit = NoUnit
  Absent = Absent
  Markers = {"CHG 1"}
  Joined <- MCJoined
  Uploads <- MCUploads
  Lookback = 4
  MaxRead = 2
  Questions <- MCQuestions
  Corpora <- MCCorpora
  Prompts <- MCPrompts
  ModelAnswers <- MCAnswered
  MinChunks = 1
  MinUnknown = 1
  STOPWORDS = {"what", "very"}
  SPELLING_VARIANTS <- MCVariants
  OurOr <- MCOurOr
  IseIze <- MCIseIze
  Stem <- MCStem
  Editions <- MCEditions
  MaxId = 4
  Configs <- MCConfigs
  ClientIds = {"app", "kiosk", "other"}
  Secrets = {"s1", "s2"}
  Steps = {10}
  MaxClock = 40
  MaxTokens = 1
INVARIANTS PagesSurviveChunking WarningsComplete BlocksAreTrue WarningsToldOnce ChecksKeepTheirWord
INVARIANTS RevocationTakesEffect NoStackedGeneration StreamedOnce
PROPERTIES NotesAreTrue ImplementsContract
CHECK_DEADLOCK FALSE

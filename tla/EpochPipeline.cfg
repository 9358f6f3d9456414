SPECIFICATION FairSpec
CONSTANTS
  solo = solo
  shared = shared
  blockDetails = blockDetails
  tokenPrices = tokenPrices
  Epochs <- TwoEpochs
  Projects <- BothProjects
  Preloaders <- BothPreloaders
  Requires <- MCRequires
  Retention = 1
  KeepRecent = 3
  TrackerWritesFail = TRUE
  TelegramConfigured = TRUE
INVARIANTS
  TypeOK
  CountersJustified
  AlertedOnce
  RowsCounted
  SettledEpochDrained
  AlertLatched
  FailuresAreMisses
PROPERTIES
  MissesSurviveReset
  LedgerSpec
  DeferredRowsResolved
CHECK_DEADLOCK FALSE

SPECIFICATION Spec
CONSTANTS
  solo = solo
  shared = shared
  blockDetails = blockDetails
  tokenPrices = tokenPrices
  Epochs <- TwoEpochs
  Projects <- BothProjects
  Preloaders <- BothPreloaders
  Requires <- MCRequires
  Retention = 1
  KeepRecent = 3
  TrackerWritesFail = FALSE
  TelegramConfigured = TRUE
INVARIANT
  AlertsOnlySelected
CHECK_DEADLOCK FALSE

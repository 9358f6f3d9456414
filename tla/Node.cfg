SPECIFICATION FairSpec
CONSTANTS
  project = project
  preloader = preloader
  Kinds <- EpochBlocks
  MaxBlock = 3
  MaxGap = 2
  HeadLag = 1
  Projects <- OneProject
  Preloaders <- OnePreloader
  Requires <- MCRequires
  Retention = 3
  KeepRecent = 3
  TrackerWritesFail = FALSE
  TelegramConfigured = FALSE
  Selected = {0, 2, 3}
INVARIANTS
  TypeOK
  ReleasedInOrder
  HandedOver
  HeadOnlyRepeated
PROPERTIES
  EpochProcessed

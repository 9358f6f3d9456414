SPECIFICATION FairSpec
CONSTANTS
  StuckAfter = 10
  CheckEvery = 2
  MaxFailures = 3
  Cooldown = 9
INVARIANTS
  TypeOK
  ExitAfterGrace
  ToldBeforeExit
PROPERTIES
  StuckNodeExits

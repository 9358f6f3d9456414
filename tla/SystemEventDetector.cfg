SPECIFICATION FairSpec
CONSTANTS
  Kinds <- DispatchedKinds
  MaxBlock = 5
  MaxGap = 2
  HeadLag = 1
INVARIANTS
  TypeOK
  DispatchedOnce
  NothingLost
  DayNotBehind
  DayNotAhead
PROPERTIES
  EventHandled

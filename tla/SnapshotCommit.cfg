SPECIFICATION FairSpec
CONSTANTS
  Snapshots = 3
  UploadAttempts = 2
  SendAttempts = 3
  IpfsConfigured = TRUE
INVARIANTS
  TypeOK
  LeftBehindSwallowed
  DeliveriesBounded
PROPERTIES
  DeliverySpec
  TaskEnds
CHECK_DEADLOCK FALSE

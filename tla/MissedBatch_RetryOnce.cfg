SPECIFICATION FairSpec
CONSTANTS
  a1 = a1
  a2 = a2
  Alerts <- TwoAlerts
  BatchSize = 2
  Cooldown = 2
  MaxAlerts = 5
  MaxRaises = 2
PROPERTY
  FullBatchHandedOver
CHECK_DEADLOCK FALSE

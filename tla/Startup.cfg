SPECIFICATION FairSpec
INVARIANTS
  TypeOK
  PollingReady
  StartedAfresh
PROPERTIES
  Recovers

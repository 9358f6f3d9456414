SPECIFICATION Spec
CONSTANTS
  Kinds <- TrackedKinds
  MaxBlock = 4
  MaxGap = 3
  HeadLag = 0
INVARIANTS
  DispatchedOwn

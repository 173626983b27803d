SPECIFICATION Spec
CONSTANTS
  r1 = r1
  r2 = r2
  t1 = t1
  t2 = t2
  Ref <- OneRef
  Thread <- TwoThreads
  ShardLines = 2
  MaxDay = 2
  MaxStamp = 3
  MaxFaults = 1
  MaxLosses = 1
  LiveRebuild = FALSE
SYMMETRY ThreadSymmetry
INVARIANTS
  TypeOK
  ReplayOrder
  CommittedOnShards
  IntakesIntact
  RetiredStayRetired
  NoFalseMissing
PROPERTIES
  RebuildKeepsLatest
CHECK_DEADLOCK FALSE

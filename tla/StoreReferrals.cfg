SPECIFICATION Spec
CONSTANTS
  r1 = r1
  r2 = r2
  t1 = t1
  t2 = t2
  Ref <- OneRef
  Thread <- OneThread
  ShardLines = 0
  MaxDay = 1
  MaxStamp = 2
  MaxFaults = 0
  MaxLosses = 1
  LiveRebuild = FALSE
PROPERTIES
  OneCurrentRebuilt
CHECK_DEADLOCK FALSE

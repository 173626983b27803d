SPECIFICATION Spec
CONSTANTS
  a = a
  b = b
  c = c
  i1 = i1
  i2 = i2
  NoRef = NoRef
  Ref <- ThreeRefs
  Importer <- TwoImporters
  File <- Overlapping
  PageCap = 2
  SweepPageSize = 2
  ExportPageSize = 3
  AuditPageSize = 3
  MaxImports = 2
  MaxChanges = 1
  MaxRule = 2
  MaxFaults = 1
  InTurn = TRUE
INVARIANTS
  ExportComplete
CHECK_DEADLOCK FALSE

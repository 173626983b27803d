SPECIFICATION FairSpec
CONSTANTS
  escalation = escalation
  reconciliation = reconciliation
  Task <- OneTask
  Worker = reeval
  MaxRetries = 3
  BaseBackoff = 1
  TaskTimeout = 8
  MaxFailures = 1
  MaxTime = 8
INVARIANTS
  ClosedWhenIdle
  TasksInv
PROPERTIES
  ShutdownCompletes
  RecordedWhenExhausted
CHECK_DEADLOCK FALSE

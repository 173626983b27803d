SPECIFICATION Spec
CONSTANTS
  escalation = escalation
  reconciliation = reconciliation
  Task <- OneTask
  Worker = reeval
  MaxRetries = 3
  BaseBackoff = 1
  TaskTimeout = 5
  MaxFailures = 1
  MaxTime = 7
INVARIANTS
  ExitsGracefully
CHECK_DEADLOCK FALSE

SPECIFICATION Spec
CONSTANTS
  s1 = s1
  s2 = s2
  h1 = h1
  h2 = h2
  sweep = sweep
  reeval = reeval
  dept1 = dept1
  dept2 = dept2
  general = general
  Dept <- Departments
  Profile <- Profiles
  Ref <- OneRef
  Handler <- OneHandler
  Sweeper <- EscalationLoop
  Reevaluator <- ReevalLoop
  RuleRequest <- SuccessiveRules
  ReviewDeadline = 0
  DeadlineExtension = 0
  MaxLevel = 2
  MaxTime = 2
  MaxRules = 2
  MaxReferrals = 3
  MaxAborts = 1
SYMMETRY DepartmentSymmetry
INVARIANTS
  OneCurrentReferral
  RoutedByRuleInForce
  RoutingInv
  LevelJustified
  StatusAudited
PROPERTIES
  LedgerSpec
CHECK_DEADLOCK FALSE

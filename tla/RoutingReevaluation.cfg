SPECIFICATION Spec
CONSTANTS
  s1 = s1
  s2 = s2
  h1 = h1
  h2 = h2
  sweep = sweep
  reeval = reeval
  dept1 = dept1
  dept2 = dept2
  general = general
  Dept <- Departments
  Profile <- Profiles
  Ref <- OneRef
  Handler <- OneHandler
  Sweeper <- OneHandler
  Reevaluator <- OneHandler
  RuleRequest <- TwoDefaults
  ReviewDeadline = 0
  DeadlineExtension = 0
  MaxLevel = 1
  MaxTime = 1
  MaxRules = 2
  MaxReferrals = 2
  MaxAborts = 0
PROPERTIES
  ReevaluationAdvances
CHECK_DEADLOCK FALSE

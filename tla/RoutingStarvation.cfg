SPECIFICATION FairSpec
CONSTANTS
  s1 = s1
  s2 = s2
  h1 = h1
  h2 = h2
  sweep = sweep
  reeval = reeval
  dept1 = dept1
  dept2 = dept2
  general = general
  Dept <- Departments
  Profile <- Profiles
  Ref <- TwoRefs
  Handler <- OneHandler
  Sweeper <- EscalationLoop
  Reevaluator <- Nobody
  RuleRequest <- OneRuleRequest
  ReviewDeadline = 0
  DeadlineExtension = 0
  MaxLevel = 1
  MaxTime = 1
  MaxRules = 1
  MaxReferrals = 2
  MaxAborts = 0
PROPERTIES
  OverdueEscalated
CHECK_DEADLOCK FALSE

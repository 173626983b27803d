SPECIFICATION Spec
CONSTANTS
  summer = summer
  winter = winter
  square = square
  library = library
  s1 = s1
  s2 = s2
  k1 = k1
  k2 = k2
  h1 = h1
  h2 = h2
  Campaign <- TwoCampaigns
  Point <- TwoPoints
  Suggestion <- TwoSuggestions
  Key <- TwoKeys
  Handler <- TwoHandlers
  DailyQuota = 1
  OpensAt = 1
  ClosesAt = 3
  DayLength = 2
  ZoneOffset = 1
  MaxTime = 3
INVARIANTS
  BoundOnce
  QuotaPerUTCDay
  IntakeJustified
  CampaignInv
PROPERTIES
  OneStageAtATime
SYMMETRY RequestSymmetry
CHECK_DEADLOCK FALSE

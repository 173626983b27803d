SPECIFICATION Spec
CONSTANTS
  summer = summer
  winter = winter
  square = square
  library = library
  s1 = s1
  s2 = s2
  k1 = k1
  k2 = k2
  h1 = h1
  h2 = h2
  Campaign <- OneCampaign
  Point <- OnePoint
  Suggestion <- TwoSuggestions
  Key <- TwoKeys
  Handler <- TwoHandlers
  DailyQuota = 1
  OpensAt = 0
  ClosesAt = 4
  DayLength = 3
  ZoneOffset = 1
  MaxTime = 4
INVARIANTS
  QuotaPerLocalDay
CHECK_DEADLOCK FALSE

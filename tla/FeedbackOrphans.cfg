SPECIFICATION FairSpec
CONSTANTS
  c1 = c1
  c2 = c2
  h1 = h1
  h2 = h2
  w1 = w1
  w2 = w2
  w3 = w3
  Identity <- OneCitizen
  Handler <- OneHandler
  FeedbackWorker <- OneWorker
  OutboxWorker <- ThirdWorker
  ClaimLimit = 1
  LeaseTime = 1
  MaxAttempts = 2
  BaseBackoff = 1
  GivenUpBackoff = 3
  MaxExponent = 8
  Horizon = 1
  MaxFailures = 2
  MaxCrashes = 1
PROPERTIES
  EventuallySettled
CHECK_DEADLOCK FALSE

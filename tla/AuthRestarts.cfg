SPECIFICATION Spec
CONSTANTS
  anna = anna
  ben = ben
  t1 = t1
  t2 = t2
  User <- TwoUsers
  Token <- TwoTokens
  SessionTTL = 2
  MaxTime = 3
INVARIANTS
  RevokedForGood
  SessionsHonoured
SYMMETRY SessionSymmetry

SPECIFICATION Spec
CONSTANTS
  s1 = s1
  s2 = s2
  ann = ann
  north = north
  south = south
  k1 = k1
  k2 = k2
  h1 = h1
  h2 = h2
  Suggestion <- TwoSuggestions
  Advisor <- OneAdvisor
  Panel <- TwoPanels
  Key <- OneKey
  Handler <- TwoHandlers
  ReviewQuota = 1
  MaxVersion = 3
INVARIANTS
  PendingWithinQuota
  ConversionsJustified
  ChainInv
PROPERTIES
  DecisionsFinal
SYMMETRY ChainSymmetry

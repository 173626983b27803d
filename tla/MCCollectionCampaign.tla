------------------------- MODULE MCCollectionCampaign -------------------------
(***************************************************************************)
(* Instances of CollectionCampaign for TLC.                                *)
(***************************************************************************)
EXTENDS CollectionCampaign, TLC

CONSTANTS summer, winter, square, library, s1, s2, k1, k2, h1, h2

OneCampaign == {summer}
TwoCampaigns == {summer, winter}
OnePoint == {square}
TwoPoints == {square, library}
OneSuggestion == {s1}
TwoSuggestions == {s1, s2}
OneKey == {k1}
TwoKeys == {k1, k2}
OneHandler == {h1}
TwoHandlers == {h1, h2}

\* Handlers, suggestions, keys, points and campaigns are told apart by nothing but name.
RequestSymmetry ==
  Permutations(TwoHandlers) \cup Permutations(TwoSuggestions)
    \cup Permutations(TwoKeys) \cup Permutations(TwoPoints)
    \cup Permutations(TwoCampaigns)

=============================================================================

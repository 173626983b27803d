--------------------------- MODULE MCHandlingChain ---------------------------
(***************************************************************************)
(* Instances of HandlingChain for TLC.                                     *)
(***************************************************************************)
EXTENDS HandlingChain, TLC

CONSTANTS s1, s2, ann, north, south, k1, k2, h1, h2

OneSuggestion == {s1}
TwoSuggestions == {s1, s2}
OneAdvisor == {ann}
OnePanel == {north}
TwoPanels == {north, south}
OneKey == {k1}
TwoKeys == {k1, k2}
OneHandler == {h1}
TwoHandlers == {h1, h2}

\* Suggestions, panels and handlers are told apart by nothing but name.
ChainSymmetry ==
  Permutations(TwoSuggestions) \cup Permutations(TwoPanels)
    \cup Permutations(TwoHandlers)

=============================================================================

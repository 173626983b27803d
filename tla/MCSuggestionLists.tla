-------------------------- MODULE MCSuggestionLists --------------------------
(***************************************************************************)
(* Instances of SuggestionLists for TLC.                                   *)
(***************************************************************************)
EXTENDS SuggestionLists, TLC

CONSTANTS a, b, c, i1, i2

ThreeRefs == {a, b, c}
TwoImporters == {i1, i2}

\* Two files that share a row; the second has a row without a reference.
Overlapping == (i1 :> <<a, b, c>>) @@ (i2 :> <<NoRef, b>>)

=============================================================================

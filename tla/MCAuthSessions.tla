--------------------------- MODULE MCAuthSessions ---------------------------
(***************************************************************************)
(* Instances of AuthSessions for TLC.                                      *)
(***************************************************************************)
EXTENDS AuthSessions, TLC

CONSTANTS anna, ben, t1, t2

TwoUsers == {anna, ben}
TwoTokens == {t1, t2}

SessionSymmetry == Permutations(TwoUsers) \cup Permutations(TwoTokens)

=============================================================================

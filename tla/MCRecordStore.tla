---------------------------- MODULE MCRecordStore ----------------------------
(***************************************************************************)
(* Instances of RecordStore for TLC.                                       *)
(***************************************************************************)
EXTENDS RecordStore, TLC

CONSTANTS r1, r2, t1, t2

OneRef == {r1}
TwoRefs == {r1, r2}
OneThread == {t1}
TwoThreads == {t1, t2}

ThreadSymmetry == Permutations(TwoThreads)

=============================================================================

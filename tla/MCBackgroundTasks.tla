-------------------------- MODULE MCBackgroundTasks --------------------------
(***************************************************************************)
(* Instances of BackgroundTasks for TLC.                                   *)
(***************************************************************************)
EXTENDS BackgroundTasks

CONSTANTS escalation, reconciliation

OneTask == {escalation}
TwoTasks == {escalation, reconciliation}

=============================================================================

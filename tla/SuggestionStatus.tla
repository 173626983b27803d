-------------------------- MODULE SuggestionStatus --------------------------
(***************************************************************************)
(* The life cycle of a suggestion (internal/domain/suggestion.go): the     *)
(* statuses, which of them are terminal, and the transition table that     *)
(* every handler consults before it writes a row back.                     *)
(***************************************************************************)

Status ==
  {"registered", "adjudicated", "in_progress", "returned", "escalated",
   "completed", "cancelled"}

Terminal == {"completed", "cancelled"}

TransitionTable ==
  [s \in Status |->
     CASE s = "registered"  -> {"adjudicated", "cancelled", "returned"}
       [] s = "adjudicated" -> {"in_progress", "cancelled", "returned",
                                "escalated"}
       [] s = "in_progress" -> {"completed", "cancelled", "escalated"}
       [] s = "returned"    -> {"registered", "cancelled"}
       [] s = "escalated"   -> {"in_progress", "completed", "cancelled"}
       [] OTHER             -> {}]

\* ValidateTransition accepts a transition from a status to itself, so a
\* completed suggestion can be completed again and a cancelled one cancelled.
ValidTransition(from, to) == from = to \/ to \in TransitionTable[from]

=============================================================================

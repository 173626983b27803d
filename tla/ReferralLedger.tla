---------------------------- MODULE ReferralLedger ----------------------------
(***************************************************************************)
(* What the rules and assignments tables promise their readers, without    *)
(* threads and without rows: rules are numbered one by one and never go    *)
(* away; each suggestion has a history of routings that only grows, and    *)
(* the routing in force is the last of it.  A routing comes from a rule    *)
(* that exists, or from a supervisor taking over a routing on record.      *)
(***************************************************************************)
EXTENDS DispatchRules

CONSTANTS
  Ref,        \* suggestions
  MaxLevel    \* how often a routing can be escalated

VARIABLES
  versions,   \* the rules that exist are 1..versions
  history,    \* the routings of each suggestion, oldest first
  inForce     \* the routing in force, Unrouted if there is none

vars == <<versions, history, inForce>>

Unrouted == <<>>

Init ==
  /\ versions = 0
  /\ history = [r \in Ref |-> <<>>]
  /\ inForce = [r \in Ref |-> Unrouted]

NewVersion ==
  /\ versions' = versions + 1
  /\ UNCHANGED <<history, inForce>>

Route(r, routing) ==
  /\ history' = [history EXCEPT ![r] = Append(@, routing)]
  /\ inForce' = [inForce EXCEPT ![r] = routing]
  /\ UNCHANGED versions

\* A rule routes the suggestion to its department.
Dispatch(r) ==
  \E dept \in Dept, version \in 1..versions :
    Route(r, [lead |-> BaseLead(dept), ruleVersion |-> version])

\* A supervisor takes over, one level above a routing on record.
TakeOver(r) ==
  \E k \in DOMAIN history[r] :
    LET lead  == history[r][k].lead
        level == Len(lead.suffixes) + 1
    IN  /\ level <= MaxLevel
        /\ Route(r, [history[r][k] EXCEPT
                       !.lead = EscalationDepartmentName(lead, level)])

Next == NewVersion \/ \E r \in Ref : Dispatch(r) \/ TakeOver(r)

Spec == Init /\ [][Next]_vars

=============================================================================

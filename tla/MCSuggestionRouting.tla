------------------------- MODULE MCSuggestionRouting -------------------------
(***************************************************************************)
(* Instances of SuggestionRouting for TLC.                                 *)
(***************************************************************************)
EXTENDS SuggestionRouting, TLC

CONSTANTS s1, s2, h1, h2, sweep, reeval, dept1, dept2, general

OneRef == {s1}
TwoRefs == {s1, s2}

OneHandler == {h1}
TwoHandlers == {h1, h2}
EscalationLoop == {sweep}
ReevalLoop == {reeval}
Nobody == {}

Departments == {dept1, dept2}
Profiles == {general}

\* A default rule, and one that supersedes it.
DefaultRule ==
  [lead |-> dept1, profiles |-> {}, isDefault |-> TRUE, priority |-> 0,
   supersede |-> 0]
Replacement == [DefaultRule EXCEPT !.lead = dept2, !.supersede = 1]
\* A more specific rule that leaves the default in force.
Specific ==
  [lead |-> dept2, profiles |-> {general}, isDefault |-> FALSE,
   priority |-> 1, supersede |-> 0]

\* A default rule that leaves the first in force and outranks it when it is newer.
SecondDefault == [DefaultRule EXCEPT !.lead = dept2]

OneRuleRequest == {DefaultRule}
RuleRequestsTwo == {DefaultRule, Replacement}
TwoDefaults == {DefaultRule, SecondDefault}
\* Rules of either department, of which a second one supersedes the first.
SuccessiveRules == {[Replacement EXCEPT !.lead = d] : d \in Departments}
RuleRequestsAll == {DefaultRule, Replacement, Specific}

HandlerSymmetry == Permutations(TwoHandlers)
DepartmentSymmetry == Permutations(Departments)

=============================================================================

---------------------------- MODULE DispatchRules ----------------------------
(***************************************************************************)
(* Routing of a suggestion by the dispatch rules                           *)
(* (internal/dispatch/adjudicator.go, internal/domain/rule.go,             *)
(* internal/domain/escalation.go).                                         *)
(*                                                                         *)
(* A rule table is a sequence: the rule of version v is rules[v], because  *)
(* RuleService numbers rules MAX(version) + 1 and never deletes one.  What *)
(* a rule matches on - a category, keywords - is abstracted to the set of  *)
(* item profiles it matches, and a department name with its                *)
(* "-supervisor-lN" suffixes to the base department and the suffixes.      *)
(***************************************************************************)
EXTENDS Naturals, Sequences

CONSTANTS
  Dept,      \* departments that lead a suggestion
  Profile    \* what a rule can tell apart: category and keywords of an item

Lead == [dept: Dept, suffixes: Seq(Nat)]

Rule == [lead: Dept, profiles: SUBSET Profile, isDefault: BOOLEAN,
         priority: Nat, from: Nat, active: BOOLEAN]

IsActiveAt(rule, time) == rule.active /\ rule.from <= time

Matches(rule, profile) == rule.isDefault \/ profile \in rule.profiles

\* The versions GetActiveRules returns at a given time.
ActiveVersions(rules, time) ==
  {v \in DOMAIN rules : IsActiveAt(rules[v], time)}

\* A mutation of Matched: the time the item was registered is not looked at.
MatchedAnyTime(rules, versions, registeredAt, profile) ==
  {v \in versions : Matches(rules[v], profile)}

\* The rules Adjudicate has to choose from: of the versions it was given, those
\* that took effect no later than the item was registered and that match it.
\* The versions come from ActiveVersions and Adjudicate sees the rows as they
\* were read, so a rule superseded since then still counts as active.  (The
\* code's second pass over the default rules adds nothing: a default rule
\* matches every item.)
Matched(rules, versions, registeredAt, profile) ==
  {v \in versions : /\ rules[v].from <= registeredAt
                    /\ Matches(rules[v], profile)}

\* The sort order of Adjudicate: priority first, then the newer version.
Outranks(rules, v, w) ==
  \/ rules[v].priority > rules[w].priority
  \/ rules[v].priority = rules[w].priority /\ v > w

\* The rule Adjudicate chooses: the one that outranks the others that match.
Adjudicate(rules, matched) ==
  {v \in matched : \A w \in matched \ {v} : Outranks(rules, v, w)}

BaseLead(dept) == [dept |-> dept, suffixes |-> <<>>]

\* A mutation of EscalationDepartmentName: the suffix replaces the last one.
ReplacedSuffix(lead, level) ==
  IF level = 0 THEN lead ELSE [lead EXCEPT !.suffixes = <<level>>]

EscalationDepartmentName(lead, level) ==
  IF level = 0 THEN lead
  ELSE [lead EXCEPT !.suffixes = Append(@, level)]

=============================================================================

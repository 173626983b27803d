----------------------- MODULE SuggestionRoutingProofs -----------------------
(***************************************************************************)
(* Theorems about SuggestionRouting, for every value of its constants.     *)
(***************************************************************************)
EXTENDS SuggestionRouting, SequenceTheorems, TLAPS

(***************************************************************************)
(* The kinds of sessions, one lemma for each: what a session at a given pc *)
(* holds.                                                                  *)
(***************************************************************************)
LEMMA SessionKinds ==
  ASSUME NEW s \in Session
  PROVE  /\ s.pc = "register" => s.ref \in Ref /\ s.row \in Row
         /\ s.pc = "update" =>
              s.ref \in Ref /\ s.row \in Row /\ s.action \in AuditAction
         /\ s.pc = "rule" =>
              s.version \in Nat /\ s.request \in RuleRequests /\ s.at \in Nat
         /\ s.pc = "escalate" => s.todo \subseteq Snapshot /\ s.at \in Nat
         /\ s.pc = "version" => s.version \in Nat
         /\ s.pc = "rules" => s.version \in Nat /\ s.active \subseteq Nat
         /\ s.pc \in {"load", "reroute"} =>
              s.version \in Nat /\ s.active \subseteq Nat
                /\ s.todo \subseteq Ref
         /\ s.pc = "reroute" => s.ref \in Ref /\ s.row \in Row
  BY DEF Session, Idle

LEMMA RowNotAbsent == NoItem \notin Row
  BY DEF NoItem, Row, Status

LEMMA ThreadSets ==
  /\ Handler \subseteq Thread
  /\ Sweeper \subseteq Thread
  /\ Reevaluator \subseteq Thread
  BY DEF Thread

LEMMA SessionStep ==
  ASSUME TypeOK, NEW t \in Thread, NEW s \in Session,
         session' = [session EXCEPT ![t] = s]
  PROVE  session' \in [Thread -> Session]
  BY DEF TypeOK

LEMMA IdleIsSession == Idle \in Session
  BY DEF Session

\* Each form of session record is a session.
LEMMA SessionForms ==
  /\ \A r \in Ref, row \in Row :
       [pc |-> "register", ref |-> r, row |-> row] \in Session
  /\ \A r \in Ref, row \in Row, a \in AuditAction :
       [pc |-> "update", ref |-> r, row |-> row, action |-> a] \in Session
  /\ \A v \in Nat, q \in RuleRequests, time \in Nat :
       [pc |-> "rule", version |-> v, request |-> q, at |-> time] \in Session
  /\ \A todo \in SUBSET Snapshot, time \in Nat :
       [pc |-> "escalate", at |-> time, todo |-> todo] \in Session
  /\ \A v \in Nat : [pc |-> "version", version |-> v] \in Session
  /\ \A v \in Nat, active \in SUBSET Nat :
       [pc |-> "rules", version |-> v, active |-> active] \in Session
  /\ \A v \in Nat, active \in SUBSET Nat, todo \in SUBSET Ref :
       [pc |-> "load", version |-> v, active |-> active, todo |-> todo]
         \in Session
  /\ \A v \in Nat, active \in SUBSET Nat, todo \in SUBSET Ref, r \in Ref,
        row \in Row :
       [pc |-> "reroute", version |-> v, active |-> active, todo |-> todo,
        ref |-> r, row |-> row] \in Session
  BY DEF Session

LEMMA LeadTypes ==
  /\ \A d \in Dept : BaseLead(d) \in Lead
  /\ \A lead \in Lead, n \in Nat : EscalationDepartmentName(lead, n) \in Lead
<1>1. ASSUME NEW d \in Dept PROVE BaseLead(d) \in Lead
  <2>1. <<>> \in Seq(Nat)
    OBVIOUS
  <2>. QED
    BY <2>1 DEF BaseLead, Lead
<1>2. ASSUME NEW lead \in Lead, NEW n \in Nat
      PROVE  EscalationDepartmentName(lead, n) \in Lead
  <2>1. lead.dept \in Dept /\ lead.suffixes \in Seq(Nat)
    BY DEF Lead
  <2>2. Append(lead.suffixes, n) \in Seq(Nat)
    BY <2>1
  <2>3. [lead EXCEPT !.suffixes = Append(@, n)] \in Lead
    BY <2>1, <2>2 DEF Lead
  <2>. QED
    BY <2>3 DEF EscalationDepartmentName
<1>. QED
  BY <1>1, <1>2

\* MarkSuperseded keeps the referrals and their order and leaves none current.
LEMMA MarkSupersededShape ==
  ASSUME NEW table \in Seq(Referral)
  PROVE  /\ MarkSuperseded(table) \in Seq(Referral)
         /\ Len(MarkSuperseded(table)) = Len(table)
         /\ \A k \in 1..Len(table) :
              /\ MarkSuperseded(table)[k].current = FALSE
              /\ MarkSuperseded(table)[k].lead = table[k].lead
              /\ MarkSuperseded(table)[k].ruleVersion = table[k].ruleVersion
<1>1. DOMAIN table = 1..Len(table) /\ Len(table) \in Nat
  OBVIOUS
<1>2. \A k \in 1..Len(table) :
        /\ table[k] \in Referral
        /\ [table[k] EXCEPT !.current = FALSE] \in Referral
        /\ [table[k] EXCEPT !.current = FALSE].current = FALSE
        /\ [table[k] EXCEPT !.current = FALSE].lead = table[k].lead
        /\ [table[k] EXCEPT !.current = FALSE].ruleVersion
             = table[k].ruleVersion
  <2>1. \A ref \in Referral :
          /\ [ref EXCEPT !.current = FALSE] \in Referral
          /\ [ref EXCEPT !.current = FALSE].current = FALSE
          /\ [ref EXCEPT !.current = FALSE].lead = ref.lead
          /\ [ref EXCEPT !.current = FALSE].ruleVersion = ref.ruleVersion
    BY DEF Referral
  <2>2. \A k \in 1..Len(table) : table[k] \in Referral
    OBVIOUS
  <2>. QED
    BY <2>1, <2>2
<1>3. MarkSuperseded(table) \in [1..Len(table) -> Referral]
  BY <1>1, <1>2 DEF MarkSuperseded
<1>4. MarkSuperseded(table) \in Seq(Referral)
  BY <1>1, <1>3
<1>5. Len(MarkSuperseded(table)) = Len(table)
  BY <1>1, <1>3, <1>4
<1>. QED
  BY <1>1, <1>2, <1>4, <1>5 DEF MarkSuperseded

\* Superseding a version keeps the rules, their order and all but `active'.
LEMMA SupersededShape ==
  ASSUME NEW table \in Seq(Rule), NEW v
  PROVE  /\ Superseded(table, v) \in Seq(Rule)
         /\ Len(Superseded(table, v)) = Len(table)
         /\ \A k \in 1..Len(table) :
              /\ Superseded(table, v)[k].from = table[k].from
              /\ Superseded(table, v)[k].lead = table[k].lead
<1>1. DOMAIN table = 1..Len(table) /\ Len(table) \in Nat
  OBVIOUS
<1>2. \A rule \in Rule :
        /\ [rule EXCEPT !.active = FALSE] \in Rule
        /\ [rule EXCEPT !.active = FALSE].from = rule.from
        /\ [rule EXCEPT !.active = FALSE].lead = rule.lead
  BY DEF Rule
<1>3. \A k \in 1..Len(table) : table[k] \in Rule
  OBVIOUS
<1>4. Superseded(table, v) \in [1..Len(table) -> Rule]
  BY <1>1, <1>2, <1>3 DEF Superseded
<1>5. /\ Superseded(table, v) \in Seq(Rule)
      /\ Len(Superseded(table, v)) = Len(table)
  BY <1>1, <1>4
<1>. QED
  BY <1>1, <1>2, <1>3, <1>5 DEF Superseded

LEMMA ReferStep ==
  ASSUME TypeOK, NEW r \in Ref, NEW row \in Row,
         NEW by \in {"system", "system_escalation"}, Refer(r, row, by)
  PROVE  referrals' \in [Ref -> Seq(Referral)]
<1>1. MarkSuperseded(referrals[r]) \in Seq(Referral)
  BY MarkSupersededShape DEF TypeOK
<1>2. NewReferral(row, by) \in Referral
  BY DEF NewReferral, Referral, Row
<1>3. Append(MarkSuperseded(referrals[r]), NewReferral(row, by))
        \in Seq(Referral)
  BY <1>1, <1>2
<1>. QED
  BY <1>3 DEF TypeOK, Refer

LEMMA AuditStep ==
  ASSUME TypeOK, NEW r \in Ref, NEW a \in AuditAction, Audit(r, a)
  PROVE  audits' \in [Ref -> SUBSET AuditAction]
  BY DEF TypeOK, Audit

LEMMA RuleTypes ==
  ASSUME TypeOK, NEW v \in DOMAIN rules
  PROVE  v \in Nat /\ v \in 1..Len(rules) /\ rules[v] \in Rule
           /\ rules[v].lead \in Dept
<1>1. rules \in Seq(Rule)
  BY DEF TypeOK
<1>2. v \in 1..Len(rules) /\ rules[v] \in Rule
  BY <1>1
<1>. QED
  BY <1>2 DEF Rule

LEMMA StoredRow ==
  ASSUME TypeOK, NEW r \in Ref, Stored(r)
  PROVE  items[r] \in Row
  BY DEF TypeOK, Stored

\* Changing a row in the ways the handlers and the sweeps do gives a row.
LEMMA RowChanges ==
  ASSUME NEW row \in Row
  PROVE  /\ \A status \in Status : [row EXCEPT !.status = status] \in Row
         /\ \A profile \in Profile : [row EXCEPT !.profile = profile] \in Row
         /\ \A d \in Dept, v \in Nat :
              [row EXCEPT !.status = "adjudicated", !.lead = BaseLead(d),
                          !.ruleVersion = v] \in Row
         /\ \A time \in Nat : Escalated(row, time) \in Row
<1>1. row.lead \in Lead /\ row.level \in Nat
  BY DEF Row
<1>2. \A time \in Nat :
        /\ EscalationDepartmentName(row.lead, row.level + 1) \in Lead
        /\ row.level + 1 \in Nat
        /\ time + DeadlineExtension \in Nat
  BY <1>1, LeadTypes, ConstantsAssumption DEF ConstantsAssumption
<1>3. \A time \in Nat : Escalated(row, time) \in Row
  BY <1>2 DEF Row, Status, Escalated
<1>. QED
  BY <1>3, LeadTypes DEF Row, Status

LEMMA TypeInit == Init => TypeOK
  BY IdleIsSession DEF Init, TypeOK, Rule

LEMMA TypeRequest ==
  ASSUME TypeOK, NEW t \in Thread, Request(t)
  PROVE  TypeOK'
<1>1. ASSUME NEW r \in Ref, NEW row \in Row, NEW a \in AuditAction,
             Load(t, r, row, a)
      PROVE  TypeOK'
  BY <1>1, SessionStep, SessionForms DEF Load, Begin, TypeOK, tables
<1>2. ASSUME NEW r \in Ref, NEW status \in Status, NEW a \in AuditAction,
             TransitionTo(t, r, status, a)
      PROVE  TypeOK'
  BY <1>1, <1>2, StoredRow, RowChanges DEF TransitionTo
<1>3. ASSUME NEW r \in Ref,
             \/ StartProcessing(t, r)
             \/ ReturnForCorrection(t, r)
             \/ Cancel(t, r)
             \/ Complete(t, r)
      PROVE  TypeOK'
  BY <1>2, <1>3 DEF StartProcessing, ReturnForCorrection, Cancel, Complete,
                    Status, AuditAction
<1>4. ASSUME NEW r \in Ref, Resubmit(t, r) PROVE TypeOK'
  BY <1>1, <1>4, StoredRow, RowChanges DEF Resubmit, Status, AuditAction
<1>5. ASSUME NEW r \in Ref, NEW p \in Profile, Modify(t, r, p) PROVE TypeOK'
  BY <1>1, <1>5, StoredRow, RowChanges DEF Modify, AuditAction
<1>6. ASSUME NEW r \in Ref, NEW p \in Profile, RegisterRead(t, r, p)
      PROVE  TypeOK'
  <2>1. PICK v \in DOMAIN rules :
          session' = [session EXCEPT ![t] =
             [pc |-> "register", ref |-> r, row |-> NewRow(rules[v], v, p)]]
    BY <1>6 DEF RegisterRead, Adjudicate, Matched, ActiveVersions, Begin
  <2>2. v \in Nat /\ rules[v].lead \in Dept
    BY <2>1, RuleTypes
  <2>3. now + ReviewDeadline \in Nat /\ now \in Nat
    BY ConstantsAssumption DEF ConstantsAssumption, TypeOK
  <2>4. NewRow(rules[v], v, p) \in Row
    BY <2>2, <2>3, LeadTypes DEF NewRow, Row, Status
  <2>. QED
    BY <1>6, <2>1, <2>4, SessionStep, SessionForms
       DEF RegisterRead, TypeOK, tables
<1>7. ASSUME NEW q \in RuleRequest, CreateRuleRead(t, q) PROVE TypeOK'
  <2>1. q \in RuleRequests
    BY ConstantsAssumption DEF ConstantsAssumption
  <2>2. Len(rules) + 1 \in Nat /\ now \in Nat
    BY DEF TypeOK
  <2>. QED
    BY <1>7, <2>1, <2>2, SessionStep, SessionForms
       DEF CreateRuleRead, Begin, TypeOK, tables
<1>. QED
  BY <1>3, <1>4, <1>5, <1>6, <1>7 DEF Request

LEMMA TypeCommit ==
  ASSUME TypeOK, NEW t \in Thread, Commit(t)
  PROVE  TypeOK'
<1>. DEFINE s == session[t]
<1>0. s \in Session
  BY DEF TypeOK
<1>1. ASSUME RegisterCommit(t) PROVE TypeOK'
  <2>1. s.ref \in Ref /\ s.row \in Row
    BY <1>0, <1>1, SessionKinds DEF RegisterCommit, Pc
  <2>2. session' \in [Thread -> Session]
    BY <1>1, SessionStep, IdleIsSession DEF RegisterCommit, Continue
  <2>3. NewReferral(s.row, "system") \in Referral
    BY <2>1 DEF NewReferral, Referral, Row
  <2>4. Append(referrals[s.ref], NewReferral(s.row, "system"))
          \in Seq(Referral)
    BY <2>1, <2>3 DEF TypeOK
  <2>5. items' \in [Ref -> Row \cup {NoItem}]
    BY <1>1, <2>1 DEF RegisterCommit, TypeOK
  <2>6. referrals' \in [Ref -> Seq(Referral)]
    BY <1>1, <2>1, <2>4 DEF RegisterCommit, TypeOK
  <2>7. audits' \in [Ref -> SUBSET AuditAction]
    <3>1. "register" \in AuditAction
      BY DEF AuditAction
    <3>. QED
      BY <1>1, <2>1, <3>1, AuditStep DEF RegisterCommit, TypeOK
  <2>. QED
    BY <1>1, <2>2, <2>5, <2>6, <2>7 DEF RegisterCommit, TypeOK
<1>2. ASSUME UpdateCommit(t) PROVE TypeOK'
  <2>1. s.ref \in Ref /\ s.row \in Row /\ s.action \in AuditAction
    BY <1>0, <1>2, SessionKinds DEF UpdateCommit, Pc
  <2>2. session' \in [Thread -> Session]
    BY <1>2, SessionStep, IdleIsSession DEF UpdateCommit, Continue
  <2>. QED
    BY <1>2, <2>1, <2>2, AuditStep DEF UpdateCommit, TypeOK
<1>3. ASSUME CreateRuleCommit(t) PROVE TypeOK'
  <2>1. s.request \in RuleRequests /\ s.at \in Nat
    BY <1>0, <1>3, SessionKinds DEF CreateRuleCommit, Pc
  <2>2. session' \in [Thread -> Session]
    BY <1>3, SessionStep, IdleIsSession DEF CreateRuleCommit, Continue
  <2>3. Superseded(rules, s.request.supersede) \in Seq(Rule)
    BY SupersededShape DEF TypeOK
  <2>4. NewRule(s.request, s.at) \in Rule
    BY <2>1 DEF NewRule, Rule, RuleRequests
  <2>5. Append(Superseded(rules, s.request.supersede),
               NewRule(s.request, s.at)) \in Seq(Rule)
    BY <2>3, <2>4
  <2>6. rules' \in Seq(Rule)
    BY <1>3, <2>5 DEF CreateRuleCommit, TypeOK
  <2>. QED
    BY <1>3, <2>2, <2>6 DEF CreateRuleCommit, TypeOK
<1>. QED
  BY <1>1, <1>2, <1>3 DEF Commit

LEMMA EscalateRest ==
  ASSUME TypeOK, NEW t \in Thread, NEW rest \in SUBSET Snapshot,
         session[t].at \in Nat, NextSweep(t, rest)
  PROVE  session' \in [Thread -> Session]
  BY SessionStep, SessionForms, IdleIsSession DEF NextSweep, Continue

LEMMA LoadNextStep ==
  ASSUME TypeOK, NEW t \in Thread, NEW s, s.version \in Nat,
         s.active \in SUBSET Nat, NEW rest \in SUBSET Ref,
         LoadNext(t, s, rest)
  PROVE  session' \in [Thread -> Session]
  BY SessionStep, SessionForms, IdleIsSession DEF LoadNext, Continue

LEMMA TypeEscalation ==
  ASSUME TypeOK, NEW t \in Thread, EscalationSweep(t)
  PROVE  TypeOK'
<1>0. session[t] \in Session /\ now \in Nat
  BY DEF TypeOK
<1>1. ASSUME FindOverdueItems(t) PROVE TypeOK'
  <2>. DEFINE overdue == {r \in Ref : Stored(r) /\ Overdue(items[r])}
              todo == {[ref |-> r, row |-> items[r]] : r \in overdue}
  <2>1. todo \in SUBSET Snapshot
    BY StoredRow DEF Snapshot
  <2>2. [pc |-> "escalate", at |-> now, todo |-> todo] \in Session
    BY <1>0, <2>1, SessionForms
  <2>3. session' =
          [session EXCEPT ![t] = [pc |-> "escalate", at |-> now, todo |-> todo]]
    BY <1>1 DEF FindOverdueItems, Begin
  <2>4. session' \in [Thread -> Session]
    BY <2>2, <2>3, SessionStep
  <2>. QED
    BY <1>1, <2>4 DEF FindOverdueItems, TypeOK, tables
<1>2. ASSUME EscalateItem(t) PROVE TypeOK'
  <2>. DEFINE s == session[t]
  <2>0. Pc(t, "escalate") /\ s.todo \subseteq Snapshot /\ s.at \in Nat
    BY <1>0, <1>2, SessionKinds DEF EscalateItem, Pc
  <2>1. PICK e \in Earliest(s.todo) :
          /\ NextSweep(t, s.todo \ {e})
          /\ escalations' = [escalations EXCEPT ![e.ref] =
               Append(@, [from |-> e.row.level,
                          to |-> Escalated(e.row, s.at).level])]
          /\ Refer(e.ref, Escalated(e.row, s.at), "system_escalation")
          /\ items' = [items EXCEPT ![e.ref] = Escalated(e.row, s.at)]
          /\ Audit(e.ref, "escalate")
    BY <1>2 DEF EscalateItem
  <2>2. e \in Snapshot /\ e.ref \in Ref /\ e.row \in Row
    BY <2>0 DEF Earliest, Snapshot
  <2>3. Escalated(e.row, s.at) \in Row
    BY <2>0, <2>2, RowChanges
  <2>4. session' \in [Thread -> Session]
    BY <2>0, <2>1, EscalateRest
  <2>5. escalations' \in [Ref -> Seq(Escalation)]
    <3>1. [from |-> e.row.level, to |-> Escalated(e.row, s.at).level]
            \in Escalation
      BY <2>2, <2>3 DEF Row, Escalation
    <3>2. Append(escalations[e.ref],
            [from |-> e.row.level, to |-> Escalated(e.row, s.at).level])
            \in Seq(Escalation)
      BY <2>2, <3>1 DEF TypeOK
    <3>. QED
      BY <2>1, <2>2, <3>2 DEF TypeOK
  <2>6. referrals' \in [Ref -> Seq(Referral)]
    BY <2>1, <2>2, <2>3, ReferStep
  <2>7. audits' \in [Ref -> SUBSET AuditAction]
    BY <2>1, <2>2, AuditStep DEF AuditAction
  <2>8. items' \in [Ref -> Row \cup {NoItem}]
    BY <2>1, <2>2, <2>3 DEF TypeOK
  <2>. QED
    BY <1>2, <2>4, <2>5, <2>6, <2>7, <2>8 DEF EscalateItem, TypeOK
<1>3. ASSUME EscalateItemFails(t) PROVE TypeOK'
  BY <1>3, SessionStep, IdleIsSession
     DEF EscalateItemFails, Continue, TypeOK, tables
<1>. QED
  BY <1>1, <1>2, <1>3 DEF EscalationSweep

LEMMA TypeReevaluation ==
  ASSUME TypeOK, NEW t \in Thread, SessionSound(t), ReevaluationSweep(t)
  PROVE  TypeOK'
<1>. DEFINE s == session[t]
<1>0. s \in Session
  BY DEF TypeOK
<1>1. ASSUME GetCurrentRuleVersion(t) PROVE TypeOK'
  <2>1. Len(rules) \in Nat
    BY DEF TypeOK
  <2>. QED
    BY <1>1, <2>1, SessionStep, SessionForms
       DEF GetCurrentRuleVersion, Begin, TypeOK, tables
<1>2. ASSUME GetActiveRules(t) PROVE TypeOK'
  <2>1. s.version \in Nat
    BY <1>0, <1>2, SessionKinds DEF GetActiveRules, Pc
  <2>2. ActiveVersions(rules, now) \in SUBSET Nat
    BY RuleTypes DEF ActiveVersions
  <2>. QED
    BY <1>2, <2>1, <2>2, SessionStep, SessionForms
       DEF GetActiveRules, Continue, TypeOK, tables
<1>3. ASSUME CollectStaleItems(t) PROVE TypeOK'
  <2>1. s.version \in Nat /\ s.active \subseteq Nat
    BY <1>0, <1>3, SessionKinds DEF CollectStaleItems, Pc
  <2>2. session' \in [Thread -> Session]
    BY <1>3, <2>1, LoadNextStep DEF CollectStaleItems
  <2>. QED
    BY <1>3, <2>2 DEF CollectStaleItems, TypeOK, tables
<1>4. ASSUME ReevaluateSkip(t) PROVE TypeOK'
  <2>1. s.version \in Nat /\ s.active \subseteq Nat /\ s.todo \subseteq Ref
    BY <1>0, <1>4, SessionKinds DEF ReevaluateSkip, Pc
  <2>2. session' \in [Thread -> Session]
    BY <1>4, <2>1, LoadNextStep DEF ReevaluateSkip
  <2>. QED
    BY <1>4, <2>2 DEF ReevaluateSkip, TypeOK, tables
<1>5. ASSUME ReevaluateLoad(t) PROVE TypeOK'
  <2>1. s.version \in Nat /\ s.active \subseteq Nat /\ s.todo \subseteq Ref
    BY <1>0, <1>5, SessionKinds DEF ReevaluateLoad, Pc
  <2>2. PICK r \in s.todo : \E v \in Adjudicate(rules, RematchedBy(s, r)) :
          /\ Stale(r, s.version)
          /\ Continue(t, [pc |-> "reroute", version |-> s.version,
               active |-> s.active, todo |-> s.todo \ {r}, ref |-> r,
               row |-> [items[r] EXCEPT !.status = "adjudicated",
                                        !.lead = BaseLead(rules[v].lead),
                                        !.ruleVersion = v]])
    BY <1>5 DEF ReevaluateLoad
  <2>. PICK v \in Adjudicate(rules, RematchedBy(s, r)) :
          /\ Stale(r, s.version)
          /\ Continue(t, [pc |-> "reroute", version |-> s.version,
               active |-> s.active, todo |-> s.todo \ {r}, ref |-> r,
               row |-> [items[r] EXCEPT !.status = "adjudicated",
                                        !.lead = BaseLead(rules[v].lead),
                                        !.ruleVersion = v]])
    BY <2>2
  <2>3. v \in s.active
    BY <2>2 DEF Adjudicate, RematchedBy, Matched
  <2>4. v \in Nat /\ rules[v].lead \in Dept
    BY <1>5, <2>3, RuleTypes DEF SessionSound, ReevaluateLoad, Pc
  <2>5. [items[r] EXCEPT !.status = "adjudicated",
                         !.lead = BaseLead(rules[v].lead),
                         !.ruleVersion = v] \in Row
    BY <2>1, <2>2, <2>4, StoredRow, RowChanges DEF Stale
  <2>6. session' \in [Thread -> Session]
    BY <2>1, <2>2, <2>5, SessionStep, SessionForms DEF Continue
  <2>. QED
    BY <1>5, <2>6 DEF ReevaluateLoad, TypeOK, tables
<1>6. ASSUME ReevaluateCommit(t) PROVE TypeOK'
  <2>1. /\ s.version \in Nat /\ s.active \subseteq Nat /\ s.todo \subseteq Ref
        /\ s.ref \in Ref /\ s.row \in Row
    BY <1>0, <1>6, SessionKinds DEF ReevaluateCommit, Pc
  <2>2. session' \in [Thread -> Session]
    BY <1>6, <2>1, LoadNextStep DEF ReevaluateCommit
  <2>3. referrals' \in [Ref -> Seq(Referral)]
    BY <1>6, <2>1, ReferStep DEF ReevaluateCommit
  <2>4. audits' \in [Ref -> SUBSET AuditAction]
    BY <1>6, <2>1, AuditStep DEF ReevaluateCommit, AuditAction
  <2>. QED
    BY <1>6, <2>1, <2>2, <2>3, <2>4 DEF ReevaluateCommit, TypeOK
<1>7. ASSUME ReevaluateFails(t) PROVE TypeOK'
  <2>1. s.version \in Nat /\ s.active \subseteq Nat /\ s.todo \subseteq Ref
    BY <1>0, <1>7, SessionKinds DEF ReevaluateFails, Pc
  <2>2. session' \in [Thread -> Session]
    BY <1>7, <2>1, LoadNextStep DEF ReevaluateFails
  <2>. QED
    BY <1>7, <2>2 DEF ReevaluateFails, TypeOK, tables
<1>. QED
  BY <1>1, <1>2, <1>3, <1>4, <1>5, <1>6, <1>7 DEF ReevaluationSweep

LEMMA TypeAbort ==
  ASSUME TypeOK, NEW t \in Thread, Abort(t)
  PROVE  TypeOK'
  BY SessionStep, IdleIsSession DEF Abort, Continue, TypeOK, tables

(***************************************************************************)
(* The tables are append-only for what the invariants look at: a rule      *)
(* keeps its number, time and department, referrals, escalations and audit *)
(* entries stay, a stored suggestion stays stored.                         *)
(***************************************************************************)
RulesGrow ==
  /\ Len(rules) <= Len(rules')
  /\ \A v \in DOMAIN rules :
       /\ v \in DOMAIN rules'
       /\ rules'[v].from = rules[v].from
       /\ rules'[v].lead = rules[v].lead

ReferralsGrow ==
  \A r \in Ref : \A k \in DOMAIN referrals[r] :
    /\ k \in DOMAIN referrals'[r]
    /\ referrals'[r][k].lead = referrals[r][k].lead
    /\ referrals'[r][k].ruleVersion = referrals[r][k].ruleVersion

EscalationsGrow ==
  \A r \in Ref : \A k \in DOMAIN escalations[r] :
    k \in DOMAIN escalations'[r] /\ escalations'[r][k] = escalations[r][k]

AuditsGrow == \A r \in Ref : audits[r] \subseteq audits'[r]

StoredGrow == \A r \in Ref : Stored(r) => Stored(r)'

TablesGrow ==
  RulesGrow /\ ReferralsGrow /\ EscalationsGrow /\ AuditsGrow /\ StoredGrow

LEMMA GrowUnchanged ==
  ASSUME TypeOK
  PROVE  /\ UNCHANGED rules => RulesGrow
         /\ UNCHANGED referrals => ReferralsGrow
         /\ UNCHANGED escalations => EscalationsGrow
         /\ UNCHANGED audits => AuditsGrow
         /\ UNCHANGED items => StoredGrow
<1>1. Len(rules) \in Nat
  BY DEF TypeOK
<1>. QED
  BY <1>1 DEF RulesGrow, ReferralsGrow, EscalationsGrow, AuditsGrow,
              StoredGrow, Stored

LEMMA ReferGrows ==
  ASSUME TypeOK, NEW r \in Ref, NEW row, NEW by, Refer(r, row, by)
  PROVE  /\ ReferralsGrow
         /\ referrals'[r] # <<>>
         /\ Len(referrals'[r]) = Len(referrals[r]) + 1
         /\ \A k \in DOMAIN referrals'[r] :
              referrals'[r][k].current <=> k = Len(referrals'[r])
         /\ referrals'[r][Len(referrals'[r])] = NewReferral(row, by)
         /\ \A q \in Ref \ {r} : referrals'[q] = referrals[q]
<1>. DEFINE old == referrals[r]
            new == referrals'[r]
            superseded == MarkSuperseded(old)
<1>1. old \in Seq(Referral) /\ Len(old) \in Nat /\ DOMAIN old = 1..Len(old)
  BY DEF TypeOK
<1>2. superseded \in Seq(Referral) /\ Len(superseded) = Len(old)
  BY <1>1, MarkSupersededShape
<1>3. new = Append(superseded, NewReferral(row, by))
  BY DEF Refer, TypeOK
<1>4. /\ DOMAIN new = 1..(Len(old) + 1)
      /\ Len(new) = Len(old) + 1
      /\ new[Len(old) + 1] = NewReferral(row, by)
      /\ \A k \in 1..Len(old) : new[k] = superseded[k]
  BY <1>1, <1>2, <1>3
<1>5. \A k \in 1..Len(old) :
        /\ new[k].current = FALSE
        /\ new[k].lead = old[k].lead
        /\ new[k].ruleVersion = old[k].ruleVersion
  <2>1. \A k \in 1..Len(old) :
          /\ superseded[k].current = FALSE
          /\ superseded[k].lead = old[k].lead
          /\ superseded[k].ruleVersion = old[k].ruleVersion
    BY <1>1, MarkSupersededShape
  <2>. QED
    BY <1>4, <2>1
<1>6. \A q \in Ref \ {r} : referrals'[q] = referrals[q]
  BY DEF Refer, TypeOK
<1>7. ReferralsGrow
  BY SMTT(30), <1>1, <1>4, <1>5, <1>6 DEF ReferralsGrow
<1>8. new # <<>>
  BY <1>1, <1>4
<1>9. NewReferral(row, by).current = TRUE
  BY DEF NewReferral
<1>10. \A k \in DOMAIN new : new[k].current <=> k = Len(new)
  BY <1>1, <1>4, <1>5, <1>9
<1>. QED
  BY <1>4, <1>6, <1>7, <1>8, <1>10

LEMMA AuditGrows ==
  ASSUME TypeOK, NEW r \in Ref, NEW a, Audit(r, a)
  PROVE  AuditsGrow /\ a \in audits'[r]
  BY DEF Audit, AuditsGrow, TypeOK

LEMMA WriteGrows ==
  ASSUME TypeOK, NEW r \in Ref, NEW row \in Row,
         items' = [items EXCEPT ![r] = row]
  PROVE  /\ StoredGrow
         /\ items'[r] = row
         /\ \A q \in Ref \ {r} : items'[q] = items[q]
  BY RowNotAbsent DEF StoredGrow, Stored, TypeOK

(***************************************************************************)
(* What is sound stays sound while the tables grow.                        *)
(***************************************************************************)
LEMMA SoundStays ==
  ASSUME TypeOK, TablesGrow, NEW r \in Ref, NEW row \in Row
  PROVE  /\ RuleInForce(row) => RuleInForce(row)'
         /\ OnRecord(r, row) => OnRecord(r, row)'
         /\ LevelOnRecord(r, row) => LevelOnRecord(r, row)'
<1>1. RuleInForce(row) => RuleInForce(row)'
  BY DEF TablesGrow, RulesGrow, RuleInForce
<1>2. OnRecord(r, row) => OnRecord(r, row)'
  BY DEF TablesGrow, ReferralsGrow, OnRecord
<1>3. LevelOnRecord(r, row) => LevelOnRecord(r, row)'
  BY DEF TablesGrow, EscalationsGrow, LevelOnRecord
<1>. QED
  BY <1>1, <1>2, <1>3

LEMMA SessionStays ==
  ASSUME TypeOK, TypeOK', TablesGrow, NEW t \in Thread, SessionSound(t),
         session'[t] = session[t]
  PROVE  SessionSound(t)'
<1>. DEFINE s == session[t]
<1>0. s \in Session /\ session'[t] = s
  BY DEF TypeOK
<1>1. \A r \in Ref, row \in Row :
        /\ RuleInForce(row) => RuleInForce(row)'
        /\ OnRecord(r, row) => OnRecord(r, row)'
        /\ LevelOnRecord(r, row) => LevelOnRecord(r, row)'
  BY SoundStays
<1>2. \A r \in Ref : Stored(r) => Stored(r)'
  BY DEF TablesGrow, StoredGrow
<1>3. ASSUME s.pc = "register" PROVE SessionSound(t)'
  BY <1>0, <1>1, <1>3, SessionKinds DEF SessionSound
<1>4. ASSUME s.pc = "update" PROVE SessionSound(t)'
  <2>1. s.ref \in Ref /\ s.row \in Row
    BY <1>0, <1>4, SessionKinds
  <2>2. /\ Stored(s.ref) /\ RuleInForce(s.row)
        /\ OnRecord(s.ref, s.row) /\ LevelOnRecord(s.ref, s.row)
        /\ PendingUnescalated(s.row)
        /\ WrittenBy(s.row.status) \in audits[s.ref] \cup {s.action}
    BY <1>4 DEF SessionSound
  <2>3. WrittenBy(s.row.status) \in audits'[s.ref] \cup {s.action}
    BY <2>1, <2>2 DEF TablesGrow, AuditsGrow
  <2>. QED
    BY <1>0, <1>1, <1>2, <1>4, <2>1, <2>2, <2>3
       DEF SessionSound, PendingUnescalated, WrittenBy
<1>5. ASSUME s.pc = "rule" PROVE SessionSound(t)'
  <2>1. Len(rules) \in Nat /\ Len(rules') \in Nat
    BY DEF TypeOK
  <2>. QED
    BY <1>0, <1>5, <2>1 DEF SessionSound, TablesGrow, RulesGrow
<1>6. ASSUME s.pc = "escalate" PROVE SessionSound(t)'
  <2>1. \A e \in s.todo : e.ref \in Ref /\ e.row \in Row
    BY <1>0, <1>6, SessionKinds DEF Snapshot
  <2>2. \A e \in s.todo :
          /\ Stored(e.ref) /\ RuleInForce(e.row) /\ OnRecord(e.ref, e.row)
          /\ LevelOnRecord(e.ref, e.row) /\ e.row.level < MaxLevel
    BY <1>6 DEF SessionSound
  <2>3. \A e \in s.todo :
          /\ Stored(e.ref)' /\ RuleInForce(e.row)' /\ OnRecord(e.ref, e.row)'
          /\ LevelOnRecord(e.ref, e.row)'
    BY <1>1, <1>2, <2>1, <2>2
  <2>. QED
    BY <1>0, <1>6, <2>2, <2>3 DEF SessionSound
<1>7. ASSUME s.pc \in {"rules", "load"} PROVE SessionSound(t)'
  BY <1>0, <1>7 DEF SessionSound, TablesGrow, RulesGrow
<1>8. ASSUME s.pc = "reroute" PROVE SessionSound(t)'
  <2>1. s.ref \in Ref /\ s.row \in Row
    BY <1>0, <1>8, SessionKinds
  <2>2. /\ Stored(s.ref) /\ RuleInForce(s.row)
        /\ s.active \subseteq DOMAIN rules
    BY <1>8 DEF SessionSound
  <2>3. s.active \subseteq DOMAIN rules'
    BY <2>2 DEF TablesGrow, RulesGrow
  <2>. QED
    BY <1>0, <1>1, <1>2, <1>8, <2>1, <2>2, <2>3 DEF SessionSound
<1>9. ASSUME s.pc \in {"idle", "version"} PROVE SessionSound(t)'
  BY <1>0, <1>9 DEF SessionSound
<1>. QED
  <2>1. s.pc \in {"register", "update", "rule", "escalate", "rules", "load",
                  "reroute", "idle", "version"}
    BY <1>0 DEF Session, Idle
  <2>. QED
    BY <1>3, <1>4, <1>5, <1>6, <1>7, <1>8, <1>9, <2>1

(***************************************************************************)
(* The induction: what each step has to show.                              *)
(***************************************************************************)
SoundRow(r, row) ==
  /\ RuleInForce(row)
  /\ OnRecord(r, row)
  /\ LevelOnRecord(r, row)
  /\ PendingUnescalated(row)
  /\ {"register", WrittenBy(row.status)} \subseteq audits[r]

LEMMA InvRows ==
  ASSUME RoutingInv, NEW r \in Ref, Stored(r)
  PROVE  SoundRow(r, items[r])
  BY DEF RoutingInv, RoutingOnRecord, RoutedByRuleInForce, LevelJustified,
         PendingNotEscalated, StatusAudited, SoundRow

\* A step of t that writes sound rows, and leaves t's session sound and one
\* current referral each, preserves the invariant.
LEMMA InvStep ==
  ASSUME RoutingInv, TypeOK', TablesGrow, OneCurrentReferral',
         NEW t \in Thread, SessionSound(t)',
         \A u \in Thread \ {t} : session'[u] = session[u],
         \A r \in Ref : items'[r] = items[r] \/ SoundRow(r, items[r])'
  PROVE  RoutingInv'
<1>0. TypeOK
  BY DEF RoutingInv
<1>1. ASSUME NEW r \in Ref, Stored(r)' PROVE SoundRow(r, items[r])'
  <2>1. CASE items'[r] = items[r]
    <3>1. Stored(r)
      BY <1>1, <2>1 DEF Stored
    <3>2. items[r] \in Row /\ SoundRow(r, items[r])
      BY <1>0, <3>1, StoredRow, InvRows
    <3>3. \A row \in Row : SoundRow(r, row) => SoundRow(r, row)'
      <4>1. audits[r] \subseteq audits'[r]
        BY DEF TablesGrow, AuditsGrow
      <4>. QED
        BY <1>0, <4>1, SoundStays DEF SoundRow, PendingUnescalated, WrittenBy
    <3>. QED
      BY <2>1, <3>2, <3>3
  <2>. QED
    BY <2>1
<1>2. ASSUME NEW u \in Thread PROVE SessionSound(u)'
  <2>1. CASE u = t
    BY <2>1
  <2>2. CASE u # t
    BY <1>0, <2>2, SessionStays DEF RoutingInv
  <2>. QED
    BY <2>1, <2>2
<1>. QED
  BY <1>1, <1>2 DEF RoutingInv, RoutingOnRecord, RoutedByRuleInForce,
     LevelJustified, PendingNotEscalated, StatusAudited, SoundRow

\* A step that only reads has to leave the session of its thread sound.
LEMMA InvRead ==
  ASSUME RoutingInv, TypeOK', UNCHANGED tables, NEW t \in Thread,
         SessionSound(t)', \A u \in Thread \ {t} : session'[u] = session[u]
  PROVE  RoutingInv'
<1>1. TablesGrow
  BY GrowUnchanged DEF RoutingInv, tables, TablesGrow
<1>2. OneCurrentReferral'
  BY DEF RoutingInv, OneCurrentReferral, tables, Stored
<1>. QED
  BY <1>1, <1>2, InvStep DEF tables

LEMMA IdleSound ==
  ASSUME NEW t \in Thread, session'[t] = Idle
  PROVE  SessionSound(t)'
  BY DEF SessionSound, Idle

\* A step of a thread changes no other session.
LEMMA OneSession ==
  ASSUME TypeOK, NEW t \in Thread, NEW s,
         session' = [session EXCEPT ![t] = s]
  PROVE  session'[t] = s /\ \A u \in Thread \ {t} : session'[u] = session[u]
  BY DEF TypeOK

\* Changing the status or the profile leaves the routing and the level.
LEMMA CopyKeepsRouting ==
  ASSUME TypeOK, NEW r \in Ref, NEW row \in Row, NEW new \in Row,
         new.lead = row.lead, new.ruleVersion = row.ruleVersion,
         new.registeredAt = row.registeredAt, new.level = row.level,
         SoundRow(r, row)
  PROVE  RuleInForce(new) /\ OnRecord(r, new) /\ LevelOnRecord(r, new)
<1>1. RuleInForce(new)
  BY DEF SoundRow, RuleInForce
<1>2. OnRecord(r, new)
  BY DEF SoundRow, OnRecord
<1>3. LevelOnRecord(r, new)
  BY DEF SoundRow, LevelOnRecord
<1>. QED
  BY <1>1, <1>2, <1>3

\* The action that leads to each status a request can set.
LEMMA RequestActions ==
  /\ WrittenBy("in_progress") = "start_processing"
  /\ WrittenBy("returned") = "return_for_correction"
  /\ WrittenBy("cancelled") = "cancel"
  /\ WrittenBy("completed") = "complete"
  /\ WrittenBy("escalated") = "escalate"
  /\ WrittenBy("adjudicated") = "register"
BY DEF WrittenBy

\* Only a pending suggestion can be returned, only a returned one resubmitted.
LEMMA PendingTransitions ==
  ASSUME NEW status \in Status
  PROVE  /\ ValidTransition(status, "returned") =>
              status \in {"registered", "adjudicated", "returned"}
         /\ ValidTransition(status, "registered") =>
              status \in {"registered", "returned"}
BY DEF ValidTransition, TransitionTable, Status

LEMMA InvRequest ==
  ASSUME RoutingInv, NEW t \in Thread, Request(t)
  PROVE  RoutingInv'
<1>0. TypeOK /\ TypeOK'
  BY TypeRequest DEF RoutingInv
<1>1. ASSUME NEW r \in Ref, NEW row \in Row, NEW a \in AuditAction,
             Load(t, r, row, a), Stored(r), RuleInForce(row),
             OnRecord(r, row), LevelOnRecord(r, row),
             PendingUnescalated(row),
             WrittenBy(row.status) \in audits[r] \cup {a}
      PROVE  RoutingInv'
  <2>1. /\ session'[t] = [pc |-> "update", ref |-> r, row |-> row,
                          action |-> a]
        /\ \A u \in Thread \ {t} : session'[u] = session[u]
        /\ UNCHANGED tables
    BY <1>0, <1>1, OneSession DEF Load, Begin
  <2>2. SessionSound(t)'
    BY <1>1, <2>1 DEF SessionSound, tables, Stored, RuleInForce, OnRecord,
       LevelOnRecord, PendingUnescalated, WrittenBy
  <2>. QED
    BY <1>0, <2>1, <2>2, InvRead
<1>2. ASSUME NEW r \in Ref, NEW status \in Status, NEW a \in AuditAction,
             TransitionTo(t, r, status, a), WrittenBy(status) = a,
             status \notin {"registered", "adjudicated"}
      PROVE  RoutingInv'
  <2>. DEFINE row == items[r]
              new == [row EXCEPT !.status = status]
  <2>1. Stored(r) /\ ValidTransition(row.status, status) /\ Load(t, r, new, a)
    BY <1>2 DEF TransitionTo
  <2>2. row \in Row /\ SoundRow(r, row)
    BY <1>0, <2>1, StoredRow, InvRows
  <2>3. /\ new \in Row /\ new.status = status
        /\ new.lead = row.lead /\ new.ruleVersion = row.ruleVersion
        /\ new.registeredAt = row.registeredAt /\ new.level = row.level
    BY <2>2 DEF Row
  <2>4. RuleInForce(new) /\ OnRecord(r, new) /\ LevelOnRecord(r, new)
    BY <1>0, <2>2, <2>3, CopyKeepsRouting
  <2>5. PendingUnescalated(new)
    <3>1. row.status \in Status
      BY <2>2 DEF Row
    <3>2. PendingUnescalated(row)
      BY <2>2 DEF SoundRow
    <3>. QED
      BY <1>2, <2>1, <2>3, <3>1, <3>2, PendingTransitions
         DEF PendingUnescalated
  <2>6. WrittenBy(new.status) \in audits[r] \cup {a}
    BY <1>2, <2>3
  <2>. QED
    BY <1>1, <2>1, <2>3, <2>4, <2>5, <2>6
<1>3. ASSUME NEW r \in Ref,
             \/ StartProcessing(t, r)
             \/ ReturnForCorrection(t, r)
             \/ Cancel(t, r)
             \/ Complete(t, r)
      PROVE  RoutingInv'
  BY <1>2, <1>3, RequestActions
     DEF StartProcessing, ReturnForCorrection, Cancel, Complete, Status,
         AuditAction
<1>4. ASSUME NEW r \in Ref, Resubmit(t, r) PROVE RoutingInv'
  <2>. DEFINE row == items[r]
              new == [row EXCEPT !.status = "adjudicated"]
  <2>1. /\ Stored(r) /\ ValidTransition(row.status, "registered")
        /\ Load(t, r, new, "resubmit")
    BY <1>4 DEF Resubmit
  <2>2. row \in Row /\ SoundRow(r, row)
    BY <1>0, <2>1, StoredRow, InvRows
  <2>3. /\ new \in Row /\ new.status = "adjudicated"
        /\ new.lead = row.lead /\ new.ruleVersion = row.ruleVersion
        /\ new.registeredAt = row.registeredAt /\ new.level = row.level
    BY <2>2 DEF Row, Status
  <2>4. RuleInForce(new) /\ OnRecord(r, new) /\ LevelOnRecord(r, new)
    BY <1>0, <2>2, <2>3, CopyKeepsRouting
  <2>5. PendingUnescalated(new)
    <3>1. row.status \in Status
      BY <2>2 DEF Row
    <3>2. PendingUnescalated(row)
      BY <2>2 DEF SoundRow
    <3>. QED
      BY <2>1, <2>3, <3>1, <3>2, PendingTransitions DEF PendingUnescalated
  <2>6. WrittenBy(new.status) \in audits[r]
    BY <2>2, <2>3, RequestActions DEF SoundRow
  <2>7. "resubmit" \in AuditAction
    BY DEF AuditAction
  <2>. QED
    BY <1>1, <2>1, <2>3, <2>4, <2>5, <2>6, <2>7
<1>5. ASSUME NEW r \in Ref, NEW p \in Profile, Modify(t, r, p)
      PROVE  RoutingInv'
  <2>. DEFINE row == items[r]
              new == [row EXCEPT !.profile = p]
  <2>1. Stored(r) /\ Load(t, r, new, "modify")
    BY <1>5 DEF Modify
  <2>2. row \in Row /\ SoundRow(r, row)
    BY <1>0, <2>1, StoredRow, InvRows
  <2>3. /\ new \in Row /\ new.status = row.status
        /\ new.lead = row.lead /\ new.ruleVersion = row.ruleVersion
        /\ new.registeredAt = row.registeredAt /\ new.level = row.level
    BY <2>2 DEF Row
  <2>4. RuleInForce(new) /\ OnRecord(r, new) /\ LevelOnRecord(r, new)
    BY <1>0, <2>2, <2>3, CopyKeepsRouting
  <2>5. PendingUnescalated(new)
    BY <2>2, <2>3 DEF SoundRow, PendingUnescalated
  <2>6. WrittenBy(new.status) \in audits[r]
    BY <2>2, <2>3 DEF SoundRow
  <2>7. "modify" \in AuditAction
    BY DEF AuditAction
  <2>. QED
    BY <1>1, <2>1, <2>3, <2>4, <2>5, <2>6, <2>7
<1>6. ASSUME NEW r \in Ref, NEW p \in Profile, RegisterRead(t, r, p)
      PROVE  RoutingInv'
  <2>1. PICK v \in DOMAIN rules :
          /\ rules[v].from <= now
          /\ session' = [session EXCEPT ![t] =
               [pc |-> "register", ref |-> r,
                row |-> NewRow(rules[v], v, p)]]
    BY <1>6 DEF RegisterRead, Adjudicate, Matched, ActiveVersions, Begin
  <2>. DEFINE row == NewRow(rules[v], v, p)
  <2>2. /\ session'[t] = [pc |-> "register", ref |-> r, row |-> row]
        /\ \A u \in Thread \ {t} : session'[u] = session[u]
        /\ UNCHANGED tables
    BY <1>0, <1>6, <2>1, OneSession DEF RegisterRead
  <2>3. /\ row.status = "adjudicated" /\ row.level = 0
        /\ row.lead.suffixes = <<>> /\ row.lead.dept = rules[v].lead
        /\ row.ruleVersion = v /\ row.registeredAt = now
    BY DEF NewRow, BaseLead
  <2>4. RuleInForce(row)
    BY <2>1, <2>3 DEF RuleInForce
  <2>5. SessionSound(t)'
    BY <2>2, <2>3, <2>4 DEF SessionSound, tables, RuleInForce
  <2>. QED
    BY <1>0, <2>2, <2>5, InvRead
<1>7. ASSUME NEW q \in RuleRequest, CreateRuleRead(t, q) PROVE RoutingInv'
  <2>1. /\ session'[t] = [pc |-> "rule", version |-> Len(rules) + 1,
                          request |-> q, at |-> now]
        /\ \A u \in Thread \ {t} : session'[u] = session[u]
        /\ UNCHANGED tables
    BY <1>0, <1>7, OneSession DEF CreateRuleRead, Begin
  <2>2. Len(rules) \in Nat
    BY <1>0 DEF TypeOK
  <2>3. SessionSound(t)'
    BY <2>1, <2>2 DEF SessionSound, tables
  <2>. QED
    BY <1>0, <2>1, <2>3, InvRead
<1>. QED
  BY <1>3, <1>4, <1>5, <1>6, <1>7 DEF Request

\* A first referral is current.
LEMMA FirstReferral ==
  ASSUME TypeOK, NEW r \in Ref, referrals[r] = <<>>, NEW row, NEW by,
         referrals' = [referrals EXCEPT ![r] = Append(@, NewReferral(row, by))]
  PROVE  /\ ReferralsGrow
         /\ referrals'[r] # <<>>
         /\ \A k \in DOMAIN referrals'[r] :
              referrals'[r][k].current <=> k = Len(referrals'[r])
         /\ referrals'[r][Len(referrals'[r])] = NewReferral(row, by)
         /\ \A q \in Ref \ {r} : referrals'[q] = referrals[q]
<1>. DEFINE first == NewReferral(row, by)
            new == referrals'[r]
<1>1. new = Append(<<>>, first)
  BY DEF TypeOK
<1>2. DOMAIN new = 1..1 /\ Len(new) = 1 /\ new[1] = first
  BY <1>1
<1>3. \A q \in Ref \ {r} : referrals'[q] = referrals[q]
  BY DEF TypeOK
<1>4. first.current = TRUE
  BY DEF NewReferral
<1>5. ReferralsGrow
  <2>1. DOMAIN referrals[r] = {}
    OBVIOUS
  <2>. QED
    BY <1>3, <2>1 DEF ReferralsGrow
<1>6. new # <<>>
  BY <1>2
<1>. QED
  BY <1>2, <1>3, <1>4, <1>5, <1>6

\* After a referral the routing of its row is on record.
LEMMA ReferredOnRecord ==
  ASSUME NEW r \in Ref, NEW row, NEW by,
         Len(referrals'[r]) \in DOMAIN referrals'[r],
         referrals'[r][Len(referrals'[r])] = NewReferral(row, by)
  PROVE  OnRecord(r, row)'
<1>1. /\ NewReferral(row, by).lead = row.lead
      /\ NewReferral(row, by).ruleVersion = row.ruleVersion
  BY DEF NewReferral
<1>. QED
  BY <1>1 DEF OnRecord

\* A step that refers r, and stores it, leaves one current referral each.
LEMMA CurrentStays ==
  ASSUME TypeOK, OneCurrentReferral, NEW r \in Ref, NEW row \in Row,
         items' = [items EXCEPT ![r] = row], referrals'[r] # <<>>,
         \A k \in DOMAIN referrals'[r] :
           referrals'[r][k].current <=> k = Len(referrals'[r]),
         \A q \in Ref \ {r} : referrals'[q] = referrals[q]
  PROVE  OneCurrentReferral'
<1>1. items'[r] = row /\ \A q \in Ref \ {r} : items'[q] = items[q]
  BY WriteGrows
<1>2. Stored(r)'
  BY <1>1, RowNotAbsent DEF Stored
<1>. QED
  BY <1>1, <1>2 DEF OneCurrentReferral, Stored

LEMMA NonEmptyDomain ==
  ASSUME NEW S, NEW table \in Seq(S), table # <<>>
  PROVE  Len(table) \in DOMAIN table
OBVIOUS

\* A step of t that stores a sound row of r preserves the invariant.
LEMMA InvWrite ==
  ASSUME RoutingInv, TypeOK', NEW t \in Thread, SessionSound(t)',
         \A u \in Thread \ {t} : session'[u] = session[u],
         NEW r \in Ref, NEW row \in Row,
         items' = [items EXCEPT ![r] = row], UNCHANGED rules,
         ReferralsGrow, EscalationsGrow, AuditsGrow, OneCurrentReferral',
         RuleInForce(row), OnRecord(r, row)', LevelOnRecord(r, row)',
         PendingUnescalated(row),
         {"register", WrittenBy(row.status)} \subseteq audits'[r]
  PROVE  RoutingInv'
<1>0. TypeOK
  BY DEF RoutingInv
<1>1. /\ StoredGrow
      /\ items'[r] = row
      /\ \A q \in Ref \ {r} : items'[q] = items[q]
  BY <1>0, WriteGrows
<1>2. TablesGrow
  BY <1>0, <1>1, GrowUnchanged DEF TablesGrow
<1>3. RuleInForce(row)'
  BY DEF RuleInForce
<1>4. SoundRow(r, row)'
  BY <1>3 DEF SoundRow, PendingUnescalated, WrittenBy
<1>5. \A q \in Ref : items'[q] = items[q] \/ SoundRow(q, items[q])'
  BY <1>1, <1>4
<1>. QED
  BY <1>2, <1>5, InvStep

LEMMA InvCommit ==
  ASSUME RoutingInv, NEW t \in Thread, Commit(t)
  PROVE  RoutingInv'
<1>. DEFINE s == session[t]
<1>0. TypeOK /\ TypeOK' /\ s \in Session /\ SessionSound(t)
  BY TypeCommit DEF RoutingInv, TypeOK
<1>1. ASSUME RegisterCommit(t) PROVE RoutingInv'
  <2>1. s.pc = "register" /\ s.ref \in Ref /\ s.row \in Row
    BY <1>0, <1>1, SessionKinds DEF RegisterCommit, Pc
  <2>2. /\ session'[t] = Idle
        /\ \A u \in Thread \ {t} : session'[u] = session[u]
    BY <1>0, <1>1, OneSession DEF RegisterCommit, Continue
  <2>3. SessionSound(t)'
    BY <2>2, IdleSound
  <2>4. CASE Stored(s.ref)
    BY <1>0, <1>1, <2>2, <2>3, <2>4, InvRead DEF RegisterCommit, tables
  <2>5. CASE ~Stored(s.ref)
    <3>. PICK r \in Ref, row \in Row : r = s.ref /\ row = s.row
      BY <2>1
    <3>1. /\ RuleInForce(row) /\ row.status = "adjudicated"
          /\ row.level = 0 /\ row.lead.suffixes = <<>>
      BY <1>0, <2>1 DEF SessionSound
    <3>2. /\ items' = [items EXCEPT ![r] = row]
          /\ referrals' = [referrals EXCEPT
               ![r] = Append(@, NewReferral(row, "system"))]
          /\ Audit(r, "register")
          /\ UNCHANGED rules
          /\ UNCHANGED escalations
      BY <1>1, <2>5 DEF RegisterCommit
    <3>3. referrals[r] = <<>> /\ OneCurrentReferral
      BY <2>5 DEF RoutingInv, OneCurrentReferral
    <3>4. /\ ReferralsGrow
          /\ referrals'[r] # <<>>
          /\ \A k \in DOMAIN referrals'[r] :
               referrals'[r][k].current <=> k = Len(referrals'[r])
          /\ referrals'[r][Len(referrals'[r])] = NewReferral(row, "system")
          /\ \A q \in Ref \ {r} : referrals'[q] = referrals[q]
      BY ONLY <1>0, <3>2, <3>3, FirstReferral, r \in Ref
    <3>5. OneCurrentReferral'
      BY ONLY <1>0, <3>2, <3>3, <3>4, CurrentStays, r \in Ref, row \in Row
    <3>6. AuditsGrow /\ "register" \in audits'[r]
      BY <1>0, <3>2, AuditGrows
    <3>7. OnRecord(r, row)'
      <4>1. referrals'[r] \in Seq(Referral)
        BY <1>0 DEF TypeOK
      <4>. QED
        BY <3>4, <4>1, NonEmptyDomain, ReferredOnRecord
    <3>8. LevelOnRecord(r, row)'
      BY <3>1, ConstantsAssumption DEF LevelOnRecord, ConstantsAssumption
    <3>9. PendingUnescalated(row)
      BY <3>1 DEF PendingUnescalated
    <3>10. {"register", WrittenBy(row.status)} \subseteq audits'[r]
      BY <3>1, <3>6, RequestActions
    <3>11. EscalationsGrow
      BY <1>0, <3>2, GrowUnchanged
    <3>. QED
      BY <1>0, <2>2, <2>3, <3>1, <3>2, <3>4, <3>5, <3>6, <3>7, <3>8, <3>9,
         <3>10, <3>11, InvWrite
  <2>. QED
    BY <2>4, <2>5
<1>2. ASSUME UpdateCommit(t) PROVE RoutingInv'
  <2>1. s.pc = "update" /\ s.ref \in Ref /\ s.row \in Row
    BY <1>0, <1>2, SessionKinds DEF UpdateCommit, Pc
  <2>2. /\ session'[t] = Idle
        /\ \A u \in Thread \ {t} : session'[u] = session[u]
    BY <1>0, <1>2, OneSession DEF UpdateCommit, Continue
  <2>3. SessionSound(t)'
    BY <2>2, IdleSound
  <2>. PICK r \in Ref, row \in Row, a \in AuditAction :
         r = s.ref /\ row = s.row /\ a = s.action
    BY <1>0, <2>1, SessionKinds
  <2>4. /\ Stored(r) /\ RuleInForce(row) /\ OnRecord(r, row)
        /\ LevelOnRecord(r, row) /\ PendingUnescalated(row)
        /\ WrittenBy(row.status) \in audits[r] \cup {a}
    BY <1>0, <2>1 DEF SessionSound
  <2>5. /\ items' = [items EXCEPT ![r] = row]
        /\ Audit(r, a)
        /\ UNCHANGED rules
        /\ UNCHANGED referrals
        /\ UNCHANGED escalations
    BY <1>2 DEF UpdateCommit
  <2>6. ReferralsGrow /\ EscalationsGrow
    BY <1>0, <2>5, GrowUnchanged
  <2>7. AuditsGrow /\ a \in audits'[r]
    BY <1>0, <2>5, AuditGrows
  <2>8. OneCurrentReferral'
    <3>1. OneCurrentReferral
      BY DEF RoutingInv
    <3>2. Stored(r)' /\ \A q \in Ref \ {r} : items'[q] = items[q]
      BY <1>0, <2>5, WriteGrows, RowNotAbsent DEF Stored
    <3>. QED
      BY <2>4, <2>5, <3>1, <3>2 DEF OneCurrentReferral, Stored
  <2>9. OnRecord(r, row)' /\ LevelOnRecord(r, row)'
    BY <2>4, <2>5 DEF OnRecord, LevelOnRecord
  <2>10. {"register", WrittenBy(row.status)} \subseteq audits'[r]
    <3>1. "register" \in audits[r]
      BY <2>4, InvRows DEF SoundRow
    <3>2. audits[r] \subseteq audits'[r]
      BY <2>7 DEF AuditsGrow
    <3>. QED
      BY <2>4, <2>7, <3>1, <3>2
  <2>. QED
    BY <1>0, <2>2, <2>3, <2>4, <2>5, <2>6, <2>7, <2>8, <2>9, <2>10, InvWrite
<1>3. ASSUME CreateRuleCommit(t) PROVE RoutingInv'
  <2>1. /\ session'[t] = Idle
        /\ \A u \in Thread \ {t} : session'[u] = session[u]
    BY <1>0, <1>3, OneSession DEF CreateRuleCommit, Continue
  <2>2. SessionSound(t)'
    BY <2>1, IdleSound
  <2>3. UNCHANGED <<items, referrals, escalations, audits>>
    BY <1>3 DEF CreateRuleCommit
  <2>4. RulesGrow
    <3>1. CASE UNCHANGED rules
      BY <1>0, <3>1, GrowUnchanged
    <3>2. CASE \E v, q, time :
                 rules' = Append(Superseded(rules, v), NewRule(q, time))
      <4>1. PICK v, q, time :
              rules' = Append(Superseded(rules, v), NewRule(q, time))
        BY <3>2
      <4>2. rules \in Seq(Rule) /\ Len(rules) \in Nat
            /\ DOMAIN rules = 1..Len(rules)
        BY <1>0 DEF TypeOK
      <4>3. /\ Superseded(rules, v) \in Seq(Rule)
            /\ Len(Superseded(rules, v)) = Len(rules)
            /\ \A k \in 1..Len(rules) :
                 /\ Superseded(rules, v)[k].from = rules[k].from
                 /\ Superseded(rules, v)[k].lead = rules[k].lead
        BY <4>2, SupersededShape
      <4>4. /\ Len(rules') = Len(rules) + 1
            /\ DOMAIN rules' = 1..(Len(rules) + 1)
            /\ \A k \in 1..Len(rules) :
                 rules'[k] = Superseded(rules, v)[k]
        BY <4>1, <4>2, <4>3
      <4>. QED
        BY <4>2, <4>3, <4>4 DEF RulesGrow
    <3>. QED
      BY <1>3, <3>1, <3>2 DEF CreateRuleCommit
  <2>5. TablesGrow
    BY <1>0, <2>3, <2>4, GrowUnchanged DEF TablesGrow
  <2>6. OneCurrentReferral'
    BY <2>3 DEF RoutingInv, OneCurrentReferral, Stored
  <2>. QED
    BY <1>0, <2>1, <2>2, <2>3, <2>5, <2>6, InvStep
<1>. QED
  BY <1>1, <1>2, <1>3 DEF Commit

LEMMA InvAbort ==
  ASSUME RoutingInv, NEW t \in Thread, Abort(t)
  PROVE  RoutingInv'
<1>1. TypeOK /\ TypeOK'
  BY TypeAbort DEF RoutingInv
<1>2. /\ session'[t] = Idle
      /\ \A u \in Thread \ {t} : session'[u] = session[u]
  BY <1>1, OneSession DEF Abort, Continue
<1>3. SessionSound(t)'
  BY <1>2, IdleSound
<1>. QED
  BY <1>1, <1>2, <1>3, InvRead DEF Abort

LEMMA EscalationAppended ==
  ASSUME TypeOK, NEW r \in Ref, NEW e \in Escalation,
         escalations' = [escalations EXCEPT ![r] = Append(@, e)]
  PROVE  /\ EscalationsGrow
         /\ \E k \in DOMAIN escalations'[r] : escalations'[r][k] = e
<1>. DEFINE old == escalations[r]
            new == escalations'[r]
<1>1. old \in Seq(Escalation) /\ Len(old) \in Nat /\ DOMAIN old = 1..Len(old)
  BY DEF TypeOK
<1>2. new = Append(old, e)
  BY DEF TypeOK
<1>3. /\ DOMAIN new = 1..(Len(old) + 1)
      /\ new[Len(old) + 1] = e
      /\ \A k \in 1..Len(old) : new[k] = old[k]
  BY <1>1, <1>2
<1>4. \A q \in Ref \ {r} : escalations'[q] = escalations[q]
  BY DEF TypeOK
<1>5. EscalationsGrow
  BY <1>1, <1>3, <1>4 DEF EscalationsGrow
<1>. QED
  BY <1>1, <1>3, <1>5

\* The escalated copy is one level up, under the supervisor of that level.
LEMMA EscalatedRow ==
  ASSUME NEW row \in Row, NEW time \in Nat
  PROVE  LET new == Escalated(row, time)
         IN  /\ new.status = "escalated"
             /\ new.level = row.level + 1
             /\ new.ruleVersion = row.ruleVersion
             /\ new.registeredAt = row.registeredAt
             /\ new.lead.dept = row.lead.dept
             /\ new.lead.suffixes = Append(row.lead.suffixes, row.level + 1)
<1>1. row.lead \in Lead /\ row.level \in Nat
  BY DEF Row
<1>2. row.level + 1 # 0
  BY <1>1
<1>3. EscalationDepartmentName(row.lead, row.level + 1)
        = [row.lead EXCEPT !.suffixes = Append(@, row.level + 1)]
  BY <1>2 DEF EscalationDepartmentName
<1>. QED
  BY <1>1, <1>3 DEF Escalated, Row, Lead

\* The rest of an escalation sweep stays sound while the tables grow.
LEMMA SweepGoesOn ==
  ASSUME TypeOK, TablesGrow, NEW t \in Thread, SessionSound(t),
         session[t].pc = "escalate", NEW rest \in SUBSET session[t].todo,
         NextSweep(t, rest)
  PROVE  SessionSound(t)'
<1>. DEFINE s == session[t]
            goOn == [pc |-> "escalate", at |-> s.at, todo |-> rest]
<1>1. CASE rest = {}
  BY <1>1, OneSession, IdleSound DEF NextSweep, Continue
<1>2. CASE rest # {}
  <2>1. session'[t] = goOn
    BY <1>2, OneSession DEF NextSweep, Continue
  <2>2. \A e \in rest : e.ref \in Ref /\ e.row \in Row
    BY SessionKinds DEF TypeOK, Snapshot
  <2>3. \A e \in rest :
          /\ Stored(e.ref) /\ RuleInForce(e.row) /\ OnRecord(e.ref, e.row)
          /\ LevelOnRecord(e.ref, e.row) /\ e.row.level < MaxLevel
    BY DEF SessionSound
  <2>4. \A r \in Ref, row \in Row :
          /\ Stored(r) => Stored(r)'
          /\ RuleInForce(row) => RuleInForce(row)'
          /\ OnRecord(r, row) => OnRecord(r, row)'
          /\ LevelOnRecord(r, row) => LevelOnRecord(r, row)'
    BY SoundStays DEF TablesGrow, StoredGrow
  <2>5. \A e \in rest :
          /\ Stored(e.ref)' /\ RuleInForce(e.row)' /\ OnRecord(e.ref, e.row)'
          /\ LevelOnRecord(e.ref, e.row)'
    BY <2>2, <2>3, <2>4
  <2>. QED
    BY <2>1, <2>3, <2>5 DEF SessionSound
<1>. QED
  BY <1>1, <1>2

LEMMA InvEscalation ==
  ASSUME RoutingInv, NEW t \in Thread, EscalationSweep(t)
  PROVE  RoutingInv'
<1>. DEFINE s == session[t]
<1>0. TypeOK /\ TypeOK' /\ s \in Session /\ SessionSound(t)
  BY TypeEscalation DEF RoutingInv, TypeOK
<1>1. ASSUME FindOverdueItems(t) PROVE RoutingInv'
  <2>. DEFINE overdue == {r \in Ref : Stored(r) /\ Overdue(items[r])}
              todo == {[ref |-> r, row |-> items[r]] : r \in overdue}
  <2>1. /\ session'[t] = [pc |-> "escalate", at |-> now, todo |-> todo]
        /\ \A u \in Thread \ {t} : session'[u] = session[u]
        /\ UNCHANGED tables
    BY <1>0, <1>1, OneSession DEF FindOverdueItems, Begin
  <2>2. \A e \in todo :
          /\ Stored(e.ref) /\ RuleInForce(e.row) /\ OnRecord(e.ref, e.row)
          /\ LevelOnRecord(e.ref, e.row) /\ e.row.level < MaxLevel
    BY InvRows DEF SoundRow, Overdue
  <2>3. SessionSound(t)'
    BY <2>1, <2>2 DEF SessionSound, tables, Stored, RuleInForce, OnRecord,
       LevelOnRecord
  <2>. QED
    BY <1>0, <2>1, <2>3, InvRead
<1>2. ASSUME EscalateItem(t) PROVE RoutingInv'
  <2>1. s.pc = "escalate" /\ s.todo \subseteq Snapshot /\ s.at \in Nat
    BY <1>0, <1>2, SessionKinds DEF EscalateItem, Pc
  <2>2. PICK e \in Earliest(s.todo) :
          /\ NextSweep(t, s.todo \ {e})
          /\ escalations' = [escalations EXCEPT ![e.ref] =
               Append(@, [from |-> e.row.level,
                          to |-> Escalated(e.row, s.at).level])]
          /\ Refer(e.ref, Escalated(e.row, s.at), "system_escalation")
          /\ items' = [items EXCEPT ![e.ref] = Escalated(e.row, s.at)]
          /\ Audit(e.ref, "escalate")
    BY <1>2 DEF EscalateItem
  <2>3. e \in s.todo /\ e.ref \in Ref /\ e.row \in Row
    BY <2>1 DEF Earliest, Snapshot
  <2>. PICK r \in Ref, old \in Row, time \in Nat :
         r = e.ref /\ old = e.row /\ time = s.at
    BY <2>1, <2>3
  <2>. DEFINE row == Escalated(old, time)
              step == [from |-> old.level, to |-> row.level]
  <2>4. /\ Stored(r) /\ RuleInForce(old) /\ LevelOnRecord(r, old)
        /\ old.level < MaxLevel
    BY <1>0, <2>1, <2>3 DEF SessionSound
  <2>5. /\ escalations' = [escalations EXCEPT ![r] = Append(@, step)]
        /\ Refer(r, row, "system_escalation")
        /\ items' = [items EXCEPT ![r] = row]
        /\ Audit(r, "escalate")
    BY <2>2
  <2>6. /\ row \in Row /\ row.status = "escalated"
        /\ row.level = old.level + 1 /\ row.ruleVersion = old.ruleVersion
        /\ row.registeredAt = old.registeredAt
        /\ row.lead.dept = old.lead.dept
        /\ row.lead.suffixes = Append(old.lead.suffixes, old.level + 1)
        /\ old.level \in Nat /\ old.lead.suffixes \in Seq(Nat)
    BY EscalatedRow, RowChanges DEF Row, Lead
  <2>. HIDE DEF row
  <2>7. /\ EscalationsGrow
        /\ \E k \in DOMAIN escalations'[r] : escalations'[r][k] = step
    <3>1. step \in Escalation
      BY <2>6 DEF Escalation
    <3>. QED
      BY ONLY <1>0, <2>5, <3>1, EscalationAppended, r \in Ref
  <2>8. /\ ReferralsGrow
        /\ referrals'[r] # <<>>
        /\ \A k \in DOMAIN referrals'[r] :
             referrals'[r][k].current <=> k = Len(referrals'[r])
        /\ referrals'[r][Len(referrals'[r])]
             = NewReferral(row, "system_escalation")
        /\ \A q \in Ref \ {r} : referrals'[q] = referrals[q]
    BY ONLY <1>0, <2>5, ReferGrows, r \in Ref
  <2>9. OneCurrentReferral'
    <3>1. OneCurrentReferral
      BY DEF RoutingInv
    <3>. QED
      BY ONLY <1>0, <2>5, <2>6, <2>8, <3>1, CurrentStays, r \in Ref
  <2>10. AuditsGrow /\ "escalate" \in audits'[r]
    BY <1>0, <2>5, AuditGrows
  <2>11. UNCHANGED rules
    BY <1>2 DEF EscalateItem
  <2>12. TablesGrow
    <3>1. StoredGrow
      BY <1>0, <2>5, <2>6, WriteGrows
    <3>. QED
      BY <1>0, <2>7, <2>8, <2>10, <2>11, <3>1, GrowUnchanged DEF TablesGrow
  <2>13. RuleInForce(row)
    BY <2>4, <2>6 DEF RuleInForce
  <2>14. OnRecord(r, row)'
    <3>1. referrals'[r] \in Seq(Referral)
      BY <1>0 DEF TypeOK
    <3>. QED
      BY <2>8, <3>1, NonEmptyDomain, ReferredOnRecord
  <2>15. LevelOnRecord(r, row)'
    <3>1. row.level <= MaxLevel
      BY <2>4, <2>6, ConstantsAssumption DEF ConstantsAssumption
    <3>2. Len(old.lead.suffixes) = old.level
      BY <2>4 DEF LevelOnRecord
    <3>3. /\ Len(row.lead.suffixes) = row.level
          /\ row.lead.suffixes[row.level] = row.level
          /\ \A l \in 1..old.level :
               row.lead.suffixes[l] = old.lead.suffixes[l]
      BY <2>6, <3>2
    <3>4. \A l \in 1..old.level :
            /\ row.lead.suffixes[l] = l
            /\ \E k \in DOMAIN escalations'[r] :
                 escalations'[r][k] = [from |-> l - 1, to |-> l]
      BY <2>4, <2>7, <3>3 DEF LevelOnRecord, EscalationsGrow
    <3>5. \E k \in DOMAIN escalations'[r] :
            escalations'[r][k] = [from |-> row.level - 1, to |-> row.level]
      BY <2>6, <2>7
    <3>6. \A l \in 1..row.level : l \in 1..old.level \/ l = row.level
      BY <2>6
    <3>. QED
      BY <3>1, <3>3, <3>4, <3>5, <3>6 DEF LevelOnRecord
  <2>16. PendingUnescalated(row)
    BY <2>6 DEF PendingUnescalated
  <2>17. {"register", WrittenBy(row.status)} \subseteq audits'[r]
    <3>1. "register" \in audits[r]
      BY <2>4, InvRows DEF SoundRow
    <3>2. audits[r] \subseteq audits'[r]
      BY <2>10 DEF AuditsGrow
    <3>. QED
      BY <2>6, <2>10, <3>1, <3>2, RequestActions
  <2>18. SessionSound(t)'
    BY <1>0, <2>1, <2>2, <2>12, SweepGoesOn
  <2>19. \A u \in Thread \ {t} : session'[u] = session[u]
    BY <1>0, <2>2, OneSession DEF NextSweep, Continue
  <2>. QED
    BY <1>0, <2>5, <2>6, <2>7, <2>8, <2>9, <2>10, <2>11, <2>13, <2>14, <2>15,
       <2>16, <2>17, <2>18, <2>19, InvWrite
<1>3. ASSUME EscalateItemFails(t) PROVE RoutingInv'
  <2>1. /\ session'[t] = Idle
        /\ \A u \in Thread \ {t} : session'[u] = session[u]
        /\ UNCHANGED tables
    BY <1>0, <1>3, OneSession DEF EscalateItemFails, Continue
  <2>. QED
    BY <1>0, <2>1, IdleSound, InvRead
<1>. QED
  BY <1>1, <1>2, <1>3 DEF EscalationSweep

\* The rest of a re-evaluation sweep stays sound while the rules grow.
LEMMA ReevaluationGoesOn ==
  ASSUME TypeOK, RulesGrow, NEW t \in Thread,
         session[t].active \subseteq DOMAIN rules, NEW rest,
         LoadNext(t, session[t], rest)
  PROVE  SessionSound(t)'
<1>. DEFINE s == session[t]
            goOn == [pc |-> "load", version |-> s.version,
                     active |-> s.active, todo |-> rest]
<1>1. CASE rest = {}
  BY <1>1, OneSession, IdleSound DEF LoadNext, Continue
<1>2. CASE rest # {}
  <2>1. session'[t] = goOn
    BY <1>2, OneSession DEF LoadNext, Continue
  <2>2. s.active \subseteq DOMAIN rules'
    BY DEF RulesGrow
  <2>. QED
    BY <2>1, <2>2 DEF SessionSound
<1>. QED
  BY <1>1, <1>2

LEMMA InvReevaluation ==
  ASSUME RoutingInv, NEW t \in Thread, ReevaluationSweep(t)
  PROVE  RoutingInv'
<1>. DEFINE s == session[t]
<1>0. TypeOK /\ TypeOK' /\ s \in Session /\ SessionSound(t)
  BY TypeReevaluation DEF RoutingInv, TypeOK
<1>1. ASSUME GetCurrentRuleVersion(t) PROVE RoutingInv'
  <2>1. /\ session'[t] = [pc |-> "version", version |-> Len(rules)]
        /\ \A u \in Thread \ {t} : session'[u] = session[u]
        /\ UNCHANGED tables
    BY <1>0, <1>1, OneSession DEF GetCurrentRuleVersion, Begin
  <2>2. SessionSound(t)'
    BY <2>1 DEF SessionSound
  <2>. QED
    BY <1>0, <2>1, <2>2, InvRead
<1>2. ASSUME GetActiveRules(t) PROVE RoutingInv'
  <2>1. /\ session'[t] = [pc |-> "rules", version |-> s.version,
                          active |-> ActiveVersions(rules, now)]
        /\ \A u \in Thread \ {t} : session'[u] = session[u]
        /\ UNCHANGED tables
    BY <1>0, <1>2, OneSession DEF GetActiveRules, Continue
  <2>2. ActiveVersions(rules, now) \subseteq DOMAIN rules
    BY DEF ActiveVersions
  <2>3. SessionSound(t)'
    BY <2>1, <2>2 DEF SessionSound, tables
  <2>. QED
    BY <1>0, <2>1, <2>3, InvRead
<1>3. ASSUME NEW rest, LoadNext(t, s, rest), UNCHANGED tables,
             s.active \subseteq DOMAIN rules
      PROVE  RoutingInv'
  <2>1. RulesGrow
    BY <1>0, <1>3, GrowUnchanged DEF tables
  <2>2. SessionSound(t)'
    BY <1>0, <1>3, <2>1, ReevaluationGoesOn
  <2>3. \A u \in Thread \ {t} : session'[u] = session[u]
    BY <1>0, <1>3, OneSession DEF LoadNext, Continue
  <2>. QED
    BY <1>0, <1>3, <2>2, <2>3, InvRead
<1>4. ASSUME CollectStaleItems(t) PROVE RoutingInv'
  <2>1. s.active \subseteq DOMAIN rules
    BY <1>0, <1>4 DEF SessionSound, CollectStaleItems, Pc
  <2>. QED
    BY <1>3, <1>4, <2>1 DEF CollectStaleItems
<1>5. ASSUME ReevaluateSkip(t) PROVE RoutingInv'
  <2>1. s.active \subseteq DOMAIN rules
    BY <1>0, <1>5 DEF SessionSound, ReevaluateSkip, Pc
  <2>. QED
    BY <1>3, <1>5, <2>1 DEF ReevaluateSkip
<1>6. ASSUME ReevaluateFails(t) PROVE RoutingInv'
  <2>1. s.active \subseteq DOMAIN rules
    BY <1>0, <1>6 DEF SessionSound, ReevaluateFails, Pc
  <2>. QED
    BY <1>3, <1>6, <2>1 DEF ReevaluateFails
<1>7. ASSUME ReevaluateLoad(t) PROVE RoutingInv'
  <2>1. /\ s.pc = "load" /\ s.todo \subseteq Ref
        /\ s.active \subseteq DOMAIN rules
    BY <1>0, <1>7, SessionKinds DEF ReevaluateLoad, Pc, SessionSound
  <2>2. PICK r \in s.todo : \E v \in Adjudicate(rules, RematchedBy(s, r)) :
          /\ Stale(r, s.version)
          /\ Continue(t, [pc |-> "reroute", version |-> s.version,
               active |-> s.active, todo |-> s.todo \ {r}, ref |-> r,
               row |-> [items[r] EXCEPT !.status = "adjudicated",
                                        !.lead = BaseLead(rules[v].lead),
                                        !.ruleVersion = v]])
    BY <1>7 DEF ReevaluateLoad
  <2>. PICK v \in Adjudicate(rules, RematchedBy(s, r)) :
          /\ Stale(r, s.version)
          /\ Continue(t, [pc |-> "reroute", version |-> s.version,
               active |-> s.active, todo |-> s.todo \ {r}, ref |-> r,
               row |-> [items[r] EXCEPT !.status = "adjudicated",
                                        !.lead = BaseLead(rules[v].lead),
                                        !.ruleVersion = v]])
    BY <2>2
  <2>. DEFINE row == [items[r] EXCEPT !.status = "adjudicated",
                                      !.lead = BaseLead(rules[v].lead),
                                      !.ruleVersion = v]
  <2>3. v \in s.active /\ rules[v].from <= items[r].registeredAt
    BY DEF Adjudicate, RematchedBy, Matched
  <2>4. r \in Ref /\ Stored(r) /\ items[r].status \in Reevaluable
    BY <2>1 DEF Stale
  <2>5. items[r] \in Row /\ PendingUnescalated(items[r])
    BY <1>0, <2>4, StoredRow, InvRows DEF SoundRow
  <2>6. items[r].level = 0
    BY <2>4, <2>5 DEF PendingUnescalated, Reevaluable
  <2>7. /\ row.status = "adjudicated" /\ row.level = 0
        /\ row.lead.suffixes = <<>> /\ row.lead.dept = rules[v].lead
        /\ row.ruleVersion = v /\ row.registeredAt = items[r].registeredAt
    BY <2>5, <2>6 DEF Row, BaseLead
  <2>8. RuleInForce(row)
    BY <2>1, <2>3, <2>7 DEF RuleInForce
  <2>9. /\ session'[t] = [pc |-> "reroute", version |-> s.version,
               active |-> s.active, todo |-> s.todo \ {r}, ref |-> r,
               row |-> row]
        /\ \A u \in Thread \ {t} : session'[u] = session[u]
        /\ UNCHANGED tables
    BY <1>0, <1>7, OneSession DEF ReevaluateLoad, Continue
  <2>. HIDE DEF row
  <2>10. SessionSound(t)'
    BY <2>1, <2>4, <2>7, <2>8, <2>9
       DEF SessionSound, tables, Stored, RuleInForce
  <2>. QED
    BY <1>0, <2>9, <2>10, InvRead
<1>8. ASSUME ReevaluateCommit(t) PROVE RoutingInv'
  <2>1. s.pc = "reroute" /\ s.ref \in Ref /\ s.row \in Row
    BY <1>0, <1>8, SessionKinds DEF ReevaluateCommit, Pc
  <2>. PICK r \in Ref, row \in Row : r = s.ref /\ row = s.row
    BY <2>1
  <2>2. /\ Stored(r) /\ RuleInForce(row) /\ row.status = "adjudicated"
        /\ row.level = 0 /\ row.lead.suffixes = <<>>
        /\ s.active \subseteq DOMAIN rules
    BY <1>0, <2>1 DEF SessionSound
  <2>3. /\ LoadNext(t, s, s.todo)
        /\ Refer(r, row, "system")
        /\ items' = [items EXCEPT ![r] = row]
        /\ Audit(r, "rule_reevaluated")
        /\ UNCHANGED rules
        /\ UNCHANGED escalations
    BY <1>8 DEF ReevaluateCommit
  <2>4. /\ ReferralsGrow
        /\ referrals'[r] # <<>>
        /\ \A k \in DOMAIN referrals'[r] :
             referrals'[r][k].current <=> k = Len(referrals'[r])
        /\ referrals'[r][Len(referrals'[r])] = NewReferral(row, "system")
        /\ \A q \in Ref \ {r} : referrals'[q] = referrals[q]
    BY ONLY <1>0, <2>3, ReferGrows, r \in Ref
  <2>5. OneCurrentReferral'
    <3>1. OneCurrentReferral
      BY DEF RoutingInv
    <3>. QED
      BY ONLY <1>0, <2>3, <2>4, <3>1, CurrentStays, r \in Ref, row \in Row
  <2>6. AuditsGrow
    BY <1>0, <2>3, AuditGrows
  <2>7. RulesGrow /\ EscalationsGrow
    BY <1>0, <2>3, GrowUnchanged
  <2>8. OnRecord(r, row)'
    <3>1. referrals'[r] \in Seq(Referral)
      BY <1>0 DEF TypeOK
    <3>. QED
      BY <2>4, <3>1, NonEmptyDomain, ReferredOnRecord
  <2>9. LevelOnRecord(r, row)'
    BY <2>2, ConstantsAssumption DEF LevelOnRecord, ConstantsAssumption
  <2>10. PendingUnescalated(row)
    BY <2>2 DEF PendingUnescalated
  <2>11. {"register", WrittenBy(row.status)} \subseteq audits'[r]
    <3>1. "register" \in audits[r]
      BY <2>2, InvRows DEF SoundRow
    <3>2. audits[r] \subseteq audits'[r]
      BY <2>6 DEF AuditsGrow
    <3>. QED
      BY <2>2, <3>1, <3>2, RequestActions
  <2>12. SessionSound(t)'
    BY <1>0, <2>2, <2>3, <2>7, ReevaluationGoesOn
  <2>13. \A u \in Thread \ {t} : session'[u] = session[u]
    BY <1>0, <2>3, OneSession DEF LoadNext, Continue
  <2>. QED
    BY <1>0, <2>2, <2>3, <2>4, <2>5, <2>6, <2>7, <2>8, <2>9, <2>10, <2>11,
       <2>12, <2>13, InvWrite
<1>. QED
  BY <1>1, <1>2, <1>4, <1>5, <1>6, <1>7, <1>8 DEF ReevaluationSweep

(***************************************************************************)
(* The theorems                                                            *)
(***************************************************************************)
\* Every reachable state satisfies RoutingInv: whatever requests, rule
\* changes, escalation sweeps and re-evaluation sweeps interleave, for any
\* number of threads, suggestions and rules, the tables are sound and so is
\* every copy of a row a thread may still write back.
THEOREM RoutingInvariant == Spec => []RoutingInv
<1>1. Init => RoutingInv
  <2>1. SUFFICES ASSUME Init PROVE RoutingInv
    OBVIOUS
  <2>2. TypeOK
    BY <2>1, TypeInit
  <2>3. \A r \in Ref : ~Stored(r) /\ referrals[r] = <<>>
    BY <2>1 DEF Init, Stored
  <2>4. \A t \in Thread : SessionSound(t)
    BY <2>1 DEF Init, SessionSound, Idle
  <2>. QED
    BY <2>2, <2>3, <2>4 DEF RoutingInv, OneCurrentReferral, RoutingOnRecord,
       RoutedByRuleInForce, LevelJustified, PendingNotEscalated, StatusAudited
<1>2. RoutingInv /\ [Next]_vars => RoutingInv'
  <2>1. SUFFICES ASSUME RoutingInv, [Next]_vars PROVE RoutingInv'
    OBVIOUS
  <2>2. ASSUME Tick \/ UNCHANGED vars PROVE RoutingInv'
    <3>1. UNCHANGED tables /\ UNCHANGED session
      BY <2>2 DEF Tick, vars, tables
    <3>2. TypeOK'
      BY <2>1, <2>2 DEF Tick, vars, tables, RoutingInv, TypeOK
    <3>3. TablesGrow
      BY <2>1, <3>1, GrowUnchanged DEF RoutingInv, tables, TablesGrow
    <3>4. \A t \in Thread : SessionSound(t)'
      BY <2>1, <3>1, <3>2, <3>3, SessionStays DEF RoutingInv
    <3>. QED
      BY <2>1, <3>1, <3>2, <3>4 DEF RoutingInv, OneCurrentReferral,
         RoutingOnRecord, RoutedByRuleInForce, LevelJustified,
         PendingNotEscalated, StatusAudited, tables, Stored, RuleInForce,
         OnRecord, LevelOnRecord, PendingUnescalated, WrittenBy
  <2>3. ASSUME NEW t \in Thread,
               \/ Request(t)
               \/ Commit(t)
               \/ EscalationSweep(t)
               \/ ReevaluationSweep(t)
               \/ Abort(t)
        PROVE  RoutingInv'
    BY <2>1, <2>3, InvRequest, InvCommit, InvEscalation, InvReevaluation,
       InvAbort
  <2>. QED
    BY <2>1, <2>2, <2>3 DEF Next
<1>. QED
  BY <1>1, <1>2, PTL DEF Spec

\* The tables and the sessions always have their types.
THEOREM TypeCorrect == Spec => []TypeOK
<1>1. RoutingInv => TypeOK
  BY DEF RoutingInv
<1>. QED
  BY <1>1, RoutingInvariant, PTL

\* A suggestion always has exactly one current referral, its latest: no
\* interleaving of sweeps leaves two departments, or none, in charge.
THEOREM OneCurrent == Spec => []OneCurrentReferral
<1>1. RoutingInv => OneCurrentReferral
  BY DEF RoutingInv
<1>. QED
  BY <1>1, RoutingInvariant, PTL

\* No suggestion is ever routed by a rule younger than itself, and its routing
\* always has a referral on record.
THEOREM RoutingJustified == Spec => [](RoutedByRuleInForce /\ RoutingOnRecord)
<1>1. RoutingInv => RoutedByRuleInForce /\ RoutingOnRecord
  BY DEF RoutingInv
<1>. QED
  BY <1>1, RoutingInvariant, PTL

\* Levels never exceed maxLevel, each has its escalation on record and its
\* supervisor in the lead department; a pending suggestion has none.
THEOREM LevelsJustified == Spec => [](LevelJustified /\ PendingNotEscalated)
<1>1. RoutingInv => LevelJustified /\ PendingNotEscalated
  BY DEF RoutingInv
<1>. QED
  BY <1>1, RoutingInvariant, PTL

\* The status of a stored suggestion always has the audit entry of the action
\* that leads to it, and the suggestion that of its registration.
THEOREM AuditComplete == Spec => []StatusAudited
<1>1. RoutingInv => StatusAudited
  BY DEF RoutingInv
<1>. QED
  BY <1>1, RoutingInvariant, PTL

-----------------------------------------------------------------------------
(***************************************************************************)
(* The rules and assignments tables implement the ledger of ReferralLedger. *)
(***************************************************************************)

History == [r \in Ref |-> [k \in DOMAIN referrals[r] |->
                             Routing(referrals[r][k])]]

InForce == [r \in Ref |-> CurrentRouting(r)]

\* A step that appends a referral with the routing of a row is a Route step.
LEMMA ReferRoutes ==
  ASSUME TypeOK, TypeOK', OneCurrentReferral', NEW r \in Ref, NEW row,
         NEW by, UNCHANGED rules,
         Len(referrals'[r]) = Len(referrals[r]) + 1,
         \A k \in DOMAIN referrals[r] :
           /\ referrals'[r][k].lead = referrals[r][k].lead
           /\ referrals'[r][k].ruleVersion = referrals[r][k].ruleVersion,
         referrals'[r][Len(referrals'[r])] = NewReferral(row, by),
         \A q \in Ref \ {r} : referrals'[q] = referrals[q]
  PROVE  Ledger!Route(r, Routing(row))
<1>. DEFINE old == referrals[r]
            new == referrals'[r]
<1>1. /\ old \in Seq(Referral) /\ Len(old) \in Nat
      /\ DOMAIN old = 1..Len(old)
      /\ new \in Seq(Referral) /\ DOMAIN new = 1..(Len(old) + 1)
  BY DEF TypeOK
<1>2. /\ \A k \in 1..Len(old) : Routing(new[k]) = Routing(old[k])
      /\ Routing(new[Len(old) + 1]) = Routing(row)
  <2>1. Routing(NewReferral(row, by)) = Routing(row)
    BY DEF Routing, NewReferral
  <2>2. \A k \in 1..Len(old) : Routing(new[k]) = Routing(old[k])
    BY <1>1 DEF Routing
  <2>. QED
    BY <2>1, <2>2
<1>. DEFINE oldHistory == [k \in DOMAIN old |-> Routing(old[k])]
            newHistory == [k \in DOMAIN new |-> Routing(new[k])]
<1>3. newHistory = Append(oldHistory, Routing(row))
  <2>. DEFINE S == {Routing(x) : x \in Referral} \cup {Routing(row)}
  <2>1. oldHistory \in [1..Len(old) -> S]
    BY <1>1
  <2>2. oldHistory \in Seq(S) /\ Len(oldHistory) = Len(old)
    BY <1>1, <2>1
  <2>3. newHistory \in [1..(Len(old) + 1) -> S]
    BY <1>1, <1>2
  <2>4. /\ Append(oldHistory, Routing(row)) \in [1..(Len(old) + 1) -> S]
        /\ \A k \in 1..Len(old) :
             Append(oldHistory, Routing(row))[k] = oldHistory[k]
        /\ Append(oldHistory, Routing(row))[Len(old) + 1] = Routing(row)
    <3>. DEFINE longer == Append(oldHistory, Routing(row))
    <3>1. Routing(row) \in S
      OBVIOUS
    <3>. HIDE DEF S, oldHistory
    <3>2. /\ longer \in Seq(S)
          /\ Len(longer) = Len(oldHistory) + 1
          /\ \A k \in 1..Len(oldHistory) : longer[k] = oldHistory[k]
          /\ longer[Len(oldHistory) + 1] = Routing(row)
      BY <2>2, <3>1, AppendProperties
    <3>3. longer \in [1..Len(longer) -> S]
      BY <3>2, LenProperties
    <3>. QED
      BY <2>2, <3>2, <3>3
  <2>5. \A k \in 1..(Len(old) + 1) :
          newHistory[k] = Append(oldHistory, Routing(row))[k]
    <3>1. \A k \in 1..Len(old) : newHistory[k] = oldHistory[k]
      BY <1>1, <1>2
    <3>2. newHistory[Len(old) + 1] = Routing(row)
      BY <1>1, <1>2
    <3>3. \A k \in 1..(Len(old) + 1) : k \in 1..Len(old) \/ k = Len(old) + 1
      BY <1>1
    <3>. QED
      BY <2>4, <3>1, <3>2, <3>3
  <2>. QED
    BY <2>3, <2>4, <2>5
<1>4. History' = [History EXCEPT ![r] = Append(@, Routing(row))]
  <2>1. History'[r] = newHistory /\ History[r] = oldHistory
    BY DEF History
  <2>2. \A q \in Ref \ {r} : History'[q] = History[q]
    BY DEF History
  <2>3. DOMAIN History = Ref /\ DOMAIN History' = Ref
    BY DEF History
  <2>. QED
    BY <1>3, <2>1, <2>2, <2>3 DEF History
<1>5. InForce' = [InForce EXCEPT ![r] = Routing(row)]
  <2>1. CurrentRouting(r)' = Routing(row)
    <3>1. \A k \in DOMAIN new : new[k].current <=> k = Len(new)
      BY DEF OneCurrentReferral
    <3>2. Len(new) = Len(old) + 1 /\ Len(new) \in DOMAIN new
      BY <1>1
    <3>3. (CHOOSE k \in DOMAIN new : new[k].current) = Len(new)
      BY <3>1, <3>2
    <3>4. \E k \in DOMAIN new : new[k].current
      BY <3>1, <3>2
    <3>5. CurrentRouting(r)' = Routing(new[CHOOSE k \in DOMAIN new :
                                             new[k].current])
      BY <3>4 DEF CurrentRouting
    <3>. QED
      BY <1>2, <3>2, <3>3, <3>5
  <2>2. \A q \in Ref \ {r} : CurrentRouting(q)' = CurrentRouting(q)
    BY DEF CurrentRouting
  <2>. QED
    BY <2>1, <2>2 DEF InForce
<1>. QED
  BY <1>4, <1>5 DEF Ledger!Route, History, InForce

\* A row that a rule has just routed goes to the department of that rule.
LEMMA BaseRouting ==
  ASSUME TypeOK, NEW row \in Row, RuleInForce(row), row.lead.suffixes = <<>>
  PROVE  \E dept \in Dept, version \in 1..Len(rules) :
           Routing(row) = [lead |-> BaseLead(dept), ruleVersion |-> version]
<1>1. row.lead \in Lead
  BY DEF Row
<1>2. row.lead.dept \in Dept /\ row.lead = BaseLead(row.lead.dept)
  BY <1>1 DEF Lead, BaseLead
<1>3. row.ruleVersion \in 1..Len(rules)
  BY RuleTypes DEF RuleInForce
<1>. QED
  BY <1>2, <1>3 DEF Routing

\* An escalated copy carries the routing of its supervisor.
LEMMA TakeOverRouting ==
  ASSUME NEW r \in Ref, NEW old \in Row, NEW time \in Nat,
         OnRecord(r, old), LevelOnRecord(r, old), old.level < MaxLevel
  PROVE  \E k \in DOMAIN History[r] :
           LET lead  == History[r][k].lead
               level == Len(lead.suffixes) + 1
           IN  /\ level <= MaxLevel
               /\ Routing(Escalated(old, time)) =
                    [History[r][k] EXCEPT
                       !.lead = EscalationDepartmentName(lead, level)]
<1>1. PICK k \in DOMAIN referrals[r] :
        /\ referrals[r][k].lead = old.lead
        /\ referrals[r][k].ruleVersion = old.ruleVersion
  BY DEF OnRecord
<1>2. k \in DOMAIN History[r] /\ History[r][k] = Routing(old)
  BY <1>1 DEF History, Routing
<1>3. Routing(old).lead = old.lead
  BY DEF Routing
<1>4. old.level \in Nat /\ Len(old.lead.suffixes) = old.level
  BY DEF Row, LevelOnRecord
<1>5. old.level + 1 <= MaxLevel
  BY <1>4, ConstantsAssumption DEF ConstantsAssumption
<1>6. Routing(Escalated(old, time)) =
        [Routing(old) EXCEPT
           !.lead = EscalationDepartmentName(old.lead, old.level + 1)]
  BY DEF Routing, Escalated, Row
<1>. QED
  BY <1>2, <1>3, <1>4, <1>5, <1>6

LEMMA LedgerCommit ==
  ASSUME RoutingInv, RoutingInv', NEW t \in Thread, Commit(t)
  PROVE  Ledger!Next \/ UNCHANGED Ledger!vars
<1>. DEFINE s == session[t]
<1>0. TypeOK /\ TypeOK' /\ s \in Session /\ SessionSound(t)
      /\ OneCurrentReferral'
  BY DEF RoutingInv, TypeOK
<1>1. ASSUME UNCHANGED rules, UNCHANGED referrals
      PROVE  UNCHANGED Ledger!vars
  BY <1>1 DEF Ledger!vars, CurrentRouting, Routing
<1>2. ASSUME RegisterCommit(t) PROVE Ledger!Next \/ UNCHANGED Ledger!vars
  <2>1. s.pc = "register" /\ s.ref \in Ref /\ s.row \in Row
    BY <1>0, <1>2, SessionKinds DEF RegisterCommit, Pc
  <2>. PICK r \in Ref, row \in Row : r = s.ref /\ row = s.row
    BY <2>1
  <2>2. RuleInForce(row) /\ row.lead.suffixes = <<>>
    BY <1>0, <2>1 DEF SessionSound
  <2>3. CASE Stored(r)
    BY <1>1, <1>2, <2>3 DEF RegisterCommit
  <2>4. CASE ~Stored(r)
    <3>1. /\ referrals' = [referrals EXCEPT
                             ![r] = Append(@, NewReferral(row, "system"))]
          /\ UNCHANGED rules
      BY <1>2, <2>4 DEF RegisterCommit
    <3>2. referrals[r] = <<>>
      BY <2>4 DEF RoutingInv, OneCurrentReferral
    <3>3. /\ Len(referrals'[r]) = Len(referrals[r]) + 1
          /\ referrals'[r][Len(referrals'[r])] = NewReferral(row, "system")
          /\ \A q \in Ref \ {r} : referrals'[q] = referrals[q]
      BY <1>0, <3>1, <3>2 DEF TypeOK
    <3>4. Ledger!Route(r, Routing(row))
      BY <1>0, <3>1, <3>2, <3>3, ReferRoutes
    <3>5. Ledger!Dispatch(r)
      BY <1>0, <2>2, <3>4, BaseRouting
         DEF Ledger!Dispatch, Ledger!BaseLead, BaseLead
    <3>. QED
      BY <3>5 DEF Ledger!Next
  <2>. QED
    BY <2>3, <2>4
<1>3. ASSUME UpdateCommit(t) PROVE Ledger!Next \/ UNCHANGED Ledger!vars
  BY <1>1, <1>3 DEF UpdateCommit
<1>4. ASSUME CreateRuleCommit(t) PROVE Ledger!Next \/ UNCHANGED Ledger!vars
  <2>1. UNCHANGED referrals
    BY <1>4 DEF CreateRuleCommit
  <2>2. CASE UNCHANGED rules
    BY <1>1, <2>1, <2>2
  <2>3. CASE \E v, rule : rules' = Append(Superseded(rules, v), rule)
    <3>1. PICK v, rule : rules' = Append(Superseded(rules, v), rule)
      BY <2>3
    <3>2. /\ Superseded(rules, v) \in Seq(Rule)
          /\ Len(Superseded(rules, v)) = Len(rules)
      BY <1>0, SupersededShape DEF TypeOK
    <3>3. Len(rules') = Len(rules) + 1
      BY <3>1, <3>2
    <3>4. Ledger!NewVersion
      BY <2>1, <3>3 DEF Ledger!NewVersion, CurrentRouting, Routing
    <3>. QED
      BY <3>4 DEF Ledger!Next
  <2>. QED
    BY <1>4, <2>2, <2>3 DEF CreateRuleCommit
<1>. QED
  BY <1>2, <1>3, <1>4 DEF Commit

\* The tables implement the ledger: for any number of threads, suggestions and
\* rules, referrals only grow, the last is the one in force, and each is a
\* rule's dispatch or a supervisor's take-over of a referral on record.
THEOREM LedgerRefinement == Spec => LedgerSpec
<1>1. Init => Ledger!Init
  <2>1. SUFFICES ASSUME Init PROVE Ledger!Init
    OBVIOUS
  <2>2. \A r \in Ref : referrals[r] = <<>>
    BY <2>1 DEF Init
  <2>3. \A r \in Ref : CurrentRouting(r) = <<>>
    BY <2>2 DEF CurrentRouting
  <2>4. \A r \in Ref :
          [k \in DOMAIN referrals[r] |-> Routing(referrals[r][k])] = <<>>
    BY <2>2
  <2>5. Len(rules) = 0
    BY <2>1 DEF Init
  <2>. QED
    BY <2>3, <2>4, <2>5 DEF Ledger!Init, Ledger!Unrouted
<1>2. RoutingInv /\ RoutingInv' /\ [Next]_vars
        => [Ledger!Next]_(Ledger!vars)
  <2>1. SUFFICES ASSUME RoutingInv, RoutingInv', [Next]_vars
                 PROVE  Ledger!Next \/ UNCHANGED Ledger!vars
    OBVIOUS
  <2>2. TypeOK /\ TypeOK' /\ OneCurrentReferral'
    BY <2>1 DEF RoutingInv
  <2>3. ASSUME UNCHANGED rules, UNCHANGED referrals
        PROVE  UNCHANGED Ledger!vars
    BY <2>3 DEF Ledger!vars, CurrentRouting, Routing
  <2>4. ASSUME Tick \/ UNCHANGED vars PROVE UNCHANGED Ledger!vars
    BY <2>3, <2>4 DEF Tick, vars, tables
  <2>5. ASSUME NEW t \in Thread, Request(t) PROVE UNCHANGED Ledger!vars
    <3>1. UNCHANGED tables
      BY <2>5 DEF Request, StartProcessing, ReturnForCorrection, Resubmit,
         Cancel, Complete, RegisterRead, Modify, CreateRuleRead,
         TransitionTo, Load
    <3>. QED
      BY <2>3, <3>1 DEF tables
  <2>6. ASSUME NEW t \in Thread, EscalationSweep(t)
        PROVE  Ledger!Next \/ UNCHANGED Ledger!vars
    <3>. DEFINE s == session[t]
    <3>1. CASE FindOverdueItems(t) \/ EscalateItemFails(t)
      BY <2>3, <3>1 DEF FindOverdueItems, EscalateItemFails, tables
    <3>2. CASE EscalateItem(t)
      <4>1. /\ s.pc = "escalate" /\ s.todo \subseteq Snapshot /\ s.at \in Nat
            /\ SessionSound(t)
        BY <2>1, <2>2, <3>2, SessionKinds
           DEF EscalateItem, Pc, TypeOK, RoutingInv
      <4>2. PICK e \in Earliest(s.todo) :
              Refer(e.ref, Escalated(e.row, s.at), "system_escalation")
        BY <3>2 DEF EscalateItem
      <4>3. e \in s.todo /\ e.ref \in Ref /\ e.row \in Row
        BY <4>1 DEF Earliest, Snapshot
      <4>. PICK r \in Ref, old \in Row, time \in Nat :
             r = e.ref /\ old = e.row /\ time = s.at
        BY <4>1, <4>3
      <4>4. OnRecord(r, old) /\ LevelOnRecord(r, old) /\ old.level < MaxLevel
        BY <4>1, <4>3 DEF SessionSound
      <4>. DEFINE row == Escalated(old, time)
      <4>5. Refer(r, row, "system_escalation") /\ UNCHANGED rules
        BY <3>2, <4>2 DEF EscalateItem
      <4>. HIDE DEF row
      <4>6. Ledger!Route(r, Routing(row))
        BY ONLY <2>2, <4>5, ReferGrows, ReferRoutes, r \in Ref
           DEF ReferralsGrow
      <4>7. PICK k \in DOMAIN History[r] :
              /\ Len(History[r][k].lead.suffixes) + 1 <= MaxLevel
              /\ Routing(row) =
                   [History[r][k] EXCEPT !.lead =
                      EscalationDepartmentName(History[r][k].lead,
                        Len(History[r][k].lead.suffixes) + 1)]
        BY <4>4, TakeOverRouting DEF row
      <4>8. Ledger!TakeOver(r)
        <5>1. \A lead, n : EscalationDepartmentName(lead, n)
                            = Ledger!EscalationDepartmentName(lead, n)
          BY DEF EscalationDepartmentName, Ledger!EscalationDepartmentName
        <5>2. Routing(row) = [History[r][k] EXCEPT !.lead =
                Ledger!EscalationDepartmentName(History[r][k].lead,
                  Len(History[r][k].lead.suffixes) + 1)]
          BY <4>7, <5>1, Zenon
        <5>3. Ledger!Route(r, [History[r][k] EXCEPT !.lead =
                Ledger!EscalationDepartmentName(History[r][k].lead,
                  Len(History[r][k].lead.suffixes) + 1)])
          BY <4>6, <5>2 DEF Ledger!Route
        <5>. QED
          BY <4>7, <5>3 DEF Ledger!TakeOver, History
      <4>. QED
        BY <4>8 DEF Ledger!Next
    <3>. QED
      BY <2>6, <3>1, <3>2 DEF EscalationSweep
  <2>7. ASSUME NEW t \in Thread, ReevaluationSweep(t)
        PROVE  Ledger!Next \/ UNCHANGED Ledger!vars
    <3>. DEFINE s == session[t]
    <3>1. CASE \/ GetCurrentRuleVersion(t)
               \/ GetActiveRules(t)
               \/ CollectStaleItems(t)
               \/ ReevaluateSkip(t)
               \/ ReevaluateLoad(t)
               \/ ReevaluateFails(t)
      BY <2>3, <3>1 DEF GetCurrentRuleVersion, GetActiveRules,
         CollectStaleItems, ReevaluateSkip, ReevaluateLoad, ReevaluateFails,
         tables
    <3>2. CASE ReevaluateCommit(t)
      <4>1. s.pc = "reroute" /\ s.ref \in Ref /\ s.row \in Row
            /\ SessionSound(t)
        BY <2>1, <2>2, <3>2, SessionKinds
           DEF ReevaluateCommit, Pc, TypeOK, RoutingInv
      <4>. PICK r \in Ref, row \in Row : r = s.ref /\ row = s.row
        BY <4>1
      <4>2. RuleInForce(row) /\ row.lead.suffixes = <<>>
        BY <4>1 DEF SessionSound
      <4>3. Refer(r, row, "system") /\ UNCHANGED rules
        BY <3>2 DEF ReevaluateCommit
      <4>4. Ledger!Route(r, Routing(row))
        BY ONLY <2>2, <4>3, ReferGrows, ReferRoutes, r \in Ref
           DEF ReferralsGrow
      <4>5. Ledger!Dispatch(r)
        BY <2>2, <4>2, <4>4, BaseRouting
         DEF Ledger!Dispatch, Ledger!BaseLead, BaseLead
      <4>. QED
        BY <4>5 DEF Ledger!Next
    <3>. QED
      BY <2>7, <3>1, <3>2 DEF ReevaluationSweep
  <2>8. ASSUME NEW t \in Thread, Abort(t) PROVE UNCHANGED Ledger!vars
    BY <2>3, <2>8 DEF Abort, tables
  <2>. QED
    BY <2>1, <2>4, <2>5, <2>6, <2>7, <2>8, LedgerCommit DEF Next
<1>. QED
  BY <1>1, <1>2, RoutingInvariant, PTL DEF Spec, LedgerSpec, Ledger!Spec

=============================================================================

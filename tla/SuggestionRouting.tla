-------------------------- MODULE SuggestionRouting --------------------------
(***************************************************************************)
(* Suggestions, their referrals to departments and their escalations, as   *)
(* the HTTP handlers (internal/service/suggestion_service.go), the rule    *)
(* administration (rule_service.go), the escalation sweep                  *)
(* (escalation_service.go) and the re-evaluation sweep                     *)
(* (internal/worker/reeval.go) change them concurrently.                   *)
(*                                                                         *)
(* The index has one connection (index/schema.go), so a read is atomic and *)
(* so is a whole transaction; an operation is reads outside a transaction  *)
(* followed by one transaction, and any other thread may run in between.   *)
(* A thread keeps what it has read in its session.  UpdateItem writes the  *)
(* whole row back, without comparing it with what is stored.               *)
(***************************************************************************)
EXTENDS SuggestionStatus, DispatchRules, FiniteSets

CONSTANTS
  Ref,               \* external references: the identity of a suggestion
  Handler,           \* threads that serve requests
  Sweeper,           \* threads that run the escalation sweep
  Reevaluator,       \* threads that run the re-evaluation sweep
  RuleRequest,       \* the bodies of the create-rule requests
  ReviewDeadline,    \* ItemService.deadline
  DeadlineExtension, \* EscalationService.deadlineExtension
  MaxLevel,          \* EscalationService.maxLevel
  MaxTime,           \* bound: the last instant of the clock
  MaxRules,          \* bound: rules ever created
  MaxReferrals,      \* bound: referrals of an item that still gets requests
  MaxAborts          \* bound: threads cut short by an error or a timeout

Thread == Handler \cup Sweeper \cup Reevaluator

RuleRequests ==
  [lead: Dept, profiles: SUBSET Profile, isDefault: BOOLEAN, priority: Nat,
   supersede: Nat]

ASSUME ConstantsAssumption ==
  /\ RuleRequest \subseteq RuleRequests
  /\ ReviewDeadline \in Nat
  /\ DeadlineExtension \in Nat
  /\ MaxLevel \in Nat
  /\ MaxTime \in Nat
  /\ MaxRules \in Nat
  /\ MaxReferrals \in Nat
  /\ MaxAborts \in Nat

VARIABLES
  now,          \* the injected clock
  rules,        \* table rules
  items,        \* table items, by external reference
  referrals,    \* table assignments, in the order of insertion
  escalations,  \* table escalations, in the order of insertion
  audits,       \* table audit_entries: the actions recorded for each item
  session,      \* what each thread is doing and what it has read
  aborts        \* how many operations were cut short

vars == <<now, rules, items, referrals, escalations, audits, session, aborts>>

tables == <<rules, items, referrals, escalations, audits>>

Row ==
  [status: Status, lead: Lead, ruleVersion: Nat, registeredAt: Nat,
   deadline: Nat, level: Nat, profile: Profile]

NoItem == [status |-> "absent"]

Referral ==
  [lead: Lead, ruleVersion: Nat, by: {"system", "system_escalation"},
   current: BOOLEAN]

Escalation == [from: Nat, to: Nat]

AuditAction ==
  {"register", "start_processing", "modify", "return_for_correction",
   "resubmit", "cancel", "complete", "escalate", "rule_reevaluated"}

Snapshot == [ref: Ref, row: Row]

Idle == [pc |-> "idle"]

Session ==
  {Idle}
    \cup [pc: {"register"}, ref: Ref, row: Row]
    \cup [pc: {"update"}, ref: Ref, row: Row, action: AuditAction]
    \cup [pc: {"rule"}, version: Nat, request: RuleRequests, at: Nat]
    \cup [pc: {"escalate"}, todo: SUBSET Snapshot, at: Nat]
    \cup [pc: {"version"}, version: Nat]
    \cup [pc: {"rules"}, version: Nat, active: SUBSET Nat]
    \cup [pc: {"load"}, version: Nat, active: SUBSET Nat, todo: SUBSET Ref]
    \cup [pc: {"reroute"}, version: Nat, active: SUBSET Nat,
          todo: SUBSET Ref, ref: Ref, row: Row]

Stored(r) == items[r] # NoItem

Pc(t, pc) == session[t].pc = pc

Begin(t, s) == Pc(t, "idle") /\ session' = [session EXCEPT ![t] = s]

Continue(t, s) == session' = [session EXCEPT ![t] = s]

Audit(r, action) == audits' = [audits EXCEPT ![r] = @ \cup {action}]

-----------------------------------------------------------------------------
Init ==
  /\ now = 0
  /\ rules = <<>>
  /\ items = [r \in Ref |-> NoItem]
  /\ referrals = [r \in Ref |-> <<>>]
  /\ escalations = [r \in Ref |-> <<>>]
  /\ audits = [r \in Ref |-> {}]
  /\ session = [t \in Thread |-> Idle]
  /\ aborts = 0

Tick ==
  /\ now < MaxTime
  /\ now' = now + 1
  /\ UNCHANGED <<tables, session, aborts>>

(***************************************************************************)
(* Requests on a suggestion: a handler loads the row, changes its copy and *)
(* writes the copy and an audit entry in one transaction.                  *)
(***************************************************************************)
NewRow(rule, version, profile) ==
  [status |-> "adjudicated", lead |-> BaseLead(rule.lead),
   ruleVersion |-> version, registeredAt |-> now,
   deadline |-> now + ReviewDeadline, level |-> 0, profile |-> profile]

NewReferral(row, by) ==
  [lead |-> row.lead, ruleVersion |-> row.ruleVersion, by |-> by,
   current |-> TRUE]

\* Register: no item has the reference yet and a rule is chosen.  An existing
\* item is returned, and ErrNoMatchingRule reported, without a change.
RegisterRead(t, r, profile) ==
  LET matched == Matched(rules, ActiveVersions(rules, now), now, profile)
  IN  /\ t \in Handler
      /\ ~Stored(r)
      /\ \E version \in Adjudicate(rules, matched) :
           Begin(t, [pc |-> "register", ref |-> r,
                     row |-> NewRow(rules[version], version, profile)])
      /\ UNCHANGED <<now, tables, aborts>>

RegisterCommit(t) ==
  LET s == session[t] IN
  /\ Pc(t, "register")
  /\ Continue(t, Idle)
  /\ \/ /\ ~Stored(s.ref)
        /\ items' = [items EXCEPT ![s.ref] = s.row]
        /\ referrals' = [referrals EXCEPT
                           ![s.ref] = Append(@, NewReferral(s.row, "system"))]
        /\ Audit(s.ref, "register")
     \/ /\ Stored(s.ref)           \* UNIQUE(external_ref): rolled back
        /\ UNCHANGED <<items, referrals, audits>>
  /\ UNCHANGED <<now, rules, escalations, aborts>>

\* What the request handlers that load a row have in common.
Load(t, r, row, action) ==
  /\ t \in Handler
  /\ Len(referrals[r]) < MaxReferrals
  /\ Begin(t, [pc |-> "update", ref |-> r, row |-> row, action |-> action])
  /\ UNCHANGED <<now, tables, aborts>>

TransitionTo(t, r, status, action) ==
  /\ Stored(r)
  /\ ValidTransition(items[r].status, status)
  /\ Load(t, r, [items[r] EXCEPT !.status = status], action)

StartProcessing(t, r) == TransitionTo(t, r, "in_progress", "start_processing")

ReturnForCorrection(t, r) ==
  TransitionTo(t, r, "returned", "return_for_correction")

Cancel(t, r) == TransitionTo(t, r, "cancelled", "cancel")

Complete(t, r) == TransitionTo(t, r, "completed", "complete")

Modify(t, r, profile) ==
  /\ Stored(r)
  /\ items[r].status \notin Terminal
  /\ Load(t, r, [items[r] EXCEPT !.profile = profile], "modify")

\* Resubmit passes through "registered" in memory and stores "adjudicated"; it
\* keeps the routing the item had.
Resubmit(t, r) ==
  /\ Stored(r)
  /\ ValidTransition(items[r].status, "registered")
  /\ ValidTransition("registered", "adjudicated")
  /\ Load(t, r, [items[r] EXCEPT !.status = "adjudicated"], "resubmit")

UpdateCommit(t) ==
  LET s == session[t] IN
  /\ Pc(t, "update")
  /\ Continue(t, Idle)
  /\ items' = [items EXCEPT ![s.ref] = s.row]
  /\ Audit(s.ref, s.action)
  /\ UNCHANGED <<now, rules, referrals, escalations, aborts>>

(***************************************************************************)
(* CreateRule: the new version is one more than the greatest read, the     *)
(* primary key decides between two that read the same.                     *)
(***************************************************************************)
CreateRuleRead(t, request) ==
  /\ t \in Handler
  /\ Len(rules) < MaxRules
  /\ Begin(t, [pc |-> "rule", version |-> Len(rules) + 1,
               request |-> request, at |-> now])
  /\ UNCHANGED <<now, tables, aborts>>

Superseded(table, version) ==
  [v \in DOMAIN table |->
     IF v = version THEN [table[v] EXCEPT !.active = FALSE] ELSE table[v]]

NewRule(request, at) ==
  [lead |-> request.lead, profiles |-> request.profiles,
   isDefault |-> request.isDefault, priority |-> request.priority,
   from |-> at, active |-> TRUE]

CreateRuleCommit(t) ==
  LET s == session[t] IN
  /\ Pc(t, "rule")
  /\ Continue(t, Idle)
  /\ \/ /\ s.version \notin DOMAIN rules
        /\ rules' = Append(Superseded(rules, s.request.supersede),
                           NewRule(s.request, s.at))
     \/ /\ s.version \in DOMAIN rules   \* primary key: rolled back
        /\ UNCHANGED rules
  /\ UNCHANGED <<now, items, referrals, escalations, audits, aborts>>

(***************************************************************************)
(* Referrals: the current one is superseded and the new one inserted in    *)
(* the same transaction.                                                   *)
(***************************************************************************)
\* A mutation of MarkSuperseded: the old referral stays current.
KeepCurrent(table) == table

MarkSuperseded(table) ==
  [k \in DOMAIN table |-> [table[k] EXCEPT !.current = FALSE]]

\* A mutation of Refer: the new referral takes the place of the old ones.
ReferReplacing(r, row, by) ==
  referrals' = [referrals EXCEPT ![r] = <<NewReferral(row, by)>>]

Refer(r, row, by) ==
  referrals' = [referrals EXCEPT
                  ![r] = Append(MarkSuperseded(@), NewReferral(row, by))]

(***************************************************************************)
(* The escalation sweep: the overdue rows are read once, then each is      *)
(* escalated from the copy read, the earliest deadline first.              *)
(***************************************************************************)
Overdue(row) ==
  /\ row.status \notin Terminal
  /\ row.deadline < now
  /\ row.level < MaxLevel

\* A mutation of FindOverdueItems: only pending items are looked for.
FindOverduePending(t) ==
  LET overdue == {r \in Ref : /\ Stored(r)
                              /\ Overdue(items[r])
                              /\ items[r].status = "adjudicated"}
  IN  /\ t \in Sweeper
      /\ overdue # {}
      /\ Begin(t, [pc |-> "escalate", at |-> now,
                   todo |-> {[ref |-> r, row |-> items[r]] : r \in overdue}])
      /\ UNCHANGED <<now, tables, aborts>>

FindOverdueItems(t) ==
  LET overdue == {r \in Ref : Stored(r) /\ Overdue(items[r])}
  IN  /\ t \in Sweeper
      /\ overdue # {}
      /\ Begin(t, [pc |-> "escalate", at |-> now,
                   todo |-> {[ref |-> r, row |-> items[r]] : r \in overdue}])
      /\ UNCHANGED <<now, tables, aborts>>

Earliest(todo) ==
  {e \in todo : \A f \in todo : e.row.deadline <= f.row.deadline}

\* A mutation of Escalated: the case goes straight into processing.
EscalatedInProgress(row, at) ==
  [row EXCEPT !.status = "in_progress",
              !.lead = EscalationDepartmentName(@, row.level + 1),
              !.level = @ + 1,
              !.deadline = at + DeadlineExtension]

Escalated(row, at) ==
  [row EXCEPT !.status = "escalated",
              !.lead = EscalationDepartmentName(@, row.level + 1),
              !.level = @ + 1,
              !.deadline = at + DeadlineExtension]

NextSweep(t, rest) ==
  Continue(t, IF rest = {} THEN Idle
              ELSE [pc |-> "escalate", at |-> session[t].at, todo |-> rest])

\* The query has left out the items at MaxLevel, so the branch that records a
\* permanent failure for them is never taken.
EscalateItem(t) ==
  /\ Pc(t, "escalate")
  /\ \E e \in Earliest(session[t].todo) :
       LET row == Escalated(e.row, session[t].at) IN
       /\ ValidTransition(e.row.status, "escalated")
       /\ NextSweep(t, session[t].todo \ {e})
       /\ escalations' = [escalations EXCEPT
            ![e.ref] = Append(@, [from |-> e.row.level, to |-> row.level])]
       /\ Refer(e.ref, row, "system_escalation")
       /\ items' = [items EXCEPT ![e.ref] = row]
       /\ Audit(e.ref, "escalate")
  /\ UNCHANGED <<now, rules, aborts>>

\* An item that cannot be escalated, a returned one, ends the whole sweep.
EscalateItemFails(t) ==
  /\ Pc(t, "escalate")
  /\ \E e \in Earliest(session[t].todo) :
       ~ValidTransition(e.row.status, "escalated")
  /\ Continue(t, Idle)
  /\ UNCHANGED <<now, tables, aborts>>

(***************************************************************************)
(* The re-evaluation sweep: the greatest rule version, the active rules    *)
(* and the pending items are read in turn; then each item is read afresh   *)
(* and rerouted.  A mutex keeps two sweeps from overlapping.               *)
(***************************************************************************)
\* A mutation of Reevaluable: escalated items are rerouted too.
ReevaluableOpen == {"registered", "adjudicated", "escalated"}

Reevaluable == {"registered", "adjudicated"}

Stale(r, version) ==
  /\ Stored(r)
  /\ items[r].status \in Reevaluable
  /\ items[r].ruleVersion < version

Sweeping(t) == session[t].pc \in {"version", "rules", "load", "reroute"}

GetCurrentRuleVersion(t) ==
  /\ t \in Reevaluator
  /\ ~ \E u \in Reevaluator : Sweeping(u)
  /\ rules # <<>>
  /\ \A r \in Ref : Len(referrals[r]) < MaxReferrals
  /\ Begin(t, [pc |-> "version", version |-> Len(rules)])
  /\ UNCHANGED <<now, tables, aborts>>

GetActiveRules(t) ==
  /\ Pc(t, "version")
  /\ Continue(t, [pc |-> "rules", version |-> session[t].version,
                  active |-> ActiveVersions(rules, now)])
  /\ UNCHANGED <<now, tables, aborts>>

LoadNext(t, s, rest) ==
  Continue(t, IF rest = {} THEN Idle
              ELSE [pc |-> "load", version |-> s.version,
                    active |-> s.active, todo |-> rest])

CollectStaleItems(t) ==
  LET s == session[t] IN
  /\ Pc(t, "rules")
  /\ LoadNext(t, s, {r \in Ref : Stale(r, s.version)})
  /\ UNCHANGED <<now, tables, aborts>>

RematchedBy(s, r) ==
  Matched(rules, s.active, items[r].registeredAt, items[r].profile)

\* An item is skipped when it is no longer stale or no rule matches it.
ReevaluateSkip(t) ==
  LET s == session[t] IN
  /\ Pc(t, "load")
  /\ \E r \in s.todo :
       /\ ~Stale(r, s.version) \/ RematchedBy(s, r) = {}
       /\ LoadNext(t, s, s.todo \ {r})
  /\ UNCHANGED <<now, tables, aborts>>

ReevaluateLoad(t) ==
  LET s == session[t] IN
  /\ Pc(t, "load")
  /\ \E r \in s.todo :
       /\ Stale(r, s.version)
       /\ \E version \in Adjudicate(rules, RematchedBy(s, r)) :
            Continue(t, [pc |-> "reroute", version |-> s.version,
              active |-> s.active, todo |-> s.todo \ {r}, ref |-> r,
              row |-> [items[r] EXCEPT !.status = "adjudicated",
                                       !.lead = BaseLead(rules[version].lead),
                                       !.ruleVersion = version]])
  /\ UNCHANGED <<now, tables, aborts>>

ReevaluateCommit(t) ==
  LET s == session[t] IN
  /\ Pc(t, "reroute")
  /\ LoadNext(t, s, s.todo)
  /\ Refer(s.ref, s.row, "system")
  /\ items' = [items EXCEPT ![s.ref] = s.row]
  /\ Audit(s.ref, "rule_reevaluated")
  /\ UNCHANGED <<now, rules, escalations, aborts>>

\* A transaction that fails is counted, logged and left; the sweep goes on.
ReevaluateFails(t) ==
  /\ Pc(t, "reroute")
  /\ aborts < MaxAborts
  /\ aborts' = aborts + 1
  /\ LoadNext(t, session[t], session[t].todo)
  /\ UNCHANGED <<now, tables>>

(***************************************************************************)
(* A thread can be cut short anywhere between its reads and transactions:  *)
(* the client is gone, the task times out, a statement fails or the        *)
(* process dies.  What it has committed stays.                             *)
(***************************************************************************)
Abort(t) ==
  /\ ~Pc(t, "idle")
  /\ aborts < MaxAborts
  /\ aborts' = aborts + 1
  /\ Continue(t, Idle)
  /\ UNCHANGED <<now, tables>>

-----------------------------------------------------------------------------
Request(t) ==
  \/ \E r \in Ref :
       \/ StartProcessing(t, r)
       \/ ReturnForCorrection(t, r)
       \/ Resubmit(t, r)
       \/ Cancel(t, r)
       \/ Complete(t, r)
       \/ \E p \in Profile : RegisterRead(t, r, p) \/ Modify(t, r, p)
  \/ \E q \in RuleRequest : CreateRuleRead(t, q)

Commit(t) == RegisterCommit(t) \/ UpdateCommit(t) \/ CreateRuleCommit(t)

EscalationSweep(t) ==
  FindOverdueItems(t) \/ EscalateItem(t) \/ EscalateItemFails(t)

ReevaluationSweep(t) ==
  \/ GetCurrentRuleVersion(t)
  \/ GetActiveRules(t)
  \/ CollectStaleItems(t)
  \/ ReevaluateSkip(t)
  \/ ReevaluateLoad(t)
  \/ ReevaluateCommit(t)
  \/ ReevaluateFails(t)

Next ==
  \/ Tick
  \/ \E t \in Thread :
       \/ Request(t)
       \/ Commit(t)
       \/ EscalationSweep(t)
       \/ ReevaluationSweep(t)
       \/ Abort(t)

Spec == Init /\ [][Next]_vars

(***************************************************************************)
(* Properties that hold however the threads interleave                     *)
(***************************************************************************)
\* The tables and the sessions hold what their columns and locals can hold.
TypeOK ==
  /\ now \in Nat
  /\ rules \in Seq(Rule)
  /\ items \in [Ref -> Row \cup {NoItem}]
  /\ referrals \in [Ref -> Seq(Referral)]
  /\ escalations \in [Ref -> Seq(Escalation)]
  /\ audits \in [Ref -> SUBSET AuditAction]
  /\ session \in [Thread -> Session]
  /\ aborts \in Nat

\* A stored suggestion always has exactly one current referral, the latest one,
\* and a suggestion that is not stored has none: GetCurrentAssignment is never
\* ambiguous, whatever escalations and re-evaluations ran against each other.
OneCurrentReferral ==
  \A r \in Ref :
    /\ Stored(r) <=> referrals[r] # <<>>
    /\ \A k \in DOMAIN referrals[r] :
         referrals[r][k].current <=> k = Len(referrals[r])

\* What makes a row r could hold a sound one.  A row is read, kept in a session
\* and written back, so the same is asked of the stored row and of the copies.
RuleInForce(row) ==
  /\ row.ruleVersion \in DOMAIN rules
  /\ rules[row.ruleVersion].from <= row.registeredAt
  /\ rules[row.ruleVersion].lead = row.lead.dept

OnRecord(r, row) ==
  \E k \in DOMAIN referrals[r] :
    /\ referrals[r][k].lead = row.lead
    /\ referrals[r][k].ruleVersion = row.ruleVersion

LevelOnRecord(r, row) ==
  /\ row.level <= MaxLevel
  /\ Len(row.lead.suffixes) = row.level
  /\ \A l \in 1..row.level :
       /\ row.lead.suffixes[l] = l
       /\ \E k \in DOMAIN escalations[r] :
            escalations[r][k] = [from |-> l - 1, to |-> l]

PendingUnescalated(row) ==
  /\ row.status # "registered"
  /\ row.status \in {"adjudicated", "returned"} => row.level = 0

\* The audited action that leads to a status.
WrittenBy(status) ==
  CASE status = "in_progress" -> "start_processing"
    [] status = "returned"    -> "return_for_correction"
    [] status = "escalated"   -> "escalate"
    [] status = "completed"   -> "complete"
    [] status = "cancelled"   -> "cancel"
    [] OTHER                  -> "register"

\* The routing in a row is one the assignments table has a referral for: a stale
\* copy can bring back an old routing but never one that was not recorded.
RoutingOnRecord == \A r \in Ref : Stored(r) => OnRecord(r, items[r])

\* A row names a rule that exists, that took effect no later than the item was
\* registered, and the department of that rule: an item is never routed by a
\* rule younger than itself, even by a sweep that read the rules long ago.
RoutedByRuleInForce == \A r \in Ref : Stored(r) => RuleInForce(items[r])

\* The level of a row never exceeds maxLevel, each level it has reached has an
\* escalation on record, and the lead department carries one supervisor suffix
\* per level, in order: the sweep works from copies, and several threads write
\* the row, yet level and lead are never from different escalations.
LevelJustified == \A r \in Ref : Stored(r) => LevelOnRecord(r, items[r])

\* A pending or returned suggestion has never been escalated, so neither a
\* re-evaluation nor a resubmission can take an escalated case from its
\* supervisor while the recorded level stays; and "registered" is never stored.
PendingNotEscalated == \A r \in Ref : Stored(r) => PendingUnescalated(items[r])

\* The status of a row is explained by an audit entry, whoever wrote it last,
\* and so is the row itself.
StatusAudited ==
  \A r \in Ref : Stored(r) =>
    {"register", WrittenBy(items[r].status)} \subseteq audits[r]

\* What a thread may rely on in what it has read.
SessionSound(t) ==
  LET s == session[t] IN
  /\ s.pc = "register" =>
       /\ RuleInForce(s.row)
       /\ s.row.status = "adjudicated" /\ s.row.level = 0
       /\ s.row.lead.suffixes = <<>>
  /\ s.pc = "update" =>
       /\ Stored(s.ref)
       /\ RuleInForce(s.row)
       /\ OnRecord(s.ref, s.row)
       /\ LevelOnRecord(s.ref, s.row)
       /\ PendingUnescalated(s.row)
       /\ WrittenBy(s.row.status) \in audits[s.ref] \cup {s.action}
  /\ s.pc = "rule" => s.version \in 1..(Len(rules) + 1)
  /\ s.pc = "escalate" =>
       \A e \in s.todo :
         /\ Stored(e.ref)
         /\ RuleInForce(e.row)
         /\ OnRecord(e.ref, e.row)
         /\ LevelOnRecord(e.ref, e.row)
         /\ e.row.level < MaxLevel
  /\ s.pc \in {"rules", "load", "reroute"} => s.active \subseteq DOMAIN rules
  /\ s.pc = "reroute" =>
       /\ Stored(s.ref)
       /\ RuleInForce(s.row)
       /\ s.row.status = "adjudicated" /\ s.row.level = 0
       /\ s.row.lead.suffixes = <<>>

\* The inductive invariant: the stored rows are sound because every copy a
\* thread may still write back is.
RoutingInv ==
  /\ TypeOK
  /\ OneCurrentReferral
  /\ RoutingOnRecord
  /\ RoutedByRuleInForce
  /\ LevelJustified
  /\ PendingNotEscalated
  /\ StatusAudited
  /\ \A t \in Thread : SessionSound(t)

(***************************************************************************)
(* The tables implement the ledger of ReferralLedger                       *)
(***************************************************************************)
Routing(referral) ==
  [lead |-> referral.lead, ruleVersion |-> referral.ruleVersion]

\* GetCurrentAssignment: the referral whose is_current is set.
CurrentRouting(r) ==
  IF \E k \in DOMAIN referrals[r] : referrals[r][k].current
  THEN Routing(referrals[r][CHOOSE k \in DOMAIN referrals[r] :
                              referrals[r][k].current])
  ELSE <<>>

Ledger == INSTANCE ReferralLedger WITH
  versions <- Len(rules),
  history  <- [r \in Ref |-> [k \in DOMAIN referrals[r] |->
                                Routing(referrals[r][k])]],
  inForce  <- [r \in Ref |-> CurrentRouting(r)]

\* Whatever the threads do, the referrals of a suggestion only grow, the current
\* one is the last, each comes from a rule that exists or is a supervisor's
\* take-over of a referral on record, and rules are only ever added.
LedgerSpec == Ledger!Spec

(***************************************************************************)
(* Properties that hold when operations do not overlap                     *)
(***************************************************************************)
\* Resubmit takes two transitions at once.
LegalChange(from, to) ==
  ValidTransition(from, to) \/ (from = "returned" /\ to = "adjudicated")

\* Every status change that is committed is one the transition table allows
\* from the status that was stored, so a finished suggestion stays finished.
\* README.md:45 promises as much: "status updates use version numbers to avoid
\* silent overwrites".
NoSilentOverwrite ==
  [][\A r \in Ref : Stored(r) =>
       LegalChange(items[r].status, items'[r].status)]_vars

\* The row of a suggestion and its current referral name the same routing, and
\* its level is the number of its escalations.
RowMatchesReferral ==
  \A r \in Ref : Stored(r) =>
    LET current == referrals[r][Len(referrals[r])] IN
    /\ current.lead = items[r].lead
    /\ current.ruleVersion = items[r].ruleVersion
    /\ items[r].level = Len(escalations[r])

(***************************************************************************)
(* What the comments of the worker say of it                               *)
(***************************************************************************)
\* "Items already in_progress or beyond are left alone so in-flight work is
\* never disrupted" (worker/reeval.go:18-19).
InFlightUndisturbed ==
  [][\A t \in Reevaluator, r \in Ref :
       ReevaluateCommit(t) /\ items'[r] # items[r]
         => items[r].status \in Reevaluable]_vars

\* Re-evaluation moves an item forward: "if the item has already been moved to
\* the current version ... it is a no-op" (worker/reeval.go:93-94), "no duplicate
\* assignments from repeated sweeps" (worker/worker_test.go:175).
ReevaluationAdvances ==
  [][\A t \in Reevaluator, r \in Ref :
       ReevaluateCommit(t) /\ referrals'[r] # referrals[r]
         => items'[r].ruleVersion > items[r].ruleVersion]_vars

(***************************************************************************)
(* Liveness: the ticker loop keeps starting sweeps and a sweep keeps going *)
(***************************************************************************)
Fairness ==
  /\ \A t \in Sweeper : WF_vars(EscalationSweep(t))
  /\ \A t \in Thread : WF_vars(Commit(t))

FairSpec == Spec /\ Fairness

Escalatable(r) ==
  /\ Stored(r)
  /\ Overdue(items[r])
  /\ ValidTransition(items[r].status, "escalated")

\* An overdue item that cannot be escalated stands before r in the sweep.
Blocked(r) ==
  \E b \in Ref :
    /\ Stored(b)
    /\ Overdue(items[b])
    /\ ~ValidTransition(items[b].status, "escalated")
    /\ items[b].deadline <= items[r].deadline

\* An overdue item is eventually dealt with, unless an overdue item that cannot
\* be escalated stands before it: what the sweep does guarantee.
EscalatedUnlessBlocked ==
  \A r \in Ref : Escalatable(r) ~> (~Escalatable(r) \/ Blocked(r))

\* Every overdue item is eventually dealt with: the scheduler is there for
\* "overdue escalation" (README.md:23).
OverdueEscalated == \A r \in Ref : Escalatable(r) ~> ~Escalatable(r)

=============================================================================

---------------------------- MODULE HandlingChain ----------------------------
(***************************************************************************)
(* What becomes of a suggestion once it is taken in: advisors review it,   *)
(* departments plan its handling, and a finished one is converted into an  *)
(* outcome (internal/service/civic_service.go:176-488,                     *)
(* internal/domain/civic_workflow.go, migrations/0003_civic_workflow.sql). *)
(*                                                                         *)
(* As in CollectionCampaign, a request reads, checks and then writes in    *)
(* one transaction.  Reviews, plans and conversions are updated under the  *)
(* version that was read; what a request has read of OTHER rows is not     *)
(* tested again.  The advisors are those of one campaign; a review is      *)
(* known by its suggestion and advisor, a plan by its suggestion and key.  *)
(*                                                                         *)
(* The suggestions and the campaign are changed by SuggestionRouting and   *)
(* CollectionCampaign; only what is read of them here is kept.             *)
(***************************************************************************)
EXTENDS Naturals, FiniteSets

CONSTANTS
  Suggestion,   \* suggestions, all of them registered
  Advisor,      \* users that may be enrolled as advisors
  Panel,        \* review panels
  Key,          \* idempotency keys of plans
  Handler,      \* threads that serve requests
  ReviewQuota,  \* pending reviews an advisor takes
  MaxVersion    \* bound: how often a conversion is verified again

ASSUME ConstantsAssumption ==
  /\ ReviewQuota \in Nat \ {0}
  /\ MaxVersion \in Nat \ {0}

VARIABLES
  campaign,     \* status of the campaign
  items,        \* status of each suggestion
  advisors,     \* table invited_advisors: those enrolled
  reviews,      \* table professional_reviews
  plans,        \* table handling_plans
  conversions,  \* table conversion_outcomes
  session       \* what each thread is about to check or write

tables == <<campaign, items, advisors, reviews, plans, conversions>>

vars == <<tables, session>>

CampaignStages == [draft |-> {"open"}, open |-> {"review"},
                   review |-> {"closed"}, closed |-> {}]

\* "open" stands for registered, processing, escalated and returned.
ItemStatus == {"open", "completed", "cancelled"}

Terminal == {"completed", "cancelled"}

Verdict == {"accepted", "revise", "rejected"}

Review == [verdict: Verdict \cup {"pending"}, panel: Panel, version: Nat]

PlanSuccessor ==
  [proposed |-> {"accepted", "cancelled"},
   accepted |-> {"implementing", "cancelled"},
   implementing |-> {"completed", "cancelled"},
   completed |-> {}, cancelled |-> {}]

Plan == [review: Advisor, status: DOMAIN PlanSuccessor, version: Nat]

Conversion ==
  [plan: Key, status: {"proposed", "verified", "published"}, version: Nat]

Absent == [version |-> 0]

Idle == [pc |-> "idle"]

Session ==
  {Idle}
    \cup [pc: {"insert_advisor"}, a: Advisor]
    \cup [pc: {"check_advisor", "insert_review"},
          s: Suggestion, a: Advisor, row: Review]
    \cup [pc: {"update_review"}, s: Suggestion, a: Advisor, row: Review]
    \cup [pc: {"insert_plan", "update_plan"}, s: Suggestion, k: Key, row: Plan]
    \cup [pc: {"check_plans", "insert_conversion", "update_conversion"},
          s: Suggestion, row: Conversion]

Pc(t, pc) == session[t].pc = pc

Continue(t, s) == session' = [session EXCEPT ![t] = s]

\* A request has made its first read.
Reads(t, s) == Pc(t, "idle") /\ Continue(t, s) /\ UNCHANGED tables

\* A request has read on.
ReadsOn(t, from, to) ==
  /\ Pc(t, from)
  /\ Continue(t, [session[t] EXCEPT !.pc = to])
  /\ UNCHANGED tables

\* A request ends with its transaction.
Ends(t, pc) == Pc(t, pc) /\ Continue(t, Idle)

\* A mutation of Current: WHERE id=? alone.
AnyVersion(stored, row) == TRUE

\* The WHERE clause of the updates: the version is the one that was read.
Current(stored, row) == stored.version + 1 = row.version

Pending(a) == {s \in Suggestion : reviews[s][a] # Absent
                                    /\ reviews[s][a].verdict = "pending"}

PlansOf(s) == {k \in Key : plans[s][k] # Absent}

AllCompleted(s) == \A k \in PlansOf(s) : plans[s][k].status = "completed"

-----------------------------------------------------------------------------
Init ==
  /\ campaign = "draft"
  /\ items = [s \in Suggestion |-> "open"]
  /\ advisors = {}
  /\ reviews = [s \in Suggestion |-> [a \in Advisor |-> Absent]]
  /\ plans = [s \in Suggestion |-> [k \in Key |-> Absent]]
  /\ conversions = [s \in Suggestion |-> Absent]
  /\ session = [t \in Handler |-> Idle]

\* TransitionCampaign, as a request of its own.
AdvanceCampaign(t) ==
  /\ Pc(t, "idle")
  /\ campaign' \in CampaignStages[campaign]
  /\ UNCHANGED <<items, advisors, reviews, plans, conversions, session>>

\* A request about the suggestion itself; one that read the suggestion earlier
\* may overwrite a final status, for UpdateItem compares no version.
UpdateItem(t, s, status) ==
  /\ Pc(t, "idle")
  /\ items' = [items EXCEPT ![s] = status]
  /\ UNCHANGED <<campaign, advisors, reviews, plans, conversions, session>>

\* EnrollAdvisor: campaign and user are UNIQUE.
EnrollAdvisor(t, a) ==
  /\ campaign # "closed"
  /\ Reads(t, [pc |-> "insert_advisor", a |-> a])

InsertAdvisor(t) ==
  /\ Ends(t, "insert_advisor")
  /\ advisors' = advisors \cup {session[t].a}
  /\ UNCHANGED <<campaign, items, reviews, plans, conversions>>

\* AssignReview reads the suggestion, then the advisor and the campaign.
AssignReview(t, s, a, p) ==
  /\ items[s] \notin Terminal
  /\ Reads(t, [pc |-> "check_advisor", s |-> s, a |-> a,
               row |-> [verdict |-> "pending", panel |-> p, version |-> 1]])

CheckAdvisor(t) ==
  /\ ReadsOn(t, "check_advisor", "insert_review")
  /\ session[t].a \in advisors
  /\ campaign \in {"open", "review"}
  /\ Cardinality(Pending(session[t].a)) < ReviewQuota

\* A mutation of WithinQuota: there is no trigger.
NoTrigger(a) == TRUE

\* The trigger trg_advisor_review_quota.
WithinQuota(a) == Cardinality(Pending(a)) < ReviewQuota

\* UNIQUE(suggestion_id, advisor_id) and UNIQUE(panel_key, advisor_id).
NewReview(s, a, p) ==
  /\ reviews[s][a] = Absent
  /\ ~ \E x \in Suggestion : reviews[x][a] # Absent /\ reviews[x][a].panel = p

InsertReview(t) ==
  LET i == session[t] IN
  /\ Ends(t, "insert_review")
  /\ reviews' = IF NewReview(i.s, i.a, i.row.panel) /\ WithinQuota(i.a)
                THEN [reviews EXCEPT ![i.s][i.a] = i.row] ELSE reviews
  /\ UNCHANGED <<campaign, items, advisors, plans, conversions>>

\* Only a pending review is decided.
DecideReview(t, s, a, verdict) ==
  /\ s \in Pending(a)
  /\ Reads(t, [pc |-> "update_review", s |-> s, a |-> a,
               row |-> [reviews[s][a] EXCEPT !.verdict = verdict,
                                             !.version = @ + 1]])

UpdateReview(t) ==
  LET i == session[t] IN
  /\ Ends(t, "update_review")
  /\ reviews' = IF Current(reviews[i.s][i.a], i.row)
                THEN [reviews EXCEPT ![i.s][i.a] = i.row] ELSE reviews
  /\ UNCHANGED <<campaign, items, advisors, plans, conversions>>

\* CreateHandlingPlan: a key that is known is answered with its plan; the plan
\* rests on an accepted review of its suggestion.
CreateHandlingPlan(t, s, k, a) ==
  /\ plans[s][k] = Absent
  /\ reviews[s][a] # Absent /\ reviews[s][a].verdict = "accepted"
  /\ Reads(t, [pc |-> "insert_plan", s |-> s, k |-> k,
               row |-> [review |-> a, status |-> "proposed", version |-> 1]])

InsertHandlingPlan(t) ==
  LET i == session[t] IN
  /\ Ends(t, "insert_plan")
  /\ plans' = IF plans[i.s][i.k] = Absent
              THEN [plans EXCEPT ![i.s][i.k] = i.row] ELSE plans
  /\ UNCHANGED <<campaign, items, advisors, reviews, conversions>>

TransitionHandlingPlan(t, s, k, to) ==
  /\ plans[s][k] # Absent
  /\ to \in PlanSuccessor[plans[s][k].status]
  /\ Reads(t, [pc |-> "update_plan", s |-> s, k |-> k,
               row |-> [plans[s][k] EXCEPT !.status = to, !.version = @ + 1]])

UpdateHandlingPlan(t) ==
  LET i == session[t] IN
  /\ Ends(t, "update_plan")
  /\ plans' = IF Current(plans[i.s][i.k], i.row)
              THEN [plans EXCEPT ![i.s][i.k] = i.row] ELSE plans
  /\ UNCHANGED <<campaign, items, advisors, reviews, conversions>>

\* ProposeConversion reads the suggestion, then its plans.
ProposeConversion(t, s, k) ==
  /\ conversions[s] = Absent
  /\ items[s] = "completed"
  /\ Reads(t, [pc |-> "check_plans", s |-> s,
               row |-> [plan |-> k, status |-> "proposed", version |-> 1]])

\* The suggestion has plans, all completed, and the one that is named is among
\* them.
CheckPlans(t) ==
  /\ ReadsOn(t, "check_plans", "insert_conversion")
  /\ AllCompleted(session[t].s)
  /\ session[t].row.plan \in PlansOf(session[t].s)

InsertConversion(t) ==
  LET i == session[t] IN
  /\ Ends(t, "insert_conversion")
  /\ conversions' = IF conversions[i.s] = Absent
                    THEN [conversions EXCEPT ![i.s] = i.row] ELSE conversions
  /\ UNCHANGED <<campaign, items, advisors, reviews, plans>>

\* VerifyConversion: a proposed or verified one is verified, or published.
VerifyConversion(t, s, publish) ==
  /\ conversions[s] # Absent
  /\ conversions[s].status \in {"proposed", "verified"}
  /\ conversions[s].version < MaxVersion
  /\ Reads(t, [pc |-> "update_conversion", s |-> s,
               row |-> [conversions[s] EXCEPT
                          !.status = IF publish THEN "published"
                                                ELSE "verified",
                          !.version = @ + 1]])

UpdateConversion(t) ==
  LET i == session[t] IN
  /\ Ends(t, "update_conversion")
  /\ conversions' = IF Current(conversions[i.s], i.row)
                    THEN [conversions EXCEPT ![i.s] = i.row] ELSE conversions
  /\ UNCHANGED <<campaign, items, advisors, reviews, plans>>

\* A check fails, the client is gone or the process dies: nothing is written.
Abandon(t) == ~Pc(t, "idle") /\ Continue(t, Idle) /\ UNCHANGED tables

-----------------------------------------------------------------------------
Request(t) ==
  \/ AdvanceCampaign(t)
  \/ \E a \in Advisor : EnrollAdvisor(t, a)
  \/ \E s \in Suggestion :
       \/ \E status \in ItemStatus : UpdateItem(t, s, status)
       \/ \E a \in Advisor, p \in Panel : AssignReview(t, s, a, p)
       \/ \E a \in Advisor, v \in Verdict : DecideReview(t, s, a, v)
       \/ \E k \in Key, a \in Advisor : CreateHandlingPlan(t, s, k, a)
       \/ \E k \in Key, to \in DOMAIN PlanSuccessor :
            TransitionHandlingPlan(t, s, k, to)
       \/ \E k \in Key : ProposeConversion(t, s, k)
       \/ \E publish \in BOOLEAN : VerifyConversion(t, s, publish)

Transaction(t) ==
  \/ InsertAdvisor(t)
  \/ CheckAdvisor(t) \/ InsertReview(t) \/ UpdateReview(t)
  \/ InsertHandlingPlan(t) \/ UpdateHandlingPlan(t)
  \/ CheckPlans(t) \/ InsertConversion(t) \/ UpdateConversion(t)

Next == \E t \in Handler : Request(t) \/ Transaction(t) \/ Abandon(t)

Spec == Init /\ [][Next]_vars

(***************************************************************************)
(* Safety, however the requests interleave                                 *)
(***************************************************************************)
\* The tables and the sessions hold what their columns and locals can hold.
TypeOK ==
  /\ campaign \in DOMAIN CampaignStages
  /\ items \in [Suggestion -> ItemStatus]
  /\ advisors \subseteq Advisor
  /\ reviews \in [Suggestion -> [Advisor -> Review \cup {Absent}]]
  /\ plans \in [Suggestion -> [Key -> Plan \cup {Absent}]]
  /\ conversions \in [Suggestion -> Conversion \cup {Absent}]
  /\ session \in [Handler -> Session]

\* No advisor has more pending reviews than the quota, however many requests
\* counted them before the first one committed (trg_advisor_review_quota).
PendingWithinQuota == \A a \in Advisor : Cardinality(Pending(a)) <= ReviewQuota

\* A plan rests on an accepted review of its own suggestion, though the review
\* is read before the plan is written and may be decided by several requests.
PlansJustified ==
  \A s \in Suggestion : \A k \in PlansOf(s) :
    LET a == plans[s][k].review IN
    /\ a \in advisors
    /\ reviews[s][a] # Absent
    /\ reviews[s][a].verdict = "accepted"

\* A conversion rests on a completed plan of its suggestion, though the plans
\* are read before it is written and others move them on.
ConversionsJustified ==
  \A s \in Suggestion :
    conversions[s] # Absent =>
      /\ conversions[s].plan \in PlansOf(s)
      /\ plans[s][conversions[s].plan].status = "completed"

\* What a session may rely on.
SessionSound(i) ==
  /\ i.pc \in {"insert_review", "update_review"} => i.a \in advisors
  /\ i.pc = "update_review" =>
       /\ i.row.version <= reviews[i.s][i.a].version + 1
       /\ i.row.version = reviews[i.s][i.a].version + 1 => i.s \in Pending(i.a)
  /\ i.pc = "insert_plan" =>
       /\ i.row.review \in advisors
       /\ reviews[i.s][i.row.review] # Absent
       /\ reviews[i.s][i.row.review].verdict = "accepted"
  /\ i.pc = "update_plan" =>
       /\ plans[i.s][i.k] # Absent
       /\ i.row.review = plans[i.s][i.k].review
       /\ i.row.version <= plans[i.s][i.k].version + 1
       /\ i.row.version = plans[i.s][i.k].version + 1 =>
            i.row.status \in PlanSuccessor[plans[i.s][i.k].status]
  /\ i.pc = "insert_conversion" =>
       /\ i.row.plan \in PlansOf(i.s)
       /\ plans[i.s][i.row.plan].status = "completed"
  /\ i.pc = "update_conversion" =>
       /\ conversions[i.s] # Absent
       /\ i.row.plan = conversions[i.s].plan
       /\ i.row.version <= conversions[i.s].version + 1
       /\ i.row.version = conversions[i.s].version + 1 =>
            conversions[i.s].status # "published"

ReviewedByAdvisors ==
  \A s \in Suggestion, a \in Advisor : reviews[s][a] # Absent => a \in advisors

\* The inductive invariant.
ChainInv ==
  /\ TypeOK
  /\ \A a \in Advisor : IsFiniteSet(Pending(a))
  /\ PendingWithinQuota
  /\ ReviewedByAdvisors
  /\ PlansJustified
  /\ ConversionsJustified
  /\ \A t \in Handler : SessionSound(session[t])

\* A decision stands: a decided review, a finished plan and a published outcome
\* never change again, and a plan only ever takes its next step, however many
\* requests read the same version.
DecisionsFinal ==
  [][\A s \in Suggestion :
       /\ \A a \in Advisor : reviews[s][a] # Absent /\ s \notin Pending(a)
                               => reviews'[s][a] = reviews[s][a]
       /\ \A k \in PlansOf(s) :
            plans'[s][k] # plans[s][k]
              => plans'[s][k].status \in PlanSuccessor[plans[s][k].status]
       /\ conversions[s] # Absent /\ conversions[s].status = "published"
            => conversions'[s] = conversions[s]]_vars

(***************************************************************************)
(* A property that holds when requests do not overlap                      *)
(***************************************************************************)
\* When it is committed, a review is of a suggestion that is not finished, in a
\* campaign that accepts reviews; a conversion is of a completed suggestion all
\* of whose plans are completed: "terminal suggestion cannot enter review"
\* (civic_service.go:277), "all handling plans must be completed"
\* (civic_service.go:437).
AcceptedWhenCommitted ==
  [][\A s \in Suggestion :
       /\ \A a \in Advisor :
            reviews[s][a] = Absent /\ reviews'[s][a] # Absent =>
              items[s] \notin Terminal /\ campaign \in {"open", "review"}
       /\ conversions[s] = Absent /\ conversions'[s] # Absent =>
            items[s] = "completed" /\ AllCompleted(s)]_vars

=============================================================================

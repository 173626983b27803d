------------------------- MODULE HandlingChainProofs -------------------------
(***************************************************************************)
(* The invariants of HandlingChain: what rests on a decision may be        *)
(* written long after the decision was read, and holds all the same,       *)
(* because a decision is never taken back.                                 *)
(***************************************************************************)
EXTENDS HandlingChain, FiniteSetTheorems, TLAPS

LEMMA SessionKinds ==
  ASSUME NEW i \in Session
  PROVE  /\ i.pc = "insert_advisor" => i.a \in Advisor
         /\ i.pc \in {"check_advisor", "insert_review", "update_review"} =>
              i.s \in Suggestion /\ i.a \in Advisor /\ i.row \in Review
         /\ i.pc \in {"insert_plan", "update_plan"} =>
              i.s \in Suggestion /\ i.k \in Key /\ i.row \in Plan
         /\ i.pc \in {"check_plans", "insert_conversion",
                      "update_conversion"} =>
              i.s \in Suggestion /\ i.row \in Conversion
         /\ i.pc \in {"idle", "insert_advisor", "check_advisor",
                      "insert_review", "update_review", "insert_plan",
                      "update_plan", "check_plans", "insert_conversion",
                      "update_conversion"}
BY DEF Session, Idle

LEMMA ReviewKinds ==
  ASSUME NEW row \in Review \cup {Absent}
  PROVE  row.version \in Nat
BY DEF Review, Absent

LEMMA PlanKinds ==
  ASSUME NEW row \in Plan \cup {Absent}
  PROVE  /\ row.version \in Nat
         /\ row # Absent => row \in Plan
         /\ row.version # 0 => row # Absent
         /\ row \in Plan => /\ row.review \in Advisor
                            /\ row.status \in DOMAIN PlanSuccessor
BY DEF Plan, Absent

LEMMA ConversionKinds ==
  ASSUME NEW row \in Conversion \cup {Absent}
  PROVE  /\ row.version \in Nat
         /\ row # Absent => row \in Conversion
         /\ row.version # 0 => row # Absent
         /\ row \in Conversion => row.plan \in Key
BY DEF Conversion, Absent

LEMMA ReviewFields ==
  ASSUME NEW row \in Review, NEW verdict \in Verdict
  PROVE  /\ [row EXCEPT !.verdict = verdict, !.version = @ + 1] \in Review
         /\ [row EXCEPT !.verdict = verdict, !.version = @ + 1].version
              = row.version + 1
<1>. DEFINE r1 == [row EXCEPT !.verdict = verdict]
            r2 == [r1 EXCEPT !.version = row.version + 1]
<1>1. [row EXCEPT !.verdict = verdict, !.version = @ + 1] = r2
  BY DEF Review
<1>2. r1 \in Review /\ r1.verdict = verdict /\ r1.version = row.version
      /\ row.version \in Nat
  BY DEF Review
<1>. HIDE DEF r1
<1>3. r2 \in Review /\ r2.verdict = verdict /\ r2.version = row.version + 1
  BY <1>2 DEF Review
<1>. HIDE DEF r2
<1>. QED
  BY <1>1, <1>2, <1>3

LEMMA PlanFields ==
  ASSUME NEW row \in Plan, NEW to \in DOMAIN PlanSuccessor
  PROVE  /\ [row EXCEPT !.status = to, !.version = @ + 1] \in Plan
         /\ [row EXCEPT !.status = to, !.version = @ + 1].review
              = row.review
         /\ [row EXCEPT !.status = to, !.version = @ + 1].status = to
         /\ [row EXCEPT !.status = to, !.version = @ + 1].version
              = row.version + 1
<1>. DEFINE r1 == [row EXCEPT !.status = to]
            r2 == [r1 EXCEPT !.version = row.version + 1]
<1>1. [row EXCEPT !.status = to, !.version = @ + 1] = r2
  BY DEF Plan
<1>2. r1 \in Plan /\ r1.status = to /\ r1.version = row.version
      /\ row.version \in Nat /\ r1.review = row.review
  BY DEF Plan
<1>. HIDE DEF r1
<1>3. r2 \in Plan /\ r2.status = to /\ r2.version = row.version + 1
      /\ r2.review = r1.review
  BY <1>2 DEF Plan
<1>. HIDE DEF r2
<1>. QED
  BY <1>1, <1>2, <1>3

LEMMA ConversionFields ==
  ASSUME NEW row \in Conversion, NEW to \in {"verified", "published"}
  PROVE  /\ [row EXCEPT !.status = to, !.version = @ + 1] \in Conversion
         /\ [row EXCEPT !.status = to, !.version = @ + 1].plan
              = row.plan
         /\ [row EXCEPT !.status = to, !.version = @ + 1].version
              = row.version + 1
<1>. DEFINE r1 == [row EXCEPT !.status = to]
            r2 == [r1 EXCEPT !.version = row.version + 1]
<1>1. [row EXCEPT !.status = to, !.version = @ + 1] = r2
  BY DEF Conversion
<1>2. r1 \in Conversion /\ r1.status = to /\ r1.version = row.version
      /\ row.version \in Nat /\ r1.plan = row.plan
  BY DEF Conversion
<1>. HIDE DEF r1
<1>3. r2 \in Conversion /\ r2.status = to /\ r2.version = row.version + 1
      /\ r2.plan = r1.plan
  BY <1>2 DEF Conversion
<1>. HIDE DEF r2
<1>. QED
  BY <1>1, <1>2, <1>3

LEMMA PlanStatuses ==
  /\ PlanSuccessor["completed"] = {}
  /\ {"proposed", "completed"} \subseteq DOMAIN PlanSuccessor
  /\ \A status \in DOMAIN PlanSuccessor :
       PlanSuccessor[status] \subseteq DOMAIN PlanSuccessor
BY DEF PlanSuccessor

-----------------------------------------------------------------------------
\* What a plan and a conversion rest on.
Approved(s, a) ==
  /\ a \in advisors
  /\ reviews[s][a] # Absent
  /\ reviews[s][a].verdict = "accepted"

Done(s, k) == k \in PlansOf(s) /\ plans[s][k].status = "completed"

\* What a transaction may do to the tables.
ReviewMoves(s, a) ==
  \/ reviews'[s][a] = reviews[s][a]
  \/ reviews[s][a] = Absent /\ a \in advisors
  \/ /\ s \in Pending(a) /\ a \in advisors
     /\ reviews'[s][a].version = reviews[s][a].version + 1

PlanMoves(s, k) ==
  \/ plans'[s][k] = plans[s][k]
  \/ plans[s][k] = Absent /\ Approved(s, plans'[s][k].review)
  \/ /\ plans[s][k] # Absent
     /\ plans'[s][k].review = plans[s][k].review
     /\ plans'[s][k].version = plans[s][k].version + 1
     /\ plans'[s][k].status \in PlanSuccessor[plans[s][k].status]

ConversionMoves(s) ==
  \/ conversions'[s] = conversions[s]
  \/ conversions[s] = Absent /\ Done(s, conversions'[s].plan)
  \/ /\ conversions[s] # Absent /\ conversions[s].status # "published"
     /\ conversions'[s].plan = conversions[s].plan
     /\ conversions'[s].version = conversions[s].version + 1

TablesTyped ==
  /\ campaign \in DOMAIN CampaignStages
  /\ items \in [Suggestion -> ItemStatus]
  /\ advisors \subseteq Advisor
  /\ reviews \in [Suggestion -> [Advisor -> Review \cup {Absent}]]
  /\ plans \in [Suggestion -> [Key -> Plan \cup {Absent}]]
  /\ conversions \in [Suggestion -> Conversion \cup {Absent}]

TablesGrow ==
  /\ TablesTyped /\ TablesTyped'
  /\ advisors \subseteq advisors'
  /\ \A s \in Suggestion, a \in Advisor : ReviewMoves(s, a)
  /\ \A s \in Suggestion, k \in Key : PlanMoves(s, k)
  /\ \A s \in Suggestion : ConversionMoves(s)

\* An approval and a completed plan are never lost.
LEMMA ApprovalLasts ==
  ASSUME TablesGrow, NEW s \in Suggestion, NEW a \in Advisor, Approved(s, a)
  PROVE  Approved(s, a)'
<1>1. ReviewMoves(s, a) /\ advisors \subseteq advisors'
  BY DEF TablesGrow
<1>. QED
  BY <1>1 DEF ReviewMoves, Approved, Pending

LEMMA DoneLasts ==
  ASSUME TablesGrow, NEW s \in Suggestion, NEW k \in Key, Done(s, k)
  PROVE  Done(s, k)'
<1>1. PlanMoves(s, k)
  BY DEF TablesGrow
<1>. QED
  BY <1>1, PlanStatuses DEF PlanMoves, Done, PlansOf

\* A plan that exists goes on existing, with the review it rests on.
LEMMA PlanLasts ==
  ASSUME TablesGrow, NEW s \in Suggestion, NEW k \in Key, plans[s][k] # Absent
  PROVE  /\ plans'[s][k] # Absent
         /\ plans'[s][k].review = plans[s][k].review
         /\ \/ plans'[s][k] = plans[s][k]
            \/ plans'[s][k].version = plans[s][k].version + 1
         /\ plans[s][k].version \in Nat
<1>1. /\ PlanMoves(s, k)
      /\ plans[s][k] \in Plan \cup {Absent}
      /\ plans'[s][k] \in Plan \cup {Absent}
  BY DEF TablesGrow, TablesTyped
<1>2. plans[s][k].version \in Nat
  BY <1>1, PlanKinds
<1>3. plans'[s][k].version = plans[s][k].version + 1 => plans'[s][k] # Absent
  BY <1>1, <1>2, PlanKinds
<1>. QED
  BY <1>1, <1>2, <1>3 DEF PlanMoves

LEMMA ConversionLasts ==
  ASSUME TablesGrow, NEW s \in Suggestion, conversions[s] # Absent
  PROVE  /\ conversions'[s] # Absent
         /\ conversions'[s].plan = conversions[s].plan
         /\ \/ conversions'[s] = conversions[s]
            \/ conversions'[s].version = conversions[s].version + 1
         /\ conversions[s].version \in Nat
<1>1. /\ ConversionMoves(s)
      /\ conversions[s] \in Conversion \cup {Absent}
      /\ conversions'[s] \in Conversion \cup {Absent}
  BY DEF TablesGrow, TablesTyped
<1>2. conversions[s].version \in Nat
  BY <1>1, ConversionKinds
<1>3. conversions'[s].version = conversions[s].version + 1 =>
        conversions'[s] # Absent
  BY <1>1, <1>2, ConversionKinds
<1>. QED
  BY <1>1, <1>2, <1>3 DEF ConversionMoves

\* What a session relies on is not lost when the tables grow.
LEMMA SoundKept ==
  ASSUME TablesGrow, NEW i \in Session, SessionSound(i)
  PROVE  SessionSound(i)'
<1>1. CASE i.pc \in {"idle", "insert_advisor", "check_advisor", "check_plans"}
  BY <1>1 DEF SessionSound
<1>2. CASE i.pc = "insert_review"
  BY <1>2 DEF SessionSound, TablesGrow
<1>3. CASE i.pc = "update_review"
  <2>1. PICK s \in Suggestion, a \in Advisor, row \in Review :
          s = i.s /\ a = i.a /\ row = i.row
    BY <1>3, SessionKinds
  <2>2. /\ a \in advisors
        /\ row.version <= reviews[s][a].version + 1
        /\ row.version = reviews[s][a].version + 1 => s \in Pending(a)
    BY <1>3, <2>1 DEF SessionSound
  <2>3. /\ ReviewMoves(s, a) /\ advisors \subseteq advisors'
        /\ reviews[s][a] \in Review \cup {Absent}
        /\ reviews'[s][a] \in Review \cup {Absent}
    BY DEF TablesGrow, TablesTyped
  <2>4. /\ row.version \in Nat
        /\ reviews[s][a].version \in Nat
        /\ reviews'[s][a].version \in Nat
    BY <2>3, ReviewKinds
  <2>5. /\ row.version <= reviews'[s][a].version + 1
        /\ row.version = reviews'[s][a].version + 1 => s \in Pending(a)'
    <3>1. CASE reviews'[s][a] = reviews[s][a]
      BY <2>2, <3>1 DEF Pending
    <3>2. CASE reviews[s][a] = Absent
      <4>1. s \notin Pending(a) /\ reviews[s][a].version = 0
        BY <3>2 DEF Pending, Absent
      <4>2. row.version = 0
        BY <2>2, <2>4, <4>1
      <4>. QED
        BY <2>4, <4>2
    <3>3. CASE reviews'[s][a].version = reviews[s][a].version + 1
      BY <2>2, <2>4, <3>3
    <3>. QED
      BY <2>3, <3>1, <3>2, <3>3 DEF ReviewMoves
  <2>. QED
    BY <1>3, <2>1, <2>2, <2>3, <2>5 DEF SessionSound
<1>4. CASE i.pc = "insert_plan"
  <2>1. PICK s \in Suggestion, row \in Plan : s = i.s /\ row = i.row
    BY <1>4, SessionKinds
  <2>2. row.review \in Advisor /\ Approved(s, row.review)
    BY <1>4, <2>1, PlanKinds DEF SessionSound, Approved
  <2>3. Approved(s, row.review)'
    BY <2>2, ApprovalLasts
  <2>. QED
    BY <1>4, <2>1, <2>3 DEF SessionSound, Approved
<1>5. CASE i.pc = "update_plan"
  <2>1. PICK s \in Suggestion, k \in Key, row \in Plan :
          s = i.s /\ k = i.k /\ row = i.row
    BY <1>5, SessionKinds
  <2>2. /\ plans[s][k] # Absent
        /\ row.review = plans[s][k].review
        /\ row.version <= plans[s][k].version + 1
        /\ row.version = plans[s][k].version + 1 =>
             row.status \in PlanSuccessor[plans[s][k].status]
    BY <1>5, <2>1 DEF SessionSound
  <2>3. row.version \in Nat
    BY PlanKinds
  <2>4. /\ plans'[s][k] # Absent
        /\ row.review = plans'[s][k].review
        /\ row.version <= plans'[s][k].version + 1
        /\ row.version = plans'[s][k].version + 1 =>
             row.status \in PlanSuccessor[plans'[s][k].status]
    BY <2>2, <2>3, PlanLasts
  <2>. QED
    BY <1>5, <2>1, <2>4 DEF SessionSound
<1>6. CASE i.pc = "insert_conversion"
  <2>1. PICK s \in Suggestion, row \in Conversion : s = i.s /\ row = i.row
    BY <1>6, SessionKinds
  <2>2. row.plan \in Key /\ Done(s, row.plan)
    BY <1>6, <2>1, ConversionKinds DEF SessionSound, Done
  <2>3. Done(s, row.plan)'
    BY <2>2, DoneLasts
  <2>. QED
    BY <1>6, <2>1, <2>3 DEF SessionSound, Done
<1>7. CASE i.pc = "update_conversion"
  <2>1. PICK s \in Suggestion, row \in Conversion : s = i.s /\ row = i.row
    BY <1>7, SessionKinds
  <2>2. /\ conversions[s] # Absent
        /\ row.plan = conversions[s].plan
        /\ row.version <= conversions[s].version + 1
        /\ row.version = conversions[s].version + 1 =>
             conversions[s].status # "published"
    BY <1>7, <2>1 DEF SessionSound
  <2>3. row.version \in Nat
    BY ConversionKinds
  <2>4. /\ conversions'[s] # Absent
        /\ row.plan = conversions'[s].plan
        /\ row.version <= conversions'[s].version + 1
        /\ row.version = conversions'[s].version + 1 =>
             conversions'[s].status # "published"
    BY <2>2, <2>3, ConversionLasts
  <2>. QED
    BY <1>7, <2>1, <2>4 DEF SessionSound
<1>. QED
  BY <1>1, <1>2, <1>3, <1>4, <1>5, <1>6, <1>7, SessionKinds

\* What the tables rest on is not lost either.
LEMMA ReviewersKept ==
  ASSUME TablesGrow, ReviewedByAdvisors
  PROVE  ReviewedByAdvisors'
<1>1. ASSUME NEW s \in Suggestion, NEW a \in Advisor, reviews'[s][a] # Absent
      PROVE  a \in advisors'
  <2>1. ReviewMoves(s, a) /\ advisors \subseteq advisors'
    BY DEF TablesGrow
  <2>. QED
    BY <1>1, <2>1 DEF ReviewMoves, ReviewedByAdvisors
<1>. QED
  BY <1>1 DEF ReviewedByAdvisors

LEMMA PlansKept ==
  ASSUME TablesGrow, PlansJustified
  PROVE  PlansJustified'
<1>1. ASSUME NEW s \in Suggestion, NEW k \in Key, plans'[s][k] # Absent
      PROVE  Approved(s, plans[s][k].review)'
  <2>1. PlanMoves(s, k) /\ plans'[s][k] \in Plan \cup {Absent}
    BY DEF TablesGrow, TablesTyped
  <2>2. PICK a \in Advisor : a = plans'[s][k].review
    BY <1>1, <2>1, PlanKinds
  <2>3. Approved(s, a)
    <3>1. CASE plans[s][k] = Absent
      BY <1>1, <2>1, <2>2, <3>1 DEF PlanMoves
    <3>2. CASE plans[s][k] # Absent
      <4>1. plans[s][k].review = a
        BY <2>2, <3>2, PlanLasts
      <4>. QED
        BY <3>2, <4>1 DEF PlansJustified, PlansOf, Approved
    <3>. QED
      BY <3>1, <3>2
  <2>4. Approved(s, a)'
    BY <2>3, ApprovalLasts
  <2>. QED
    BY <2>2, <2>4
<1>. QED
  BY <1>1 DEF PlansJustified, PlansOf, Approved

LEMMA ConversionsKept ==
  ASSUME TablesGrow, ConversionsJustified
  PROVE  ConversionsJustified'
<1>1. ASSUME NEW s \in Suggestion, conversions'[s] # Absent
      PROVE  Done(s, conversions[s].plan)'
  <2>1. ConversionMoves(s) /\ conversions'[s] \in Conversion \cup {Absent}
    BY DEF TablesGrow, TablesTyped
  <2>2. PICK k \in Key : k = conversions'[s].plan
    BY <1>1, <2>1, ConversionKinds
  <2>3. Done(s, k)
    <3>1. CASE conversions[s] = Absent
      BY <1>1, <2>1, <2>2, <3>1 DEF ConversionMoves
    <3>2. CASE conversions[s] # Absent
      <4>1. conversions[s].plan = k
        BY <2>2, <3>2, ConversionLasts
      <4>. QED
        BY <3>2, <4>1 DEF ConversionsJustified, Done
    <3>. QED
      BY <3>1, <3>2
  <2>4. Done(s, k)'
    BY <2>3, DoneLasts
  <2>. QED
    BY <2>2, <2>4
<1>. QED
  BY <1>1 DEF ConversionsJustified, Done

-----------------------------------------------------------------------------
LEMMA TypeParts ==
  TypeOK <=> TablesTyped /\ session \in [Handler -> Session]
BY DEF TypeOK, TablesTyped

LEMMA ChainInit == Init => ChainInv
<1>. SUFFICES ASSUME Init PROVE ChainInv
  OBVIOUS
<1>1. TypeOK
  BY DEF Init, TypeOK, CampaignStages, ItemStatus, Session
<1>2. /\ \A s \in Suggestion : conversions[s] = Absent
      /\ \A s \in Suggestion, a \in Advisor : reviews[s][a] = Absent
      /\ \A s \in Suggestion : PlansOf(s) = {}
      /\ \A a \in Advisor : Pending(a) = {}
  BY DEF Init, PlansOf, Pending
<1>3. PendingWithinQuota /\ \A a \in Advisor : IsFiniteSet(Pending(a))
  BY <1>2, FS_EmptySet, ConstantsAssumption
     DEF PendingWithinQuota, ConstantsAssumption
<1>4. \A t \in Handler : SessionSound(session[t])
  BY DEF Init, Idle, SessionSound
<1>. QED
  BY <1>1, <1>2, <1>3, <1>4
     DEF ChainInv, ReviewedByAdvisors, PlansJustified, ConversionsJustified

\* A thread goes on while the tables grow and every quota is kept.
LEMMA Advance ==
  ASSUME ChainInv, TablesGrow, PendingWithinQuota',
         \A a \in Advisor : IsFiniteSet(Pending(a)'),
         NEW t \in Handler, NEW i \in Session, Continue(t, i),
         SessionSound(i)'
  PROVE  ChainInv'
<1>1. session \in [Handler -> Session]
  BY DEF ChainInv, TypeOK
<1>2. session' \in [Handler -> Session] /\ session'[t] = i
      /\ \A u \in Handler \ {t} : session'[u] = session[u]
  BY <1>1 DEF Continue
<1>3. TypeOK'
  BY <1>2, TypeParts DEF TypeOK, TablesTyped, TablesGrow
<1>4. \A u \in Handler : SessionSound(session[u])'
  <2>1. ASSUME NEW u \in Handler, u # t PROVE SessionSound(session[u])'
    <3>1. PICK x \in Session : x = session[u]
      BY <1>1
    <3>2. SessionSound(x)
      BY <3>1 DEF ChainInv
    <3>3. SessionSound(x)'
      BY <3>2, SoundKept
    <3>. QED
      BY <1>2, <2>1, <3>1, <3>3
  <2>2. SessionSound(session[t])'
    BY <1>2
  <2>. QED
    BY <2>1, <2>2
<1>5. ReviewedByAdvisors' /\ PlansJustified' /\ ConversionsJustified'
  BY ReviewersKept, PlansKept, ConversionsKept DEF ChainInv
<1>. QED
  BY <1>3, <1>4, <1>5 DEF ChainInv

\* A step that only moves a session on, or what the environment owns.
LEMMA QuietStep ==
  ASSUME ChainInv, NEW t \in Handler, NEW i \in Session, Continue(t, i),
         UNCHANGED <<reviews, plans, conversions>>, TablesTyped',
         advisors \subseteq advisors', SessionSound(i)
  PROVE  TablesGrow /\ ChainInv'
<1>1. TablesGrow
  BY TypeParts DEF ChainInv, TablesGrow, ReviewMoves, PlanMoves,
                   ConversionMoves
<1>2. SessionSound(i)'
  BY <1>1, SoundKept
<1>3. PendingWithinQuota' /\ \A a \in Advisor : IsFiniteSet(Pending(a)')
  BY DEF ChainInv, PendingWithinQuota, Pending
<1>. QED
  BY <1>1, <1>2, <1>3, Advance

LEMMA ReadStep ==
  ASSUME ChainInv, NEW t \in Handler, NEW i \in Session, Continue(t, i),
         UNCHANGED tables, SessionSound(i)
  PROVE  TablesGrow /\ ChainInv'
<1>1. TablesTyped' /\ advisors' = advisors
      /\ UNCHANGED <<reviews, plans, conversions>>
  BY TypeParts DEF ChainInv, tables, TablesTyped
<1>. QED
  BY <1>1, QuietStep

\* The environment moves the campaign and the suggestions.
LEMMA EnvironmentStep ==
  ASSUME ChainInv, NEW t \in Handler,
         \/ AdvanceCampaign(t)
         \/ \E s \in Suggestion, status \in ItemStatus :
              UpdateItem(t, s, status)
  PROVE  TablesGrow /\ ChainInv'
<1>1. UNCHANGED <<advisors, reviews, plans, conversions, session>>
  BY DEF AdvanceCampaign, UpdateItem
<1>2. TablesTyped
  BY TypeParts DEF ChainInv
<1>3. TablesTyped'
  <2>1. CASE AdvanceCampaign(t)
    <3>1. \A c \in DOMAIN CampaignStages :
            CampaignStages[c] \subseteq DOMAIN CampaignStages
      BY DEF CampaignStages
    <3>2. campaign' \in DOMAIN CampaignStages /\ items' = items
      BY <1>2, <2>1, <3>1 DEF TablesTyped, AdvanceCampaign
    <3>. QED
      BY <1>1, <1>2, <3>2 DEF TablesTyped
  <2>2. CASE \E s \in Suggestion, status \in ItemStatus :
               UpdateItem(t, s, status)
    BY <1>1, <1>2, <2>2 DEF TablesTyped, UpdateItem
  <2>. QED
    BY <2>1, <2>2
<1>4. PICK i \in Session : i = session[t]
  BY DEF ChainInv, TypeOK
<1>5. Continue(t, i)
  BY <1>1, <1>4 DEF ChainInv, TypeOK, Continue
<1>6. SessionSound(i)
  BY <1>4 DEF ChainInv
<1>. QED
  BY <1>1, <1>3, <1>5, <1>6, QuietStep

-----------------------------------------------------------------------------
\* A request relies on what it has just read.
LEMMA RequestStep ==
  ASSUME ChainInv, NEW t \in Handler, Request(t)
  PROVE  TablesGrow /\ ChainInv'
<1>0. TablesTyped
  BY TypeParts DEF ChainInv
<1>1. ASSUME NEW a \in Advisor, EnrollAdvisor(t, a)
      PROVE  TablesGrow /\ ChainInv'
  <2>1. PICK i \in Session : i = [pc |-> "insert_advisor", a |-> a]
    BY DEF Session
  <2>2. SessionSound(i)
    BY <2>1 DEF SessionSound
  <2>. QED
    BY <1>1, <2>1, <2>2, ReadStep DEF EnrollAdvisor, Reads
<1>2. ASSUME NEW s \in Suggestion, NEW a \in Advisor, NEW p \in Panel,
             AssignReview(t, s, a, p)
      PROVE  TablesGrow /\ ChainInv'
  <2>1. PICK row \in Review :
          row = [verdict |-> "pending", panel |-> p, version |-> 1]
    BY DEF Review
  <2>2. PICK i \in Session :
          i = [pc |-> "check_advisor", s |-> s, a |-> a, row |-> row]
    BY DEF Session
  <2>3. SessionSound(i)
    BY <2>2 DEF SessionSound
  <2>. QED
    BY <1>2, <2>1, <2>2, <2>3, ReadStep DEF AssignReview, Reads
<1>3. ASSUME NEW s \in Suggestion, NEW a \in Advisor, NEW v \in Verdict,
             DecideReview(t, s, a, v)
      PROVE  TablesGrow /\ ChainInv'
  <2>1. s \in Pending(a) /\ reviews[s][a] # Absent /\ a \in advisors
    BY <1>3 DEF DecideReview, Pending, ChainInv, ReviewedByAdvisors
  <2>2. PICK old \in Review : old = reviews[s][a]
    BY <1>0, <2>1 DEF TablesTyped
  <2>3. PICK row \in Review :
          /\ row = [old EXCEPT !.verdict = v, !.version = @ + 1]
          /\ row.version = old.version + 1 /\ old.version \in Nat
    BY ReviewFields, ReviewKinds
  <2>4. PICK i \in Session :
          i = [pc |-> "update_review", s |-> s, a |-> a, row |-> row]
    BY DEF Session
  <2>5. SessionSound(i)
    <3>1. row.version = reviews[s][a].version + 1 /\ row.version \in Nat
      BY <2>2, <2>3
    <3>2. i.pc = "update_review" /\ i.s = s /\ i.a = a /\ i.row = row
      BY <2>4
    <3>. QED
      BY <2>1, <3>1, <3>2 DEF SessionSound
  <2>6. Continue(t, i) /\ UNCHANGED tables
    BY <1>3, <2>2, <2>3, <2>4 DEF DecideReview, Reads
  <2>. QED
    BY <2>5, <2>6, ReadStep
<1>4. ASSUME NEW s \in Suggestion, NEW k \in Key, NEW a \in Advisor,
             CreateHandlingPlan(t, s, k, a)
      PROVE  TablesGrow /\ ChainInv'
  <2>1. reviews[s][a] # Absent /\ reviews[s][a].verdict = "accepted"
        /\ a \in advisors
    BY <1>4 DEF CreateHandlingPlan, ChainInv, ReviewedByAdvisors
  <2>2. PICK row \in Plan :
          row = [review |-> a, status |-> "proposed", version |-> 1]
    BY PlanStatuses DEF Plan
  <2>3. PICK i \in Session :
          i = [pc |-> "insert_plan", s |-> s, k |-> k, row |-> row]
    BY DEF Session
  <2>4. SessionSound(i)
    BY <2>1, <2>2, <2>3 DEF SessionSound
  <2>. QED
    BY <1>4, <2>2, <2>3, <2>4, ReadStep DEF CreateHandlingPlan, Reads
<1>5. ASSUME NEW s \in Suggestion, NEW k \in Key,
             NEW to \in DOMAIN PlanSuccessor,
             TransitionHandlingPlan(t, s, k, to)
      PROVE  TablesGrow /\ ChainInv'
  <2>1. plans[s][k] # Absent /\ to \in PlanSuccessor[plans[s][k].status]
    BY <1>5 DEF TransitionHandlingPlan
  <2>2. PICK old \in Plan : old = plans[s][k]
    BY <1>0, <2>1 DEF TablesTyped
  <2>3. PICK row \in Plan :
          /\ row = [old EXCEPT !.status = to, !.version = @ + 1]
          /\ row.status = to /\ row.review = old.review
          /\ row.version = old.version + 1 /\ old.version \in Nat
    <3>1. old.version \in Nat
      BY PlanKinds
    <3>. DEFINE new == [old EXCEPT !.status = to, !.version = @ + 1]
    <3>2. /\ new \in Plan /\ new.status = to /\ new.review = old.review
          /\ new.version = old.version + 1
      BY PlanFields
    <3>3. new = [old EXCEPT !.status = to, !.version = @ + 1]
      OBVIOUS
    <3>. HIDE DEF new
    <3>. QED
      BY <3>1, <3>2, <3>3, Zenon
  <2>4. PICK i \in Session :
          i = [pc |-> "update_plan", s |-> s, k |-> k, row |-> row]
    BY DEF Session
  <2>5. SessionSound(i)
    <3>1. /\ row.version = plans[s][k].version + 1 /\ row.version \in Nat
          /\ row.review = plans[s][k].review /\ row.status = to
      BY <2>2, <2>3
    <3>2. i.pc = "update_plan" /\ i.s = s /\ i.k = k /\ i.row = row
      BY <2>4
    <3>. QED
      BY <2>1, <3>1, <3>2 DEF SessionSound
  <2>6. Continue(t, i) /\ UNCHANGED tables
    BY <1>5, <2>2, <2>3, <2>4 DEF TransitionHandlingPlan, Reads
  <2>. QED
    BY <2>5, <2>6, ReadStep
<1>6. ASSUME NEW s \in Suggestion, NEW k \in Key, ProposeConversion(t, s, k)
      PROVE  TablesGrow /\ ChainInv'
  <2>1. PICK row \in Conversion :
          row = [plan |-> k, status |-> "proposed", version |-> 1]
    BY DEF Conversion
  <2>2. PICK i \in Session :
          i = [pc |-> "check_plans", s |-> s, row |-> row]
    BY DEF Session
  <2>3. SessionSound(i)
    BY <2>2 DEF SessionSound
  <2>. QED
    BY <1>6, <2>1, <2>2, <2>3, ReadStep DEF ProposeConversion, Reads
<1>7. ASSUME NEW s \in Suggestion, NEW publish \in BOOLEAN,
             VerifyConversion(t, s, publish)
      PROVE  TablesGrow /\ ChainInv'
  <2>1. conversions[s] # Absent /\ conversions[s].status # "published"
    BY <1>7 DEF VerifyConversion
  <2>2. PICK old \in Conversion : old = conversions[s]
    BY <1>0, <2>1 DEF TablesTyped
  <2>3. PICK to \in {"verified", "published"} :
          to = IF publish THEN "published" ELSE "verified"
    OBVIOUS
  <2>4. PICK row \in Conversion :
          /\ row = [old EXCEPT !.status = to, !.version = @ + 1]
          /\ row.plan = old.plan
          /\ row.version = old.version + 1 /\ old.version \in Nat
    BY ConversionFields, ConversionKinds
  <2>5. PICK i \in Session :
          i = [pc |-> "update_conversion", s |-> s, row |-> row]
    BY DEF Session
  <2>6. SessionSound(i)
    <3>1. /\ row.version = conversions[s].version + 1 /\ row.version \in Nat
          /\ row.plan = conversions[s].plan
      BY <2>2, <2>4
    <3>2. i.pc = "update_conversion" /\ i.s = s /\ i.row = row
      BY <2>5
    <3>. QED
      BY <2>1, <3>1, <3>2 DEF SessionSound
  <2>7. Continue(t, i) /\ UNCHANGED tables
    BY <1>7, <2>2, <2>3, <2>4, <2>5 DEF VerifyConversion, Reads
  <2>. QED
    BY <2>6, <2>7, ReadStep
<1>. QED
  BY <1>1, <1>2, <1>3, <1>4, <1>5, <1>6, <1>7, EnvironmentStep DEF Request

-----------------------------------------------------------------------------
\* What a thread is at, for the steps that follow.
LEMMA AtWork ==
  ASSUME ChainInv, NEW t \in Handler
  PROVE  /\ TablesTyped /\ session[t] \in Session
         /\ SessionSound(session[t]) /\ Idle \in Session
         /\ SessionSound(Idle) /\ SessionSound(Idle)'
BY TypeParts DEF ChainInv, SessionSound, Idle, Session

LEMMA AdvisorStep ==
  ASSUME ChainInv, NEW t \in Handler, InsertAdvisor(t)
  PROVE  TablesGrow /\ ChainInv'
<1>1. PICK a \in Advisor : a = session[t].a
  BY AtWork, SessionKinds DEF InsertAdvisor, Ends, Pc
<1>2. /\ advisors' = advisors \cup {a} /\ Continue(t, Idle)
      /\ UNCHANGED <<campaign, items, reviews, plans, conversions>>
  BY <1>1 DEF InsertAdvisor, Ends
<1>3. TablesTyped'
  BY <1>2, AtWork DEF TablesTyped
<1>. QED
  BY <1>2, <1>3, AtWork, QuietStep

LEMMA CheckStep ==
  ASSUME ChainInv, NEW t \in Handler, CheckAdvisor(t) \/ CheckPlans(t)
  PROVE  TablesGrow /\ ChainInv'
<1>. PICK i \in Session : i = session[t]
  BY AtWork
<1>1. CASE CheckAdvisor(t)
  <2>1. i.pc = "check_advisor" /\ i.a \in advisors /\ UNCHANGED tables
        /\ Continue(t, [i EXCEPT !.pc = "insert_review"])
    BY <1>1 DEF CheckAdvisor, ReadsOn, Pc
  <2>2. i \in [pc: {"check_advisor"}, s: Suggestion, a: Advisor, row: Review]
    BY <2>1 DEF Session, Idle
  <2>3. PICK j \in Session : j = [i EXCEPT !.pc = "insert_review"]
    BY <2>2 DEF Session
  <2>4. j.pc = "insert_review" /\ j.a = i.a
    BY <2>2, <2>3
  <2>5. SessionSound(j)
    BY <2>1, <2>4 DEF SessionSound
  <2>. QED
    BY <2>1, <2>3, <2>5, ReadStep
<1>2. CASE CheckPlans(t)
  <2>1. i.pc = "check_plans" /\ AllCompleted(i.s) /\ i.row.plan \in PlansOf(i.s)
        /\ UNCHANGED tables
        /\ Continue(t, [i EXCEPT !.pc = "insert_conversion"])
    BY <1>2 DEF CheckPlans, ReadsOn, Pc
  <2>2. i \in [pc: {"check_plans"}, s: Suggestion, row: Conversion]
    BY <2>1 DEF Session, Idle
  <2>3. PICK j \in Session : j = [i EXCEPT !.pc = "insert_conversion"]
    BY <2>2 DEF Session
  <2>4. j.pc = "insert_conversion" /\ j.s = i.s /\ j.row = i.row
    BY <2>2, <2>3
  <2>5. SessionSound(j)
    BY <2>1, <2>4 DEF SessionSound, AllCompleted
  <2>. QED
    BY <2>1, <2>3, <2>5, ReadStep
<1>. QED
  BY <1>1, <1>2

\* A transaction writes one review.
LEMMA ReviewWritten ==
  ASSUME ChainInv, NEW t \in Handler, NEW s \in Suggestion, NEW a \in Advisor,
         NEW row \in Review, a \in advisors, Continue(t, Idle),
         reviews' = [reviews EXCEPT ![s][a] = row],
         UNCHANGED <<campaign, items, advisors, plans, conversions>>,
         \/ reviews[s][a] = Absent /\ WithinQuota(a)
         \/ s \in Pending(a) /\ row.version = reviews[s][a].version + 1
  PROVE  TablesGrow /\ ChainInv'
<1>1. TablesTyped
  BY AtWork
<1>2. /\ reviews' \in [Suggestion -> [Advisor -> Review \cup {Absent}]]
      /\ reviews'[s][a] = row
      /\ \A x \in Suggestion, b \in Advisor :
           x # s \/ b # a => reviews'[x][b] = reviews[x][b]
  BY <1>1 DEF TablesTyped
<1>3. TablesGrow
  <2>1. TablesTyped'
    BY <1>1, <1>2 DEF TablesTyped
  <2>2. \A x \in Suggestion, b \in Advisor : ReviewMoves(x, b)
    BY <1>2 DEF ReviewMoves
  <2>. QED
    BY <1>1, <2>1, <2>2 DEF TablesGrow, PlanMoves, ConversionMoves
<1>4. ASSUME NEW b \in Advisor
      PROVE  IsFiniteSet(Pending(b)') /\ Cardinality(Pending(b)') <= ReviewQuota
  <2>1. /\ IsFiniteSet(Pending(b)) /\ Cardinality(Pending(b)) <= ReviewQuota
        /\ Cardinality(Pending(b)) \in Nat /\ ReviewQuota \in Nat
    BY FS_CardinalityType, ConstantsAssumption
       DEF ChainInv, PendingWithinQuota, ConstantsAssumption
  <2>2. CASE b = a /\ reviews[s][a] = Absent /\ WithinQuota(a)
    <3>1. Pending(b)' \subseteq Pending(b) \cup {s}
      BY <1>2, <2>2 DEF Pending
    <3>2. /\ IsFiniteSet(Pending(b) \cup {s})
          /\ Cardinality(Pending(b) \cup {s}) = Cardinality(Pending(b)) + 1
      <4>1. s \notin Pending(b)
        BY <2>2 DEF Pending
      <4>. QED
        BY <2>1, <4>1, FS_AddElement
    <3>3. /\ IsFiniteSet(Pending(b)')
          /\ Cardinality(Pending(b)') <= Cardinality(Pending(b) \cup {s})
      BY <3>1, <3>2, FS_Subset
    <3>4. Cardinality(Pending(b)') \in Nat
      BY <3>3, FS_CardinalityType
    <3>5. Cardinality(Pending(b)) < ReviewQuota
      BY <2>2 DEF WithinQuota
    <3>. QED
      BY <2>1, <3>2, <3>3, <3>4, <3>5
  <2>3. CASE b # a \/ s \in Pending(a)
    <3>1. Pending(b)' \subseteq Pending(b)
      BY <1>2, <2>3 DEF Pending
    <3>2. /\ IsFiniteSet(Pending(b)')
          /\ Cardinality(Pending(b)') <= Cardinality(Pending(b))
      BY <2>1, <3>1, FS_Subset
    <3>3. Cardinality(Pending(b)') \in Nat
      BY <3>2, FS_CardinalityType
    <3>. QED
      BY <2>1, <3>2, <3>3
  <2>. QED
    BY <2>2, <2>3
<1>. QED
  BY <1>3, <1>4, AtWork, Advance DEF PendingWithinQuota

LEMMA ReviewStep ==
  ASSUME ChainInv, NEW t \in Handler, InsertReview(t) \/ UpdateReview(t)
  PROVE  TablesGrow /\ ChainInv'
<1>. PICK i \in Session : i = session[t]
  BY AtWork
<1>1. i.pc \in {"insert_review", "update_review"} /\ Continue(t, Idle)
      /\ UNCHANGED <<campaign, items, advisors, plans, conversions>>
  BY DEF InsertReview, UpdateReview, Ends, Pc
<1>2. PICK s \in Suggestion, a \in Advisor, row \in Review :
        s = i.s /\ a = i.a /\ row = i.row
  BY <1>1, SessionKinds
<1>3. a \in advisors
  BY <1>1, <1>2, AtWork DEF SessionSound
<1>4. CASE reviews' = reviews
  BY <1>1, <1>4, AtWork, ReadStep DEF tables
<1>5. CASE /\ reviews' = [reviews EXCEPT ![s][a] = row]
           /\ \/ reviews[s][a] = Absent /\ WithinQuota(a)
              \/ s \in Pending(a) /\ row.version = reviews[s][a].version + 1
  BY <1>1, <1>3, <1>5, ReviewWritten
<1>6. CASE InsertReview(t)
  <2>1. reviews' = IF NewReview(s, a, row.panel) /\ WithinQuota(a)
                   THEN [reviews EXCEPT ![s][a] = row] ELSE reviews
    BY <1>2, <1>6 DEF InsertReview
  <2>. QED
    BY <1>4, <1>5, <2>1 DEF NewReview
<1>7. CASE UpdateReview(t)
  <2>1. reviews' = IF reviews[s][a].version + 1 = row.version
                   THEN [reviews EXCEPT ![s][a] = row] ELSE reviews
    BY <1>2, <1>7 DEF UpdateReview, Current
  <2>2. row.version = reviews[s][a].version + 1 => s \in Pending(a)
    BY <1>2, <1>7, AtWork DEF SessionSound, UpdateReview, Ends, Pc
  <2>. QED
    BY <1>4, <1>5, <2>1, <2>2
<1>. QED
  BY <1>6, <1>7

\* No plan and no outcome makes a review pending.
LEMMA QuotaUntouched ==
  ASSUME ChainInv, reviews' = reviews
  PROVE  PendingWithinQuota' /\ \A a \in Advisor : IsFiniteSet(Pending(a)')
BY DEF ChainInv, PendingWithinQuota, Pending

LEMMA PlanWritten ==
  ASSUME ChainInv, NEW t \in Handler, NEW s \in Suggestion, NEW k \in Key,
         NEW row \in Plan, Continue(t, Idle),
         plans' = [plans EXCEPT ![s][k] = row],
         UNCHANGED <<campaign, items, advisors, reviews, conversions>>,
         \/ plans[s][k] = Absent /\ Approved(s, row.review)
         \/ /\ plans[s][k] # Absent /\ row.review = plans[s][k].review
            /\ row.version = plans[s][k].version + 1
            /\ row.status \in PlanSuccessor[plans[s][k].status]
  PROVE  TablesGrow /\ ChainInv'
<1>1. TablesTyped
  BY AtWork
<1>2. /\ plans' \in [Suggestion -> [Key -> Plan \cup {Absent}]]
      /\ plans'[s][k] = row
      /\ \A x \in Suggestion, l \in Key :
           x # s \/ l # k => plans'[x][l] = plans[x][l]
  BY <1>1 DEF TablesTyped
<1>3. TablesTyped'
  BY <1>1, <1>2 DEF TablesTyped
<1>4. \A x \in Suggestion, l \in Key : PlanMoves(x, l)
  BY <1>2 DEF PlanMoves
<1>5. TablesGrow
  BY <1>1, <1>3, <1>4 DEF TablesGrow, ReviewMoves, ConversionMoves
<1>. QED
  BY <1>5, AtWork, QuotaUntouched, Advance

LEMMA PlanStep ==
  ASSUME ChainInv, NEW t \in Handler,
         InsertHandlingPlan(t) \/ UpdateHandlingPlan(t)
  PROVE  TablesGrow /\ ChainInv'
<1>. PICK i \in Session : i = session[t]
  BY AtWork
<1>1. i.pc \in {"insert_plan", "update_plan"} /\ Continue(t, Idle)
      /\ UNCHANGED <<campaign, items, advisors, reviews, conversions>>
  BY DEF InsertHandlingPlan, UpdateHandlingPlan, Ends, Pc
<1>2. PICK s \in Suggestion, k \in Key, row \in Plan :
        s = i.s /\ k = i.k /\ row = i.row
  BY <1>1, SessionKinds
<1>3. CASE plans' = plans
  BY <1>1, <1>3, AtWork, ReadStep DEF tables
<1>4. CASE InsertHandlingPlan(t)
  <2>1. plans' = IF plans[s][k] = Absent
                 THEN [plans EXCEPT ![s][k] = row] ELSE plans
    BY <1>2, <1>4 DEF InsertHandlingPlan
  <2>2. Approved(s, row.review)
    BY <1>2, <1>4, AtWork
       DEF SessionSound, InsertHandlingPlan, Ends, Pc, Approved
  <2>. QED
    BY <1>1, <1>3, <2>1, <2>2, PlanWritten
<1>5. CASE UpdateHandlingPlan(t)
  <2>1. plans' = IF plans[s][k].version + 1 = row.version
                 THEN [plans EXCEPT ![s][k] = row] ELSE plans
    BY <1>2, <1>5 DEF UpdateHandlingPlan, Current
  <2>2. /\ plans[s][k] # Absent /\ row.review = plans[s][k].review
        /\ row.version = plans[s][k].version + 1 =>
             row.status \in PlanSuccessor[plans[s][k].status]
    BY <1>2, <1>5, AtWork DEF SessionSound, UpdateHandlingPlan, Ends, Pc
  <2>. QED
    BY <1>1, <1>3, <2>1, <2>2, PlanWritten
<1>. QED
  BY <1>4, <1>5

LEMMA ConversionWritten ==
  ASSUME ChainInv, NEW t \in Handler, NEW s \in Suggestion,
         NEW row \in Conversion, Continue(t, Idle),
         conversions' = [conversions EXCEPT ![s] = row],
         UNCHANGED <<campaign, items, advisors, reviews, plans>>,
         \/ conversions[s] = Absent /\ Done(s, row.plan)
         \/ /\ conversions[s] # Absent /\ conversions[s].status # "published"
            /\ row.plan = conversions[s].plan
            /\ row.version = conversions[s].version + 1
  PROVE  TablesGrow /\ ChainInv'
<1>1. TablesTyped
  BY AtWork
<1>2. /\ conversions' \in [Suggestion -> Conversion \cup {Absent}]
      /\ conversions'[s] = row
      /\ \A x \in Suggestion \ {s} : conversions'[x] = conversions[x]
  BY <1>1 DEF TablesTyped
<1>3. TablesTyped'
  BY <1>1, <1>2 DEF TablesTyped
<1>4. \A x \in Suggestion : ConversionMoves(x)
  BY <1>2 DEF ConversionMoves
<1>5. TablesGrow
  BY <1>1, <1>3, <1>4 DEF TablesGrow, ReviewMoves, PlanMoves
<1>. QED
  BY <1>5, AtWork, QuotaUntouched, Advance

LEMMA ConversionStep ==
  ASSUME ChainInv, NEW t \in Handler,
         InsertConversion(t) \/ UpdateConversion(t)
  PROVE  TablesGrow /\ ChainInv'
<1>. PICK i \in Session : i = session[t]
  BY AtWork
<1>1. i.pc \in {"insert_conversion", "update_conversion"} /\ Continue(t, Idle)
      /\ UNCHANGED <<campaign, items, advisors, reviews, plans>>
  BY DEF InsertConversion, UpdateConversion, Ends, Pc
<1>2. PICK s \in Suggestion, row \in Conversion : s = i.s /\ row = i.row
  BY <1>1, SessionKinds
<1>3. CASE conversions' = conversions
  BY <1>1, <1>3, AtWork, ReadStep DEF tables
<1>4. CASE InsertConversion(t)
  <2>1. conversions' = IF conversions[s] = Absent
                       THEN [conversions EXCEPT ![s] = row] ELSE conversions
    BY <1>2, <1>4 DEF InsertConversion
  <2>2. Done(s, row.plan)
    BY <1>2, <1>4, AtWork DEF SessionSound, InsertConversion, Ends, Pc, Done
  <2>. QED
    BY <1>1, <1>3, <2>1, <2>2, ConversionWritten
<1>5. CASE UpdateConversion(t)
  <2>1. conversions' = IF conversions[s].version + 1 = row.version
                       THEN [conversions EXCEPT ![s] = row] ELSE conversions
    BY <1>2, <1>5 DEF UpdateConversion, Current
  <2>2. /\ conversions[s] # Absent /\ row.plan = conversions[s].plan
        /\ row.version = conversions[s].version + 1 =>
             conversions[s].status # "published"
    BY <1>2, <1>5, AtWork DEF SessionSound, UpdateConversion, Ends, Pc
  <2>. QED
    BY <1>1, <1>3, <2>1, <2>2, ConversionWritten
<1>. QED
  BY <1>4, <1>5

-----------------------------------------------------------------------------
LEMMA StutterStep ==
  ASSUME ChainInv, UNCHANGED vars
  PROVE  TablesGrow /\ ChainInv'
<1>1. UNCHANGED <<campaign, items, advisors, reviews, plans, conversions,
                  session>>
  BY DEF vars, tables
<1>2. TablesTyped /\ TablesTyped'
  BY <1>1, TypeParts DEF ChainInv, TablesTyped
<1>. QED
  BY ZenonT(40), <1>1, <1>2
     DEF TablesGrow, ReviewMoves, PlanMoves, ConversionMoves, ChainInv, TypeOK,
         PendingWithinQuota, Pending, ReviewedByAdvisors, PlansJustified,
         PlansOf, ConversionsJustified, SessionSound

LEMMA ChainStep ==
  ASSUME ChainInv, [Next]_vars
  PROVE  TablesGrow /\ ChainInv'
<1>1. ASSUME NEW t \in Handler, Abandon(t)
      PROVE  TablesGrow /\ ChainInv'
  BY <1>1, AtWork, ReadStep DEF Abandon
<1>2. ASSUME NEW t \in Handler, Transaction(t)
      PROVE  TablesGrow /\ ChainInv'
  BY <1>2, AdvisorStep, CheckStep, ReviewStep, PlanStep, ConversionStep
     DEF Transaction
<1>. QED
  BY <1>1, <1>2, RequestStep, StutterStep DEF Next

\* Whatever has changed since a request read it, the invariant holds
\* (civic_service.go:176-488, civic_writes.go, 0003_civic_workflow.sql).
THEOREM ChainInvariant == Spec => []ChainInv
<1>1. ChainInv /\ [Next]_vars => ChainInv'
  BY ChainStep
<1>. QED
  BY <1>1, ChainInit, PTL DEF Spec

\* No advisor has more pending reviews than the quota allows.
THEOREM QuotaHolds == Spec => []PendingWithinQuota
<1>1. ChainInv => PendingWithinQuota
  BY DEF ChainInv
<1>. QED
  BY <1>1, ChainInvariant, PTL

\* A plan rests on an accepted review, a conversion on a completed plan.
THEOREM OutcomesRest == Spec => [](PlansJustified /\ ConversionsJustified)
<1>1. ChainInv => PlansJustified /\ ConversionsJustified
  BY DEF ChainInv
<1>. QED
  BY <1>1, ChainInvariant, PTL

\* A decided review, a finished plan and a published outcome never change.
THEOREM DecisionsStand == Spec => DecisionsFinal
<1>1. ASSUME ChainInv, [Next]_vars, NEW s \in Suggestion
      PROVE  /\ \A a \in Advisor : reviews[s][a] # Absent /\ s \notin Pending(a)
                                      => reviews'[s][a] = reviews[s][a]
             /\ \A k \in PlansOf(s) :
                  plans'[s][k] # plans[s][k]
                    => plans'[s][k].status \in PlanSuccessor[plans[s][k].status]
             /\ conversions[s] # Absent /\ conversions[s].status = "published"
                  => conversions'[s] = conversions[s]
  <2>1. TablesGrow
    BY <1>1, ChainStep
  <2>. QED
    BY <2>1 DEF TablesGrow, ReviewMoves, PlanMoves, ConversionMoves, PlansOf
<1>2. ChainInv /\ [Next]_vars =>
        [\A s \in Suggestion :
           /\ \A a \in Advisor : reviews[s][a] # Absent /\ s \notin Pending(a)
                                   => reviews'[s][a] = reviews[s][a]
           /\ \A k \in PlansOf(s) :
                plans'[s][k] # plans[s][k]
                  => plans'[s][k].status \in PlanSuccessor[plans[s][k].status]
           /\ conversions[s] # Absent /\ conversions[s].status = "published"
                => conversions'[s] = conversions[s]]_vars
  BY <1>1
<1>. QED
  BY <1>2, ChainInvariant, PTL DEF Spec, DecisionsFinal

=============================================================================

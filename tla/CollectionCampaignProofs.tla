----------------------- MODULE CollectionCampaignProofs -----------------------
(***************************************************************************)
(* The invariants of CollectionCampaign: what a request has read may be    *)
(* stale when it writes, and yet nothing is taken in that should not be.   *)
(***************************************************************************)
EXTENDS CollectionCampaign, FiniteSetTheorems, TLAPS

Opened == {"open", "review", "closed"}

LEMMA SessionKinds ==
  ASSUME NEW s \in Session
  PROVE  /\ s.pc = "idle" => s = Idle
         /\ s.pc = "insert_campaign" =>
              s \in [pc: {"insert_campaign"}, campaign: Campaign]
         /\ s.pc = "update_campaign" =>
              s \in [pc: {"update_campaign"}, campaign: Campaign,
                     row: CampaignRow]
         /\ s.pc = "insert_point" =>
              s \in [pc: {"insert_point"}, campaign: Campaign, point: Point]
         /\ s.pc = "update_point" =>
              s \in [pc: {"update_point"}, campaign: Campaign, point: Point,
                     row: PointRow]
         /\ s.pc \in {"check_point", "insert_intake"} =>
              s \in [pc: {"check_point", "insert_intake"}, intake: Intake]
         /\ s.pc \in {"idle", "insert_campaign", "update_campaign",
                      "insert_point", "update_point", "check_point",
                      "insert_intake"}
BY DEF Session, Idle

LEMMA IntakeFields ==
  ASSUME NEW i \in Intake
  PROVE  /\ i.suggestion \in Suggestion /\ i.campaign \in Campaign
         /\ i.point \in Point /\ i.key \in Key /\ i.at \in Nat
         /\ \A at \in Nat : /\ [i EXCEPT !.at = at] \in Intake
                            /\ [i EXCEPT !.at = at].at = at
                            /\ [i EXCEPT !.at = at].campaign = i.campaign
                            /\ [i EXCEPT !.at = at].point = i.point
BY DEF Intake

LEMMA CampaignKinds ==
  ASSUME NEW row \in CampaignRow \cup {Absent}
  PROVE  /\ row # Absent <=> row \in CampaignRow
         /\ row # Absent <=> row.status \in CampaignStatus
         /\ row \in CampaignRow => row.version \in Nat
BY DEF CampaignRow, Absent, CampaignStatus

LEMMA PointKinds ==
  ASSUME NEW row \in PointRow \cup {Absent}
  PROVE  /\ row # Absent <=> row \in PointRow
         /\ row # Absent <=> row.status \in {"preparing", "active"}
         /\ row \in PointRow => row.version \in Nat
BY DEF PointRow, Absent

LEMMA Successors ==
  /\ \A status \in CampaignStatus : Successor[status] \subseteq Opened
  /\ "draft" \notin Opened /\ "absent" \notin Opened
  /\ Opened \subseteq CampaignStatus
BY DEF CampaignStatus, Successor, Opened

\* What a transaction may do to the tables of campaigns and points.
CampaignMoves(c) ==
  \/ campaigns'[c] = campaigns[c]
  \/ campaigns[c] = Absent /\ campaigns'[c].status = "draft"
  \/ /\ campaigns[c] # Absent /\ campaigns'[c] # Absent
     /\ campaigns'[c].version = campaigns[c].version + 1
     /\ campaigns'[c].status \in Successor[campaigns[c].status]

PointMoves(c, p) ==
  \/ points'[c][p] = points[c][p]
  \/ points[c][p] = Absent
  \/ /\ points[c][p].status = "preparing"
     /\ points'[c][p] # Absent /\ points'[c][p].status = "active"
     /\ points'[c][p].version = points[c][p].version + 1

TablesGrow ==
  /\ campaigns' \in [Campaign -> CampaignRow \cup {Absent}]
  /\ points' \in [Campaign -> [Point -> PointRow \cup {Absent}]]
  /\ \A c \in Campaign : CampaignMoves(c)
  /\ \A c \in Campaign, p \in Point : PointMoves(c, p)

\* What was opened stays opened, and what is active stays active.
LEMMA GrownTables ==
  ASSUME TypeOK, TablesGrow, NEW c \in Campaign
  PROVE  /\ campaigns[c].status \in Opened => campaigns'[c].status \in Opened
         /\ campaigns[c] # Absent => campaigns'[c] # Absent
         /\ ActivePoints(c) \subseteq ActivePoints(c)'
         /\ \A p \in Point : points[c][p] # Absent => points'[c][p] # Absent
<1>1. /\ campaigns[c] \in CampaignRow \cup {Absent}
      /\ campaigns'[c] \in CampaignRow \cup {Absent}
      /\ CampaignMoves(c)
  BY DEF TypeOK, TablesGrow
<1>2. /\ campaigns[c].status \in Opened => campaigns'[c].status \in Opened
      /\ campaigns[c] # Absent => campaigns'[c] # Absent
  <2>1. campaigns[c].status \in Opened => campaigns[c] # Absent
    BY Successors DEF Absent
  <2>. QED
    BY <1>1, <2>1, CampaignKinds, Successors DEF CampaignMoves
<1>3. ASSUME NEW p \in Point
      PROVE  /\ points[c][p].status = "active" => points'[c][p].status = "active"
             /\ points[c][p] # Absent => points'[c][p] # Absent
  <2>1. PointMoves(c, p)
    BY DEF TablesGrow
  <2>. QED
    BY <2>1 DEF PointMoves, Absent
<1>. QED
  BY <1>2, <1>3 DEF ActivePoints

\* What a session relies on is not lost when the tables grow.
LEMMA SoundKept ==
  ASSUME TypeOK, TablesGrow, NEW s \in Session, SessionSound(s)
  PROVE  SessionSound(s)'
<1>1. CASE s.pc = "insert_point"
  <2>1. s.campaign \in Campaign
    BY <1>1, SessionKinds
  <2>. QED
    BY <1>1, <2>1, GrownTables DEF SessionSound
<1>2. CASE s.pc = "update_point"
  <2>1. PICK c \in Campaign, p \in Point, row \in PointRow :
          c = s.campaign /\ p = s.point /\ row = s.row
    BY <1>2, SessionKinds
  <2>2. /\ points[c][p] # Absent /\ row.status = "active"
        /\ row.version <= points[c][p].version + 1
        /\ row.version = points[c][p].version + 1 =>
             points[c][p].status = "preparing"
    BY <1>2, <2>1 DEF SessionSound
  <2>3. /\ points[c][p] \in PointRow \cup {Absent}
        /\ points'[c][p] \in PointRow \cup {Absent} /\ PointMoves(c, p)
    BY DEF TypeOK, TablesGrow
  <2>4. row.version \in Nat /\ points[c][p].version \in Nat
    BY <2>2, <2>3, PointKinds
  <2>5. /\ points'[c][p] # Absent
        /\ row.version <= points'[c][p].version + 1
        /\ row.version = points'[c][p].version + 1 =>
             points'[c][p].status = "preparing"
    BY <2>2, <2>3, <2>4 DEF PointMoves
  <2>. QED
    BY <1>2, <2>1, <2>2, <2>5 DEF SessionSound
<1>3. CASE s.pc = "update_campaign"
  <2>1. PICK c \in Campaign, row \in CampaignRow :
          c = s.campaign /\ row = s.row
    BY <1>3, SessionKinds
  <2>2. /\ campaigns[c] # Absent /\ ActivePoints(c) # {}
        /\ row.version <= campaigns[c].version + 1
        /\ row.version = campaigns[c].version + 1 =>
             row.status \in Successor[campaigns[c].status]
    BY <1>3, <2>1 DEF SessionSound
  <2>3. /\ campaigns[c] \in CampaignRow \cup {Absent}
        /\ CampaignMoves(c)
    BY DEF TypeOK, TablesGrow
  <2>4. row.version \in Nat /\ campaigns[c].version \in Nat
    BY <2>2, <2>3, CampaignKinds
  <2>5. /\ campaigns'[c] # Absent /\ ActivePoints(c)' # {}
        /\ row.version <= campaigns'[c].version + 1
        /\ row.version = campaigns'[c].version + 1 =>
             row.status \in Successor[campaigns'[c].status]
    BY <2>2, <2>3, <2>4, GrownTables DEF CampaignMoves
  <2>. QED
    BY <1>3, <2>1, <2>5 DEF SessionSound
<1>4. CASE s.pc \in {"check_point", "insert_intake"}
  <2>1. PICK i \in Intake : i = s.intake
    BY <1>4, SessionKinds
  <2>2. i.campaign \in Campaign
    BY IntakeFields
  <2>3. /\ campaigns'[i.campaign].status \in Opened
        /\ s.pc = "insert_intake" => i.point \in ActivePoints(i.campaign)'
    BY <1>4, <2>1, <2>2, GrownTables DEF SessionSound, Opened
  <2>. QED
    BY <1>4, <2>1, <2>3 DEF SessionSound, Opened
<1>5. CASE s.pc \in {"idle", "insert_campaign"}
  BY <1>5 DEF SessionSound
<1>. QED
  BY <1>1, <1>2, <1>3, <1>4, <1>5, SessionKinds

LEMMA JustifiedKept ==
  ASSUME TypeOK, TablesGrow, NEW i \in Intake,
         i.point \in ActivePoints(i.campaign),
         campaigns[i.campaign].status \in Opened
  PROVE  /\ i.point \in ActivePoints(i.campaign)'
         /\ campaigns'[i.campaign].status \in Opened
<1>1. i.campaign \in Campaign
  BY IntakeFields
<1>. QED
  BY <1>1, GrownTables

\* A thread goes on while the tables grow and no intake is added.
LEMMA Advance ==
  ASSUME CampaignInv, TablesGrow, CampaignCovered', intakes' = intakes,
         now' = now, NEW t \in Handler, NEW s \in Session, Continue(t, s),
         SessionSound(s)'
  PROVE  CampaignInv'
<1>0. TypeOK
  BY DEF CampaignInv
<1>1. session' \in [Handler -> Session] /\ session'[t] = s
      /\ \A u \in Handler \ {t} : session'[u] = session[u]
  BY <1>0 DEF TypeOK, Continue
<1>2. TypeOK'
  BY <1>0, <1>1 DEF TypeOK, TablesGrow
<1>3. \A u \in Handler : SessionSound(session[u])'
  <2>1. ASSUME NEW u \in Handler, u # t PROVE SessionSound(session[u])'
    <3>1. PICK x \in Session : x = session[u]
      BY <1>0 DEF TypeOK
    <3>2. SessionSound(x)
      BY <3>1 DEF CampaignInv
    <3>3. SessionSound(x)'
      BY <1>0, <3>2, SoundKept
    <3>. QED
      BY <1>1, <2>1, <3>1, <3>3
  <2>2. SessionSound(session[t])'
    BY <1>1
  <2>. QED
    BY <2>1, <2>2
<1>4. BoundOnce' /\ QuotaPerUTCDay' /\ IsFiniteSet(intakes')
  BY DEF CampaignInv, BoundOnce, QuotaPerUTCDay, AtPoint
<1>5. IntakeJustified'
  <2>1. ASSUME NEW i \in intakes'
        PROVE  /\ OpensAt <= i.at /\ i.at < ClosesAt
               /\ i.point \in ActivePoints(i.campaign)'
               /\ campaigns'[i.campaign].status \in Opened
    <3>1. i \in Intake /\ i \in intakes
      BY <1>0 DEF TypeOK
    <3>2. /\ OpensAt <= i.at /\ i.at < ClosesAt
          /\ i.point \in ActivePoints(i.campaign)
          /\ campaigns[i.campaign].status \in Opened
      BY <3>1 DEF CampaignInv, IntakeJustified, Opened
    <3>. QED
      BY <1>0, <3>1, <3>2, JustifiedKept
  <2>. QED
    BY <2>1 DEF IntakeJustified, Opened
<1>. QED
  BY <1>2, <1>3, <1>4, <1>5 DEF CampaignInv

\* What was covered stays covered; only a campaign that moves has to show it.
LEMMA CoverKept ==
  ASSUME TypeOK, CampaignCovered, TablesGrow,
         \A c \in Campaign : \/ campaigns'[c] = campaigns[c]
                             \/ campaigns'[c].status = "draft"
                             \/ ActivePoints(c) # {}
  PROVE  CampaignCovered'
<1>1. ASSUME NEW c \in Campaign, campaigns'[c].status \in Opened
      PROVE  ActivePoints(c)' # {}
  <2>1. ActivePoints(c) # {}
    BY <1>1, Successors DEF CampaignCovered, Opened
  <2>. QED
    BY <2>1, GrownTables
<1>. QED
  BY <1>1 DEF CampaignCovered, Opened

LEMMA TablesStay ==
  ASSUME TypeOK, UNCHANGED <<campaigns, points>>
  PROVE  TablesGrow
BY DEF TypeOK, TablesGrow, CampaignMoves, PointMoves

-----------------------------------------------------------------------------
LEMMA CampaignInit == Init => CampaignInv
<1>. SUFFICES ASSUME Init PROVE CampaignInv
  OBVIOUS
<1>1. TypeOK
  <2>1. now \in 0..MaxTime
    BY ConstantsAssumption DEF Init, ConstantsAssumption
  <2>. QED
    BY <2>1 DEF Init, TypeOK, Session
<1>2. IsFiniteSet(intakes) /\ intakes = {}
  BY FS_EmptySet DEF Init
<1>3. \A c \in Campaign : campaigns[c].status \notin Opened
  BY DEF Init, Absent, Opened
<1>4. \A t \in Handler : SessionSound(session[t])
  BY DEF Init, Idle, SessionSound
<1>. QED
  BY <1>1, <1>2, <1>3, <1>4
     DEF CampaignInv, BoundOnce, QuotaPerUTCDay, IntakeJustified,
         CampaignCovered, Opened

\* A request has read the tables; what it will rely on is what it has read.
LEMMA ReadStep ==
  ASSUME CampaignInv, NEW t \in Handler, NEW s \in Session, Continue(t, s),
         UNCHANGED <<now, campaigns, points, intakes>>, SessionSound(s)
  PROVE  CampaignInv'
<1>1. TypeOK /\ CampaignCovered
  BY DEF CampaignInv
<1>2. TablesGrow
  BY <1>1, TablesStay
<1>3. CampaignCovered' /\ SessionSound(s)'
  BY <1>1, <1>2, SoundKept, CoverKept
<1>. QED
  BY <1>2, <1>3, Advance

LEMMA RequestStep ==
  ASSUME CampaignInv, NEW t \in Handler, Request(t)
  PROVE  CampaignInv'
<1>0. TypeOK /\ now \in Nat
  BY DEF CampaignInv, TypeOK
<1>1. ASSUME NEW c \in Campaign, CreateCampaign(t, c)
      PROVE  CampaignInv'
  <2>1. PICK s \in Session : s = [pc |-> "insert_campaign", campaign |-> c]
    BY DEF Session
  <2>2. SessionSound(s)
    BY <2>1 DEF SessionSound
  <2>. QED
    BY <1>1, <2>1, <2>2, ReadStep DEF CreateCampaign, Reads
<1>2. ASSUME NEW c \in Campaign, NEW p \in Point, AddCollectionPoint(t, c, p)
      PROVE  CampaignInv'
  <2>1. PICK s \in Session :
          s = [pc |-> "insert_point", campaign |-> c, point |-> p]
    BY DEF Session
  <2>2. SessionSound(s)
    BY <1>2, <2>1 DEF SessionSound, AddCollectionPoint, Absent
  <2>. QED
    BY <1>2, <2>1, <2>2, ReadStep DEF AddCollectionPoint, Reads
<1>3. ASSUME NEW c \in Campaign, NEW p \in Point,
             ActivateCollectionPoint(t, c, p)
      PROVE  CampaignInv'
  <2>1. points[c][p].status = "preparing" /\ points[c][p] # Absent
    BY <1>3 DEF ActivateCollectionPoint, Absent
  <2>2. points[c][p].version \in Nat
    BY <1>0, <2>1, PointKinds DEF TypeOK
  <2>. PICK v \in Nat : v = points[c][p].version + 1
    BY <2>2
  <2>3. PICK row \in PointRow : row = [status |-> "active", version |-> v]
    BY DEF PointRow
  <2>4. PICK s \in Session :
          s = [pc |-> "update_point", campaign |-> c, point |-> p,
               row |-> row]
    BY DEF Session
  <2>5. SessionSound(s)
    BY <2>1, <2>2, <2>3, <2>4 DEF SessionSound
  <2>. QED
    BY <1>3, <2>3, <2>4, <2>5, ReadStep DEF ActivateCollectionPoint, Reads
<1>4. ASSUME NEW c \in Campaign, NEW to \in CampaignStatus,
             TransitionCampaign(t, c, to)
      PROVE  CampaignInv'
  <2>1. /\ campaigns[c] # Absent /\ to \in Successor[campaigns[c].status]
        /\ to \in {"open", "review"} => ActivePoints(c) # {}
    BY <1>4 DEF TransitionCampaign
  <2>2. campaigns[c].version \in Nat /\ campaigns[c].status \in CampaignStatus
    BY <1>0, <2>1, CampaignKinds DEF TypeOK
  <2>3. ActivePoints(c) # {}
    <3>1. to = "closed" => campaigns[c].status = "review"
      BY <2>1, <2>2 DEF Successor, CampaignStatus
    <3>2. campaigns[c].status = "review" => ActivePoints(c) # {}
      BY DEF CampaignInv, CampaignCovered
    <3>3. to \in Opened
      BY <2>1, <2>2, Successors
    <3>. QED
      BY <2>1, <3>1, <3>2, <3>3 DEF Opened
  <2>. PICK v \in Nat : v = campaigns[c].version + 1
    BY <2>2
  <2>4. PICK row \in CampaignRow : row = [status |-> to, version |-> v]
    BY DEF CampaignRow
  <2>5. PICK s \in Session :
          s = [pc |-> "update_campaign", campaign |-> c, row |-> row]
    BY DEF Session
  <2>6. SessionSound(s)
    BY <2>1, <2>2, <2>3, <2>4, <2>5 DEF SessionSound
  <2>. QED
    BY <1>4, <2>4, <2>5, <2>6, ReadStep DEF TransitionCampaign, Reads
<1>5. ASSUME NEW c \in Campaign, NEW i \in Intake, i.campaign = c,
             IntakeSuggestion(t, c, i)
      PROVE  CampaignInv'
  <2>1. PICK j \in Intake : j = [i EXCEPT !.at = now]
    BY <1>0, IntakeFields
  <2>2. j.campaign = c
    BY <1>0, <1>5, <2>1, IntakeFields
  <2>3. PICK s \in Session : s = [pc |-> "check_point", intake |-> j]
    BY DEF Session
  <2>4. SessionSound(s)
    BY <1>5, <2>2, <2>3 DEF SessionSound, IntakeSuggestion
  <2>. QED
    BY <1>5, <2>1, <2>3, <2>4, ReadStep DEF IntakeSuggestion, Reads
<1>6. ASSUME NEW c \in Campaign, NEW p \in Point, NEW x \in Suggestion,
             NEW k \in Key
      PROVE  LET i == [suggestion |-> x, campaign |-> c, point |-> p,
                       key |-> k, at |-> now]
             IN  i \in Intake /\ i.campaign = c
  BY <1>0 DEF Intake
<1>7. ASSUME NEW c \in Campaign, NEW p \in Point, NEW x \in Suggestion,
             NEW k \in Key,
             IntakeSuggestion(t, c, [suggestion |-> x, campaign |-> c,
                                     point |-> p, key |-> k, at |-> now])
      PROVE  CampaignInv'
  <2>1. PICK i \in Intake : i = [suggestion |-> x, campaign |-> c,
                                 point |-> p, key |-> k, at |-> now]
    BY <1>6
  <2>. QED
    BY <1>5, <1>7, <2>1
<1>. QED
  BY <1>1, <1>2, <1>3, <1>4, <1>7 DEF Request

LEMMA CampaignTransactions ==
  ASSUME CampaignInv, NEW t \in Handler,
         InsertCampaign(t) \/ UpdateCampaign(t)
  PROVE  TablesGrow /\ CampaignInv'
<1>0. TypeOK /\ CampaignCovered /\ session[t] \in Session
      /\ SessionSound(session[t])
  BY DEF CampaignInv, TypeOK
<1>. PICK s \in Session : s = session[t]
  BY <1>0
<1>1. points' = points /\ intakes' = intakes /\ now' = now
      /\ Continue(t, Idle)
  BY DEF InsertCampaign, UpdateCampaign, Ends
<1>2. Idle \in Session /\ SessionSound(Idle)'
  BY DEF Session, Idle, SessionSound
<1>3. ASSUME NEW c \in Campaign, NEW row \in CampaignRow,
             \/ campaigns' = campaigns
             \/ /\ campaigns' = [campaigns EXCEPT ![c] = row]
                /\ \/ campaigns[c] = Absent /\ row.status = "draft"
                   \/ /\ campaigns[c] # Absent /\ ActivePoints(c) # {}
                      /\ row.version = campaigns[c].version + 1
                      /\ row.status \in Successor[campaigns[c].status]
      PROVE  TablesGrow /\ CampaignInv'
  <2>1. TablesGrow
    <3>1. CASE campaigns' = campaigns
      BY <1>0, <1>1, <3>1, TablesStay
    <3>2. CASE campaigns' = [campaigns EXCEPT ![c] = row]
      <4>1. campaigns' \in [Campaign -> CampaignRow \cup {Absent}]
            /\ campaigns'[c] = row
            /\ \A d \in Campaign \ {c} : campaigns'[d] = campaigns[d]
        BY <1>0, <3>2 DEF TypeOK
      <4>2. CampaignMoves(c)
        BY <1>3, <4>1, CampaignKinds DEF CampaignMoves
      <4>3. \A d \in Campaign \ {c} : CampaignMoves(d)
        BY <4>1 DEF CampaignMoves
      <4>. QED
        BY <1>0, <1>1, <4>1, <4>2, <4>3 DEF TablesGrow, PointMoves, TypeOK
    <3>. QED
      BY <1>3, <3>1, <3>2
  <2>2. CampaignCovered'
    <3>1. \A d \in Campaign : \/ campaigns'[d] = campaigns[d]
                              \/ campaigns'[d].status = "draft"
                              \/ ActivePoints(d) # {}
      BY <1>0, <1>3 DEF TypeOK
    <3>. QED
      BY <1>0, <2>1, <3>1, CoverKept
  <2>. QED
    BY <1>1, <1>2, <2>1, <2>2, Advance
<1>4. CASE InsertCampaign(t)
  <2>1. PICK c \in Campaign : c = s.campaign
    BY <1>4, SessionKinds DEF InsertCampaign, Ends, Pc
  <2>2. PICK row \in CampaignRow : row = [status |-> "draft", version |-> 1]
    BY DEF CampaignRow, CampaignStatus
  <2>. QED
    BY <1>3, <1>4, <2>1, <2>2 DEF InsertCampaign
<1>5. CASE UpdateCampaign(t)
  <2>1. PICK c \in Campaign, row \in CampaignRow :
          c = s.campaign /\ row = s.row
    BY <1>5, SessionKinds DEF UpdateCampaign, Ends, Pc
  <2>2. /\ campaigns[c] # Absent /\ ActivePoints(c) # {}
        /\ row.version = campaigns[c].version + 1 =>
             row.status \in Successor[campaigns[c].status]
    BY <1>0, <1>5, <2>1 DEF SessionSound, UpdateCampaign, Ends, Pc
  <2>3. campaigns' = IF campaigns[c].version + 1 = row.version
                     THEN [campaigns EXCEPT ![c] = row] ELSE campaigns
    BY <1>5, <2>1 DEF UpdateCampaign, Current
  <2>. QED
    BY <1>3, <2>2, <2>3
<1>. QED
  BY <1>4, <1>5

LEMMA PointTransactions ==
  ASSUME CampaignInv, NEW t \in Handler,
         InsertCollectionPoint(t) \/ UpdateCollectionPoint(t)
  PROVE  TablesGrow /\ CampaignInv'
<1>0. TypeOK /\ CampaignCovered /\ session[t] \in Session
      /\ SessionSound(session[t])
  BY DEF CampaignInv, TypeOK
<1>. PICK s \in Session : s = session[t]
  BY <1>0
<1>1. campaigns' = campaigns /\ intakes' = intakes /\ now' = now
      /\ Continue(t, Idle)
  BY DEF InsertCollectionPoint, UpdateCollectionPoint, Ends
<1>2. Idle \in Session /\ SessionSound(Idle)'
  BY DEF Session, Idle, SessionSound
<1>3. ASSUME NEW c \in Campaign, NEW p \in Point, NEW row \in PointRow,
             \/ points' = points
             \/ /\ points' = [points EXCEPT ![c][p] = row]
                /\ \/ points[c][p] = Absent
                   \/ /\ points[c][p].status = "preparing"
                      /\ row.status = "active"
                      /\ row.version = points[c][p].version + 1
      PROVE  TablesGrow /\ CampaignInv'
  <2>1. TablesGrow
    <3>1. CASE points' = points
      BY <1>0, <1>1, <3>1, TablesStay
    <3>2. CASE points' = [points EXCEPT ![c][p] = row]
      <4>1. points' \in [Campaign -> [Point -> PointRow \cup {Absent}]]
            /\ points'[c][p] = row
            /\ \A d \in Campaign, o \in Point :
                 d # c \/ o # p => points'[d][o] = points[d][o]
        BY <1>0, <3>2 DEF TypeOK
      <4>2. PointMoves(c, p)
        BY <1>3, <4>1, PointKinds DEF PointMoves
      <4>3. \A d \in Campaign, o \in Point : d # c \/ o # p => PointMoves(d, o)
        BY <4>1 DEF PointMoves
      <4>. QED
        BY <1>0, <1>1, <4>1, <4>2, <4>3 DEF TablesGrow, CampaignMoves, TypeOK
    <3>. QED
      BY <1>3, <3>1, <3>2
  <2>2. CampaignCovered'
    BY <1>0, <1>1, <2>1, CoverKept
  <2>. QED
    BY <1>1, <1>2, <2>1, <2>2, Advance
<1>4. CASE InsertCollectionPoint(t)
  <2>1. PICK c \in Campaign, p \in Point : c = s.campaign /\ p = s.point
    BY <1>4, SessionKinds DEF InsertCollectionPoint, Ends, Pc
  <2>2. PICK row \in PointRow : row = [status |-> "preparing", version |-> 1]
    BY DEF PointRow
  <2>. QED
    BY <1>3, <1>4, <2>1, <2>2 DEF InsertCollectionPoint
<1>5. CASE UpdateCollectionPoint(t)
  <2>1. PICK c \in Campaign, p \in Point, row \in PointRow :
          c = s.campaign /\ p = s.point /\ row = s.row
    BY <1>5, SessionKinds DEF UpdateCollectionPoint, Ends, Pc
  <2>2. /\ row.status = "active"
        /\ row.version = points[c][p].version + 1 =>
             points[c][p].status = "preparing"
    BY <1>0, <1>5, <2>1 DEF SessionSound, UpdateCollectionPoint, Ends, Pc
  <2>3. points' = IF points[c][p].version + 1 = row.version
                  THEN [points EXCEPT ![c][p] = row] ELSE points
    BY <1>5, <2>1 DEF UpdateCollectionPoint, Current
  <2>. QED
    BY <1>3, <2>2, <2>3
<1>. QED
  BY <1>4, <1>5

\* One more intake where there is room keeps every point within its quota.
LEMMA QuotaKept ==
  ASSUME IsFiniteSet(intakes), QuotaPerUTCDay, NEW i \in Intake,
         WithinQuota(i),
         intakes' = intakes \cup {i}
  PROVE  QuotaPerUTCDay'
<1>. DEFINE Day(S, j) == {k \in S : /\ k.campaign = j.campaign
                                    /\ k.point = j.point
                                    /\ UTCDay(k.at) = UTCDay(j.at)}
<1>1. \A j : {k \in AtPoint(j.campaign, j.point) :
                UTCDay(k.at) = UTCDay(j.at)} = Day(intakes, j)
  BY DEF AtPoint
<1>2. \A j : {k \in AtPoint(j.campaign, j.point) :
                UTCDay(k.at) = UTCDay(j.at)}' = Day(intakes \cup {i}, j)
  BY DEF AtPoint, UTCDay
<1>3. ASSUME NEW j \in intakes \cup {i}
      PROVE  Cardinality(Day(intakes \cup {i}, j)) <= DailyQuota
  <2>. DEFINE Same == /\ i.campaign = j.campaign /\ i.point = j.point
                     /\ UTCDay(i.at) = UTCDay(j.at)
  <2>1. CASE Same /\ i \notin intakes
    <3>1. Day(intakes \cup {i}, j) = Day(intakes, i) \cup {i}
      BY <2>1
    <3>2. IsFiniteSet(Day(intakes, i))
      BY FS_Subset
    <3>3. Cardinality(Day(intakes, i)) \in Nat
      BY <3>2, FS_CardinalityType
    <3>4. Cardinality(Day(intakes, i)) < DailyQuota
      BY <1>1 DEF WithinQuota
    <3>5. Cardinality(Day(intakes, i) \cup {i})
            = Cardinality(Day(intakes, i)) + 1
      <4>1. i \notin Day(intakes, i)
        BY <2>1
      <4>. QED
        BY <3>2, <4>1, FS_AddElement
    <3>6. DailyQuota \in Nat
      BY ConstantsAssumption DEF ConstantsAssumption
    <3>. HIDE DEF Day
    <3>. QED
      BY <3>1, <3>3, <3>4, <3>5, <3>6
  <2>2. CASE ~(Same /\ i \notin intakes)
    <3>1. Day(intakes \cup {i}, j) = Day(intakes, j) /\ j \in intakes
      BY <1>3, <2>2
    <3>2. Cardinality(Day(intakes, j)) <= DailyQuota
      BY <1>1, <3>1 DEF QuotaPerUTCDay
    <3>. QED
      BY <3>1, <3>2
  <2>. QED
    BY <2>1, <2>2
<1>. QED
  BY <1>2, <1>3 DEF QuotaPerUTCDay

\* The last check of an intake: an active point within the public window.
LEMMA CheckStep ==
  ASSUME CampaignInv, NEW t \in Handler, NEW at \in 0..MaxTime,
         CheckCollectionPoint(t, at)
  PROVE  CampaignInv'
<1>0. TypeOK /\ session[t] \in Session /\ SessionSound(session[t])
      /\ at \in Nat
  BY ConstantsAssumption DEF CampaignInv, TypeOK, ConstantsAssumption
<1>. PICK s \in Session : s = session[t]
  BY <1>0
<1>1. PICK i \in Intake : s.pc = "check_point" /\ i = s.intake
  BY <1>0, SessionKinds DEF CheckCollectionPoint, Pc
<1>2. PICK j \in Intake : j = [i EXCEPT !.at = at]
  BY <1>0, IntakeFields
<1>3. j.campaign = i.campaign /\ j.point = i.point /\ j.at = at
      /\ i.campaign \in Campaign /\ i.point \in Point
  BY <1>0, <1>2, IntakeFields
<1>4. PICK n \in Session : n = [pc |-> "insert_intake", intake |-> j]
  BY DEF Session
<1>5. /\ OpensAt <= at /\ at < ClosesAt
      /\ points[i.campaign][i.point].status = "active"
      /\ Continue(t, [pc |-> "insert_intake",
                      intake |-> [i EXCEPT !.at = at]])
      /\ UNCHANGED <<now, campaigns, points, intakes>>
  BY <1>1 DEF CheckCollectionPoint, Accepted
<1>6. campaigns[i.campaign].status \in {"open", "review", "closed"}
  BY <1>0, <1>1 DEF SessionSound
<1>7. j.point \in ActivePoints(j.campaign)
  BY <1>3, <1>5 DEF ActivePoints
<1>8. SessionSound(n)
  BY <1>3, <1>4, <1>5, <1>6, <1>7 DEF SessionSound
<1>. QED
  BY <1>2, <1>4, <1>5, <1>8, ReadStep

\* The trigger and the UNIQUE columns decide, whatever was counted before.
LEMMA IntakeStep ==
  ASSUME CampaignInv, NEW t \in Handler, InsertSuggestionIntake(t)
  PROVE  CampaignInv'
<1>0. TypeOK /\ CampaignCovered /\ IsFiniteSet(intakes)
      /\ session[t] \in Session /\ SessionSound(session[t])
  BY DEF CampaignInv, TypeOK
<1>. PICK s \in Session : s = session[t]
  BY <1>0
<1>1. PICK i \in Intake : s.pc = "insert_intake" /\ i = s.intake
  BY <1>0, SessionKinds DEF InsertSuggestionIntake, Ends, Pc
<1>2. /\ Continue(t, Idle)
      /\ UNCHANGED <<now, campaigns, points>>
      /\ \/ intakes' = intakes
         \/ Unique(i) /\ WithinQuota(i) /\ intakes' = intakes \cup {i}
  BY <1>1 DEF InsertSuggestionIntake, Ends
<1>3. CASE intakes' = intakes
  <2>1. Idle \in Session /\ SessionSound(Idle)
    BY DEF Session, Idle, SessionSound
  <2>. QED
    BY <1>2, <1>3, <2>1, ReadStep
<1>4. CASE /\ Unique(i) /\ WithinQuota(i)
           /\ intakes' = intakes \cup {i}
  <2>1. TypeOK'
    BY <1>0, <1>2, <1>4 DEF TypeOK, Continue, Session
  <2>2. IsFiniteSet(intakes')
    BY <1>0, <1>4, FS_AddElement
  <2>3. BoundOnce'
    BY <1>4 DEF CampaignInv, BoundOnce, Unique
  <2>4. QuotaPerUTCDay'
    BY <1>0, <1>4, QuotaKept DEF CampaignInv
  <2>5. CampaignCovered'
    BY <1>0, <1>2 DEF CampaignCovered, ActivePoints
  <2>6. IntakeJustified'
    BY <1>0, <1>1, <1>2, <1>4
       DEF CampaignInv, IntakeJustified, ActivePoints, SessionSound
  <2>7. ASSUME NEW u \in Handler PROVE SessionSound(session[u])'
    <3>1. PICK x \in Session : x = session'[u]
      BY <2>1 DEF TypeOK
    <3>2. SessionSound(x)
      <4>1. x = session[u] \/ x = Idle
        BY <1>0, <1>2, <3>1 DEF TypeOK, Continue
      <4>2. SessionSound(Idle)
        BY DEF Idle, SessionSound
      <4>. QED
        BY <4>1, <4>2 DEF CampaignInv
    <3>3. SessionSound(x)'
      BY <1>2, <3>2 DEF SessionSound, ActivePoints
    <3>. QED
      BY <3>1, <3>3
  <2>. QED
    BY <2>1, <2>2, <2>3, <2>4, <2>5, <2>6, <2>7 DEF CampaignInv
<1>. QED
  BY <1>2, <1>3, <1>4

-----------------------------------------------------------------------------
LEMMA TickStep ==
  ASSUME CampaignInv, Tick
  PROVE  CampaignInv'
<1>1. UNCHANGED <<campaigns, points, intakes, session>> /\ now' \in 0..MaxTime
  BY ConstantsAssumption DEF CampaignInv, TypeOK, Tick, ConstantsAssumption
<1>2. TypeOK' /\ IsFiniteSet(intakes)'
  BY <1>1 DEF CampaignInv, TypeOK
<1>3. BoundOnce' /\ QuotaPerUTCDay' /\ CampaignCovered' /\ IntakeJustified'
  BY <1>1 DEF CampaignInv, BoundOnce, QuotaPerUTCDay, CampaignCovered,
              IntakeJustified, AtPoint, ActivePoints
<1>4. \A t \in Handler : SessionSound(session[t])'
  BY <1>1 DEF CampaignInv, SessionSound, ActivePoints
<1>. QED
  BY <1>2, <1>3, <1>4 DEF CampaignInv

LEMMA StutterStep ==
  ASSUME CampaignInv, UNCHANGED vars
  PROVE  CampaignInv'
<1>1. UNCHANGED <<now, campaigns, points, intakes, session>>
  BY DEF vars
<1>. QED
  BY SMTT(30), <1>1 DEF CampaignInv, TypeOK, BoundOnce, QuotaPerUTCDay, CampaignCovered,
              IntakeJustified, SessionSound, AtPoint, ActivePoints

LEMMA AbandonStep ==
  ASSUME CampaignInv, NEW t \in Handler, Abandon(t)
  PROVE  CampaignInv'
<1>1. Idle \in Session /\ SessionSound(Idle)
  BY DEF Session, Idle, SessionSound
<1>. QED
  BY <1>1, ReadStep DEF Abandon

\* Only the four transactions that write a row of a campaign or of a point
\* touch the two tables.
LEMMA OtherSteps ==
  ASSUME CampaignInv, NEW t \in Handler,
         \/ Request(t)
         \/ \E at \in 0..MaxTime : CheckCollectionPoint(t, at)
         \/ InsertSuggestionIntake(t)
         \/ Abandon(t)
  PROVE  UNCHANGED <<campaigns, points>>
BY ZenonT(40) DEF Request, CreateCampaign, TransitionCampaign, AddCollectionPoint,
       ActivateCollectionPoint, IntakeSuggestion, Reads, CheckCollectionPoint,
       InsertSuggestionIntake, Abandon

LEMMA CampaignStep ==
  ASSUME CampaignInv, [Next]_vars
  PROVE  TablesGrow /\ CampaignInv'
<1>0. TypeOK
  BY DEF CampaignInv
<1>1. CASE Tick
  <2>1. TablesGrow
    BY <1>0, <1>1, TablesStay DEF Tick
  <2>. QED
    BY <1>1, <2>1, TickStep
<1>2. CASE UNCHANGED vars
  <2>1. TablesGrow
    BY <1>0, <1>2, TablesStay DEF vars
  <2>. QED
    BY <1>2, <2>1, StutterStep
<1>3. ASSUME NEW t \in Handler, Request(t) \/ Transaction(t) \/ Abandon(t)
      PROVE  TablesGrow /\ CampaignInv'
  <2>1. CASE \/ InsertCampaign(t)
             \/ UpdateCampaign(t)
    BY <2>1, CampaignTransactions
  <2>2. CASE \/ InsertCollectionPoint(t)
             \/ UpdateCollectionPoint(t)
    BY <2>2, PointTransactions
  <2>3. CASE \/ Request(t)
             \/ \E at \in 0..MaxTime : CheckCollectionPoint(t, at)
             \/ InsertSuggestionIntake(t)
             \/ Abandon(t)
    <3>1. TablesGrow
      BY <1>0, <2>3, OtherSteps, TablesStay
    <3>2. CampaignInv'
      BY <2>3, RequestStep, CheckStep, IntakeStep, AbandonStep
    <3>. QED
      BY <3>1, <3>2
  <2>. QED
    BY <1>3, <2>1, <2>2, <2>3 DEF Transaction
<1>. QED
  BY <1>1, <1>2, <1>3 DEF Next

\* Whatever the requests read before they write, the invariant holds
\* (civic_service.go:35-266, civic_writes.go, 0003_civic_workflow.sql).
THEOREM CampaignInvariant == Spec => []CampaignInv
<1>1. CampaignInv /\ [Next]_vars => CampaignInv'
  BY CampaignStep
<1>. QED
  BY <1>1, CampaignInit, PTL DEF Spec

\* A suggestion is bound to one campaign once, and an idempotency key stands
\* for one intake, however many requests raced for either.
THEOREM IntakesAreSound == Spec => []BoundOnce
<1>1. CampaignInv => BoundOnce
  BY DEF CampaignInv
<1>. QED
  BY <1>1, CampaignInvariant, PTL

\* No point takes in more than its quota on a UTC day, though every request
\* counts the intakes of the day before it inserts its own.
THEOREM DailyQuotaHolds == Spec => []QuotaPerUTCDay
<1>1. CampaignInv => QuotaPerUTCDay
  BY DEF CampaignInv
<1>. QED
  BY <1>1, CampaignInvariant, PTL

\* Every intake was accepted in the public window at an active point of a
\* campaign that had been opened, and only campaigns with such a point leave
\* the draft.
THEOREM IntakesAreJustified == Spec => [](IntakeJustified /\ CampaignCovered)
<1>1. CampaignInv => IntakeJustified /\ CampaignCovered
  BY DEF CampaignInv
<1>. QED
  BY <1>1, CampaignInvariant, PTL

\* A campaign moves one stage at a time and a point is activated once.
THEOREM CampaignStages == Spec => OneStageAtATime
<1>1. CampaignInv /\ [Next]_vars =>
        [/\ \A c \in Campaign :
               campaigns[c] # Absent /\ campaigns'[c] # campaigns[c]
                 => campaigns'[c].status \in Successor[campaigns[c].status]
         /\ \A c \in Campaign, p \in Point :
               points[c][p] # Absent /\ points'[c][p] # points[c][p]
                 => points[c][p].status = "preparing"]_vars
  BY CampaignStep DEF TablesGrow, CampaignMoves, PointMoves
<1>. QED
  BY <1>1, CampaignInvariant, PTL DEF Spec, OneStageAtATime

=============================================================================

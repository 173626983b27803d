-------------------------- MODULE CollectionCampaign --------------------------
(***************************************************************************)
(* Campaigns, their collection points and the suggestions taken in at them *)
(* (internal/service/civic_service.go:35-266, internal/index/civic_*.go,   *)
(* migrations/0003_civic_workflow.sql).                                    *)
(*                                                                         *)
(* A request reads, checks what it has read and then writes in one         *)
(* transaction; the session holds what it is about to write.  Rows that    *)
(* are updated carry a version that the update compares; rows that are     *)
(* only inserted are guarded by UNIQUE and, for the capacity of a point,   *)
(* by a trigger.  A campaign is known by its code, a point by its district *)
(* and name.                                                               *)
(*                                                                         *)
(* The reads of a request are one step where that makes no difference: a   *)
(* row whose version or absence the transaction tests again was unchanged  *)
(* all the while if the transaction succeeds.  An intake tests nothing of  *)
(* its campaign again, so it reads in two steps.                           *)
(***************************************************************************)
EXTENDS Naturals, FiniteSets

CONSTANTS
  Campaign,    \* codes of campaigns
  Point,       \* district and name of a collection point
  Suggestion,  \* suggestions, all of them registered
  Key,         \* idempotency keys
  Handler,     \* threads that serve requests
  DailyQuota,  \* capacity of a point
  OpensAt,     \* start of the public window
  ClosesAt,    \* end of the public window
  DayLength,   \* instants in a day
  ZoneOffset,  \* local time is this much ahead of UTC
  MaxTime      \* bound: the last instant of the clock

ASSUME ConstantsAssumption ==
  /\ DailyQuota \in Nat \ {0}
  /\ OpensAt \in Nat /\ ClosesAt \in Nat /\ OpensAt < ClosesAt
  /\ DayLength \in Nat \ {0}
  /\ ZoneOffset \in Nat
  /\ MaxTime \in Nat

VARIABLES
  now,        \* the injected clock
  campaigns,  \* table campaigns
  points,     \* table collection_points, by campaign and name
  intakes,    \* table suggestion_intakes
  session     \* what each thread is about to write

vars == <<now, campaigns, points, intakes, session>>

CampaignStatus == {"draft", "open", "review", "closed"}

\* The point statuses "paused" and "retired" are never set by the code.
CampaignRow == [status: CampaignStatus, version: Nat]
PointRow == [status: {"preparing", "active"}, version: Nat]

Intake ==
  [suggestion: Suggestion, campaign: Campaign, point: Point, key: Key, at: Nat]

Absent == [status |-> "absent"]

Idle == [pc |-> "idle"]

Session ==
  {Idle}
    \cup [pc: {"insert_campaign"}, campaign: Campaign]
    \cup [pc: {"update_campaign"}, campaign: Campaign, row: CampaignRow]
    \cup [pc: {"insert_point"}, campaign: Campaign, point: Point]
    \cup [pc: {"update_point"}, campaign: Campaign, point: Point,
          row: PointRow]
    \cup [pc: {"check_point", "insert_intake"}, intake: Intake]

Pc(t, pc) == session[t].pc = pc

Continue(t, s) == session' = [session EXCEPT ![t] = s]

\* A request has read what it needs, with no change so far.
Reads(t, s) ==
  /\ Pc(t, "idle")
  /\ Continue(t, s)
  /\ UNCHANGED <<now, campaigns, points, intakes>>

\* A transaction that writes one table, or is rolled back.
Ends(t, pc) == Pc(t, pc) /\ Continue(t, Idle) /\ UNCHANGED now

ActivePoints(c) == {p \in Point : points[c][p].status = "active"}

-----------------------------------------------------------------------------
Init ==
  /\ now = 0
  /\ campaigns = [c \in Campaign |-> Absent]
  /\ points = [c \in Campaign |-> [p \in Point |-> Absent]]
  /\ intakes = {}
  /\ session = [t \in Handler |-> Idle]

Tick ==
  /\ now < MaxTime
  /\ now' = now + 1
  /\ UNCHANGED <<campaigns, points, intakes, session>>

\* CreateCampaign: an existing code is returned; the code is UNIQUE.
CreateCampaign(t, c) ==
  /\ campaigns[c] = Absent
  /\ Reads(t, [pc |-> "insert_campaign", campaign |-> c])

InsertCampaign(t) ==
  LET c == session[t].campaign IN
  /\ Ends(t, "insert_campaign")
  /\ campaigns' = IF campaigns[c] # Absent THEN campaigns
                  ELSE [campaigns EXCEPT
                          ![c] = [status |-> "draft", version |-> 1]]
  /\ UNCHANGED <<points, intakes>>

\* AddCollectionPoint: only to a draft; campaign, district and name are UNIQUE.
AddCollectionPoint(t, c, p) ==
  /\ campaigns[c].status = "draft"
  /\ Reads(t, [pc |-> "insert_point", campaign |-> c, point |-> p])

InsertCollectionPoint(t) ==
  LET s == session[t] IN
  /\ Ends(t, "insert_point")
  /\ points' = IF points[s.campaign][s.point] # Absent THEN points
               ELSE [points EXCEPT ![s.campaign][s.point] =
                       [status |-> "preparing", version |-> 1]]
  /\ UNCHANGED <<campaigns, intakes>>

\* ActivateCollectionPoint; an active point is returned as it is.
ActivateCollectionPoint(t, c, p) ==
  /\ points[c][p].status = "preparing"
  /\ campaigns[c].status \in {"draft", "open"}
  /\ Reads(t, [pc |-> "update_point", campaign |-> c, point |-> p,
               row |-> [status |-> "active",
                        version |-> points[c][p].version + 1]])

\* A mutation of Current: WHERE id=? alone.
AnyVersion(stored, row) == TRUE

\* The WHERE clause of the updates: the version is the one that was read.
Current(stored, row) == stored.version + 1 = row.version

UpdateCollectionPoint(t) ==
  LET s == session[t] IN
  /\ Ends(t, "update_point")
  /\ points' = IF Current(points[s.campaign][s.point], s.row)
               THEN [points EXCEPT ![s.campaign][s.point] = s.row]
               ELSE points
  /\ UNCHANGED <<campaigns, intakes>>

Successor ==
  [draft |-> {"open"}, open |-> {"review"}, review |-> {"closed"},
   closed |-> {}]

\* TransitionCampaign: to open, and to review, with an active point.
TransitionCampaign(t, c, to) ==
  /\ campaigns[c] # Absent
  /\ to \in {"open", "review"} => ActivePoints(c) # {}
  /\ to \in Successor[campaigns[c].status]
  /\ Reads(t, [pc |-> "update_campaign", campaign |-> c,
               row |-> [status |-> to, version |-> campaigns[c].version + 1]])

UpdateCampaign(t) ==
  LET s == session[t] IN
  /\ Ends(t, "update_campaign")
  /\ campaigns' = IF Current(campaigns[s.campaign], s.row)
                  THEN [campaigns EXCEPT ![s.campaign] = s.row]
                  ELSE campaigns
  /\ UNCHANGED <<points, intakes>>

(***************************************************************************)
(* IntakeSuggestion binds a suggestion to a point.  The service counts the *)
(* intakes of the local day, the trigger those of the day date() gives,    *)
(* which is the day in UTC.                                                *)
(***************************************************************************)
LocalDay(time) == (time + ZoneOffset) \div DayLength

UTCDay(time) == time \div DayLength

AtPoint(c, p) == {i \in intakes : i.campaign = c /\ i.point = p}

\* An intake with the key is returned, one with the suggestion is refused.
IntakeSuggestion(t, c, i) ==
  /\ i.campaign = c
  /\ ~ \E j \in intakes : j.campaign = c /\ j.key = i.key
  /\ ~ \E j \in intakes : j.suggestion = i.suggestion
  /\ campaigns[c].status = "open"
  /\ Reads(t, [pc |-> "check_point", intake |-> [i EXCEPT !.at = now]])

\* The clock is read after the campaign and before the point.
Accepted(t, at) ==
  /\ session[t].intake.at <= at /\ at <= now
  /\ OpensAt <= at /\ at < ClosesAt

PointHasRoom(i, at) ==
  Cardinality({j \in AtPoint(i.campaign, i.point) :
                 LocalDay(j.at) = LocalDay(at)}) < DailyQuota

\* A mutation of CheckCollectionPoint: the status of the point is not tested.
CheckCapacityOnly(t, at) ==
  LET i == session[t].intake IN
  /\ Pc(t, "check_point")
  /\ Accepted(t, at)
  /\ points[i.campaign][i.point] # Absent
  /\ PointHasRoom(i, at)
  /\ Continue(t, [pc |-> "insert_intake", intake |-> [i EXCEPT !.at = at]])
  /\ UNCHANGED <<now, campaigns, points, intakes>>

\* The point is active and the local day of the intake has room.
CheckCollectionPoint(t, at) ==
  LET i == session[t].intake IN
  /\ Pc(t, "check_point")
  /\ Accepted(t, at)
  /\ points[i.campaign][i.point].status = "active"
  /\ PointHasRoom(i, at)
  /\ Continue(t, [pc |-> "insert_intake", intake |-> [i EXCEPT !.at = at]])
  /\ UNCHANGED <<now, campaigns, points, intakes>>

\* A mutation of Unique: a suggestion may be bound twice.
UniqueKey(i) == ~ \E j \in intakes : j.campaign = i.campaign /\ j.key = i.key

Unique(i) ==
  ~ \E j \in intakes :
      \/ j.suggestion = i.suggestion
      \/ j.campaign = i.campaign /\ j.key = i.key

\* A mutation of WithinQuota: there is no trigger.
NoTrigger(i) == TRUE

\* The trigger trg_intake_daily_quota.
WithinQuota(i) ==
  Cardinality({j \in AtPoint(i.campaign, i.point) :
                 UTCDay(j.at) = UTCDay(i.at)}) < DailyQuota

InsertSuggestionIntake(t) ==
  LET i == session[t].intake IN
  /\ Ends(t, "insert_intake")
  /\ intakes' = IF Unique(i) /\ WithinQuota(i) THEN intakes \cup {i}
                                               ELSE intakes
  /\ UNCHANGED <<campaigns, points>>

\* A check fails, the client is gone or the process dies: nothing is written.
Abandon(t) ==
  /\ ~Pc(t, "idle")
  /\ Continue(t, Idle)
  /\ UNCHANGED <<now, campaigns, points, intakes>>

-----------------------------------------------------------------------------
Request(t) ==
  \E c \in Campaign :
    \/ CreateCampaign(t, c)
    \/ \E to \in CampaignStatus : TransitionCampaign(t, c, to)
    \/ \E p \in Point :
         \/ AddCollectionPoint(t, c, p)
         \/ ActivateCollectionPoint(t, c, p)
         \/ \E s \in Suggestion, k \in Key :
              IntakeSuggestion(t, c, [suggestion |-> s, campaign |-> c,
                                      point |-> p, key |-> k, at |-> now])

Transaction(t) ==
  \/ InsertCampaign(t)
  \/ UpdateCampaign(t)
  \/ InsertCollectionPoint(t)
  \/ UpdateCollectionPoint(t)
  \/ \E at \in 0..MaxTime : CheckCollectionPoint(t, at)
  \/ InsertSuggestionIntake(t)

Next ==
  \/ Tick
  \/ \E t \in Handler : Request(t) \/ Transaction(t) \/ Abandon(t)

Spec == Init /\ [][Next]_vars

(***************************************************************************)
(* Safety, however the requests interleave                                 *)
(***************************************************************************)
\* The tables and the sessions hold what their columns and locals can hold.
TypeOK ==
  /\ now \in 0..MaxTime
  /\ campaigns \in [Campaign -> CampaignRow \cup {Absent}]
  /\ points \in [Campaign -> [Point -> PointRow \cup {Absent}]]
  /\ intakes \subseteq Intake
  /\ session \in [Handler -> Session]

\* A suggestion is bound to one point at most, and a key stands for one intake
\* of its campaign: repeated and overlapping requests take no second place.
BoundOnce ==
  \A i, j \in intakes :
    \/ i.suggestion = j.suggestion
    \/ i.campaign = j.campaign /\ i.key = j.key
    => i = j

\* No point takes in more than its quota on a UTC day, however many requests
\* counted before the first of them committed.
QuotaPerUTCDay ==
  \A i \in intakes :
    Cardinality({j \in AtPoint(i.campaign, i.point) :
                   UTCDay(j.at) = UTCDay(i.at)}) <= DailyQuota

\* A campaign that has left the draft has an active point, whatever was decided
\* on counts and rows read earlier.
CampaignCovered ==
  \A c \in Campaign :
    campaigns[c].status \in {"open", "review", "closed"}
      => ActivePoints(c) # {}

\* Every intake was accepted within the public window, at an active point of a
\* campaign that had been opened.
IntakeJustified ==
  \A i \in intakes :
    /\ OpensAt <= i.at /\ i.at < ClosesAt
    /\ i.point \in ActivePoints(i.campaign)
    /\ campaigns[i.campaign].status \in {"open", "review", "closed"}

\* What a session may rely on: only a row's own version can go stale.
SessionSound(s) ==
  /\ s.pc = "insert_point" => campaigns[s.campaign] # Absent
  /\ s.pc = "update_point" =>
       /\ points[s.campaign][s.point] # Absent
       /\ s.row.status = "active"
       /\ s.row.version <= points[s.campaign][s.point].version + 1
       /\ s.row.version = points[s.campaign][s.point].version + 1 =>
            points[s.campaign][s.point].status = "preparing"
  /\ s.pc = "update_campaign" =>
       /\ campaigns[s.campaign] # Absent
       /\ ActivePoints(s.campaign) # {}
       /\ s.row.version <= campaigns[s.campaign].version + 1
       /\ s.row.version = campaigns[s.campaign].version + 1 =>
            s.row.status \in Successor[campaigns[s.campaign].status]
  /\ s.pc \in {"check_point", "insert_intake"} =>
       campaigns[s.intake.campaign].status \in {"open", "review", "closed"}
  /\ s.pc = "insert_intake" =>
       /\ OpensAt <= s.intake.at /\ s.intake.at < ClosesAt
       /\ s.intake.point \in ActivePoints(s.intake.campaign)

\* The inductive invariant.
CampaignInv ==
  /\ TypeOK
  /\ IsFiniteSet(intakes)
  /\ BoundOnce
  /\ QuotaPerUTCDay
  /\ CampaignCovered
  /\ IntakeJustified
  /\ \A t \in Handler : SessionSound(session[t])

\* A campaign only ever moves to the next stage and a point is activated once,
\* however many requests read the same version.
OneStageAtATime ==
  [][/\ \A c \in Campaign :
          campaigns[c] # Absent /\ campaigns'[c] # campaigns[c]
            => campaigns'[c].status \in Successor[campaigns[c].status]
     /\ \A c \in Campaign, p \in Point :
          points[c][p] # Absent /\ points'[c][p] # points[c][p]
            => points[c][p].status = "preparing"]_vars

(***************************************************************************)
(* Properties that hold when requests do not overlap                       *)
(***************************************************************************)
\* No point takes in more than its quota on a local day, the day the service
\* counts (civic_service.go:247): "the capacity of points is backed by a
\* database constraint" (README.md:45).
QuotaPerLocalDay ==
  \A i \in intakes :
    Cardinality({j \in AtPoint(i.campaign, i.point) :
                   LocalDay(j.at) = LocalDay(i.at)}) <= DailyQuota

\* Points are added to a draft, activated in a draft or an open campaign, and
\* suggestions taken in while it is open, when the change is committed: "points
\* can only be added while campaign is draft" (civic_service.go:83).
AcceptedByCampaign ==
  [][/\ \A c \in Campaign, p \in Point :
          points'[c][p] # points[c][p] =>
            IF points[c][p] = Absent THEN campaigns[c].status = "draft"
            ELSE campaigns[c].status \in {"draft", "open"}
     /\ \A i \in intakes' \ intakes :
          campaigns[i.campaign].status = "open"]_vars

=============================================================================

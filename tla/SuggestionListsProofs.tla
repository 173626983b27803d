------------------------ MODULE SuggestionListsProofs ------------------------
(***************************************************************************)
(* Proofs about imports, the pages of a sweep and answers of several       *)
(* queries (BatchService, collectStaleItems, GetItemDetail), for any files *)
(* and importers, any sizes of pages and any number of changes and faults. *)
(*                                                                         *)
(* The invariant ListsInv relates the reads of a session to the rows they  *)
(* were made of: rows never disappear and only gain escalations; the time  *)
(* of a registration belongs to one row; and what a sweep is to collect    *)
(* keeps, in a list that loses no row, a rank at or behind the offset.     *)
(***************************************************************************)
EXTENDS SuggestionLists, SequenceTheorems, FiniteSetTheorems, WellFoundedInduction, TLAPS

(***************************************************************************)
(* The inductive invariant                                                 *)
(***************************************************************************)
ImportState ==
  [stage : {"idle", "row", "insert"}, row : Nat, success : Nat, failure : Nat,
   at : Nat, version : Nat]

SweepState ==
  [stage : {"idle", "listing", "routing"}, current : Nat, list : 1..2, offset : Nat,
   stale : SUBSET Nat]

Actions == {"register", "change", "escalate"}

ReaderState ==
  [stage : {"idle", "detail", "export"}, next : Nat \ {0}, item : Nat, level : Nat,
   escalations : Nat, audit : Seq(Actions), total : Nat, rows : Nat]

\* The types of all variables, and how far an import has come in its file.
TypeInv ==
  /\ items \subseteq Item /\ IsFiniteSet(items)
  /\ \A b \in batches : b.by \in Importer /\ b.success \in Nat /\ b.failure \in Nat
  /\ session \in [Importer -> ImportState]
  /\ \A i \in Importer :
       /\ session[i].row <= Len(File[i])
       /\ session[i].stage = "insert" => RowsLeft(i) /\ RowOf(i) \in Ref
  /\ sweep \in SweepState
  /\ reader \in ReaderState
  /\ rule \in 1..MaxRule /\ clock \in Nat
  /\ imports \in Nat /\ changes \in Nat /\ faults \in Nat

\* The clock is read once for each registration, so a time belongs to one row.
OwnTimes == \A r, q \in items : r.at = q.at => r = q

TimeInv ==
  /\ OwnTimes
  /\ \A r \in items : r.at <= clock
  /\ \A i \in Importer : session[i].stage = "insert" =>
       /\ session[i].at \in 1..clock
       /\ \A r \in items : r.at # session[i].at
       /\ \A j \in Importer \ {i} :
            session[j].stage = "insert" => session[j].at # session[i].at

\* The rows of a file up to the n-th that have a suggestion.
There(file, n) == {m \in 1..n : Exists(file[m])}

\* What an import has counted so far.
CountInv ==
  \A i \in Importer :
    /\ session[i].success + session[i].failure = session[i].row
    /\ session[i].success <= Cardinality(There(File[i], session[i].row))

Escalations(audit) == {n \in DOMAIN audit : audit[n] = "escalate"}

\* The level, the rows of escalations and the audit of a suggestion agree.
AuditInv ==
  \A r \in items : r.level = r.escalations /\ r.escalations = Cardinality(Escalations(r.audit))

Shown(audit) == Len(audit) < AuditPageSize => Cardinality(Escalations(audit)) >= reader.escalations

\* What a detail has shown so far is not newer than the row.
DetailInv ==
  reader.stage = "detail" =>
    \E r \in items :
      /\ r.at = reader.item
      /\ reader.next > 1 => reader.level <= r.level
      /\ reader.next > 2 => reader.level <= reader.escalations /\ reader.escalations <= r.escalations
      /\ reader.next > 3 => Shown(reader.audit)

\* The sweep: what it has collected are rows, and what it is to collect is collected
\* or behind the offset of a list that is not read to its end.
ToCollect(row) ==
  \/ row.at \in sweep.stale
  \/ sweep.list = 1 /\ row.status = Reevaluable[2]
  \/ /\ row.status = Reevaluable[sweep.list]
     /\ Cardinality(Newer(OfStatus(row.status), row)) >= sweep.offset

Collecting ==
  /\ steady \subseteq {row.at : row \in items}
  /\ \A row \in items : row.at \in steady =>
       row.version < sweep.current /\ row.status \in Listable
  /\ \A row \in items : row.at \in steady /\ row.status \notin thinned => ToCollect(row)

SweepInv ==
  /\ sweep.stale \subseteq {row.at : row \in items}
  /\ sweep.stage = "listing" => Collecting

ListsInv ==
  /\ TypeInv
  /\ TimeInv
  /\ RegisteredOnce
  /\ CountInv
  /\ SummariesTruthful
  /\ AuditInv
  /\ DetailInv
  /\ SweepInv

(***************************************************************************)
(* The sessions of imports                                                 *)
(***************************************************************************)

\* The session of i is replaced by one with these fields.
Becomes(i, stage, row, success, failure) ==
  /\ session'[i].stage = stage /\ session'[i].row = row
  /\ session'[i].success = success /\ session'[i].failure = failure
  /\ \A j \in Importer \ {i} : session'[j] = session[j]

\* Files have their rows in Ref or none.
LEMMA Files ==
  ASSUME ConstantsAssumption, NEW i \in Importer
  PROVE  /\ Len(File[i]) \in Nat /\ DOMAIN File[i] = 1..Len(File[i])
         /\ \A n \in 1..Len(File[i]) : File[i][n] \in Ref \cup {NoRef}
  BY DEF ConstantsAssumption

\* The counts of a session after a row.
LEMMA Counted ==
  ASSUME NEW s \in ImportState
  PROVE  /\ Failed(s) \in ImportState /\ Failed(s).stage = "row"
         /\ Failed(s).row = s.row + 1 /\ Failed(s).success = s.success
         /\ Failed(s).failure = s.failure + 1
         /\ Succeeded(s) \in ImportState /\ Succeeded(s).stage = "row"
         /\ Succeeded(s).row = s.row + 1 /\ Succeeded(s).failure = s.failure
         /\ Succeeded(s).success = s.success + 1
<1>. DEFINE r1 == [s EXCEPT !.stage = "row"]
            r2 == [r1 EXCEPT !.row = s.row + 1]
            f3 == [r2 EXCEPT !.failure = s.failure + 1]
            s3 == [r2 EXCEPT !.success = s.success + 1]
<1>1. Failed(s) = f3 /\ Succeeded(s) = s3
  BY DEF Failed, Succeeded, ImportState
<1>2. /\ r1 \in ImportState /\ r1.stage = "row" /\ r1.row = s.row
      /\ r1.success = s.success /\ r1.failure = s.failure
      /\ s.row + 1 \in Nat /\ s.success + 1 \in Nat /\ s.failure + 1 \in Nat
  BY DEF ImportState
<1>. HIDE DEF r1
<1>3. /\ r2 \in ImportState /\ r2.stage = "row" /\ r2.row = s.row + 1
      /\ r2.success = s.success /\ r2.failure = s.failure
  BY <1>2 DEF ImportState
<1>. HIDE DEF r2
<1>4. /\ f3 \in ImportState /\ f3.stage = "row" /\ f3.row = s.row + 1
      /\ f3.success = s.success /\ f3.failure = s.failure + 1
  BY <1>2, <1>3 DEF ImportState
<1>5. /\ s3 \in ImportState /\ s3.stage = "row" /\ s3.row = s.row + 1
      /\ s3.success = s.success + 1 /\ s3.failure = s.failure
  BY <1>2, <1>3 DEF ImportState
<1>. QED
  BY <1>1, <1>4, <1>5

LEMMA Cleared ==
  ASSUME NEW s \in ImportState, NEW new, new = [s EXCEPT !.at = 0, !.version = 0]
  PROVE  /\ new \in ImportState /\ new.stage = s.stage /\ new.row = s.row
         /\ new.success = s.success /\ new.failure = s.failure
<1>1. new = [stage |-> s.stage, row |-> s.row, success |-> s.success,
             failure |-> s.failure, at |-> 0, version |-> 0]
  BY DEF ImportState
<1>. QED
  BY <1>1 DEF ImportState

LEMMA IdleTyped ==
  /\ ImportIdle \in ImportState /\ ImportIdle.stage = "idle" /\ ImportIdle.row = 0
  /\ ImportIdle.success = 0 /\ ImportIdle.failure = 0
  BY DEF ImportIdle, ImportState

(***************************************************************************)
(* The rows of items                                                       *)
(***************************************************************************)

\* One field at a time.
LEMMA SetField ==
  ASSUME NEW r \in Item
  PROVE  /\ \A x \in Status : LET n == [r EXCEPT !.status = x] IN
              /\ n \in Item /\ n.status = x /\ n.ref = r.ref /\ n.at = r.at
              /\ n.version = r.version /\ n.level = r.level
              /\ n.escalations = r.escalations /\ n.audit = r.audit
         /\ \A x \in Nat : LET n == [r EXCEPT !.version = x] IN
              /\ n \in Item /\ n.version = x /\ n.ref = r.ref /\ n.at = r.at
              /\ n.status = r.status /\ n.level = r.level
              /\ n.escalations = r.escalations /\ n.audit = r.audit
         /\ \A x \in Nat : LET n == [r EXCEPT !.level = x] IN
              /\ n \in Item /\ n.level = x /\ n.ref = r.ref /\ n.at = r.at
              /\ n.status = r.status /\ n.version = r.version
              /\ n.escalations = r.escalations /\ n.audit = r.audit
         /\ \A x \in Nat : LET n == [r EXCEPT !.escalations = x] IN
              /\ n \in Item /\ n.escalations = x /\ n.ref = r.ref /\ n.at = r.at
              /\ n.status = r.status /\ n.version = r.version
              /\ n.level = r.level /\ n.audit = r.audit
         /\ \A x \in Seq(Actions) : LET n == [r EXCEPT !.audit = x] IN
              /\ n \in Item /\ n.audit = x /\ n.ref = r.ref /\ n.at = r.at
              /\ n.status = r.status /\ n.version = r.version
              /\ n.level = r.level /\ n.escalations = r.escalations
  BY DEF Item, Actions

LEMMA ItemTyped ==
  ASSUME NEW r \in Item
  PROVE  /\ r.ref \in Ref /\ r.at \in Nat /\ r.at # 0 /\ r.status \in Status /\ r.version \in Nat
         /\ r.level \in Nat /\ r.escalations \in Nat /\ r.audit \in Seq(Actions)
         /\ \A a \in Actions : Append(r.audit, a) \in Seq(Actions)
<1>1. /\ r.ref \in Ref /\ r.at \in Nat /\ r.at # 0 /\ r.status \in Status /\ r.version \in Nat
      /\ r.level \in Nat /\ r.escalations \in Nat /\ r.audit \in Seq(Actions)
  BY DEF Item, Actions
<1>. QED
  BY <1>1

\* An entry of the audit that is no escalation, and one that is.
LEMMA AuditGrows ==
  ASSUME NEW audit \in Seq(Actions), NEW a \in Actions
  PROVE  /\ IsFiniteSet(Escalations(audit)) /\ Cardinality(Escalations(audit)) \in Nat
         /\ a # "escalate" => Escalations(Append(audit, a)) = Escalations(audit)
         /\ a = "escalate" =>
              Cardinality(Escalations(Append(audit, a))) = Cardinality(Escalations(audit)) + 1
<1>1. /\ DOMAIN audit = 1..Len(audit) /\ Len(audit) \in Nat
      /\ DOMAIN Append(audit, a) = 1..(Len(audit) + 1)
      /\ \A n \in 1..Len(audit) : Append(audit, a)[n] = audit[n]
      /\ Append(audit, a)[Len(audit) + 1] = a
  OBVIOUS
<1>2. Escalations(audit) \subseteq 1..Len(audit)
  BY <1>1 DEF Escalations
<1>3. IsFiniteSet(Escalations(audit)) /\ Cardinality(Escalations(audit)) \in Nat
  <2>1. PICK n \in Nat : n = Len(audit)
    BY <1>1
  <2>2. IsFiniteSet(1..n)
    BY FS_Interval
  <2>3. Escalations(audit) \subseteq 1..n
    BY <1>2, <2>1
  <2>4. IsFiniteSet(Escalations(audit))
    BY <2>2, <2>3, FS_Subset
  <2>. QED
    BY <2>4, FS_CardinalityType
<1>4. a # "escalate" => Escalations(Append(audit, a)) = Escalations(audit)
  BY <1>1 DEF Escalations
<1>5. a = "escalate" => Escalations(Append(audit, a)) = Escalations(audit) \cup {Len(audit) + 1}
  BY <1>1 DEF Escalations
<1>6. Len(audit) + 1 \notin Escalations(audit)
  BY <1>1, <1>2
<1>. QED
  BY <1>3, <1>4, <1>5, <1>6, FS_AddElement

Agrees(r) == r.level = r.escalations /\ r.escalations = Cardinality(Escalations(r.audit))

\* A row becomes a later state of itself.
Later(row, new) ==
  /\ new \in Item /\ new.ref = row.ref /\ new.at = row.at
  /\ row.level <= new.level /\ row.escalations <= new.escalations
  /\ Agrees(row) => Agrees(new)

LEMMA RequestDoes ==
  ASSUME NEW row \in Item, NEW to \in Status, NEW new,
         new = [row EXCEPT !.status = to, !.audit = Append(@, "change")]
  PROVE  Later(row, new) /\ new.version = row.version /\ new.status = to
<1>. DEFINE r1 == [row EXCEPT !.status = to]
            r2 == [r1 EXCEPT !.audit = Append(row.audit, "change")]
<1>1. new = r2
  BY DEF Item
<1>2. Append(row.audit, "change") \in Seq(Actions)
  BY ItemTyped DEF Actions
<1>3. /\ r1 \in Item /\ r1.status = to /\ r1.ref = row.ref /\ r1.at = row.at
      /\ r1.version = row.version /\ r1.level = row.level
      /\ r1.escalations = row.escalations /\ r1.audit = row.audit
  BY SetField
<1>. HIDE DEF r1
<1>4. /\ r2 \in Item /\ r2.status = to /\ r2.ref = row.ref /\ r2.at = row.at
      /\ r2.version = row.version /\ r2.level = row.level
      /\ r2.escalations = row.escalations /\ r2.audit = Append(row.audit, "change")
  BY <1>2, <1>3, SetField
<1>5. Escalations(Append(row.audit, "change")) = Escalations(row.audit)
  BY AuditGrows, ItemTyped DEF Actions
<1>. HIDE DEF r2
<1>6. row.level <= new.level /\ row.escalations <= new.escalations
  BY <1>1, <1>4, ItemTyped
<1>7. Agrees(row) => Agrees(new)
  BY <1>1, <1>4, <1>5 DEF Agrees
<1>. QED
  BY <1>1, <1>4, <1>6, <1>7 DEF Later

LEMMA RouteDoes ==
  ASSUME NEW row \in Item, NEW version \in Nat, NEW new,
         new = [row EXCEPT !.status = "adjudicated", !.version = version,
                           !.audit = Append(@, "change")]
  PROVE  Later(row, new) /\ new.status = "adjudicated"
<1>. DEFINE r1 == [row EXCEPT !.status = "adjudicated"]
            r2 == [r1 EXCEPT !.version = version]
            r3 == [r2 EXCEPT !.audit = Append(row.audit, "change")]
<1>1. new = r3
  BY DEF Item
<1>2. Append(row.audit, "change") \in Seq(Actions)
  BY ItemTyped DEF Actions
<1>3. /\ r1 \in Item /\ r1.status = "adjudicated" /\ r1.ref = row.ref /\ r1.at = row.at
      /\ r1.level = row.level /\ r1.escalations = row.escalations /\ r1.audit = row.audit
  BY SetField DEF Status
<1>. HIDE DEF r1
<1>4. /\ r2 \in Item /\ r2.status = "adjudicated" /\ r2.ref = row.ref /\ r2.at = row.at
      /\ r2.level = row.level /\ r2.escalations = row.escalations /\ r2.audit = row.audit
  BY <1>3, SetField
<1>. HIDE DEF r2
<1>5. /\ r3 \in Item /\ r3.status = "adjudicated" /\ r3.ref = row.ref /\ r3.at = row.at
      /\ r3.level = row.level /\ r3.escalations = row.escalations
      /\ r3.audit = Append(row.audit, "change")
  BY <1>2, <1>4, SetField
<1>6. Escalations(Append(row.audit, "change")) = Escalations(row.audit)
  BY AuditGrows, ItemTyped DEF Actions
<1>. HIDE DEF r3
<1>7. row.level <= new.level /\ row.escalations <= new.escalations
  BY <1>1, <1>5, ItemTyped
<1>8. Agrees(row) => Agrees(new)
  BY <1>1, <1>5, <1>6 DEF Agrees
<1>. QED
  BY <1>1, <1>5, <1>7, <1>8 DEF Later

LEMMA EscalateDoes ==
  ASSUME NEW row \in Item, NEW new,
         new = [row EXCEPT !.status = "escalated", !.level = @ + 1,
                           !.escalations = @ + 1, !.audit = Append(@, "escalate")]
  PROVE  Later(row, new) /\ new.version = row.version /\ new.status = "escalated"
<1>. DEFINE r1 == [row EXCEPT !.status = "escalated"]
            r2 == [r1 EXCEPT !.level = row.level + 1]
            r3 == [r2 EXCEPT !.escalations = row.escalations + 1]
            r4 == [r3 EXCEPT !.audit = Append(row.audit, "escalate")]
<1>1. new = r4
  BY DEF Item
<1>2. /\ Append(row.audit, "escalate") \in Seq(Actions)
      /\ row.level \in Nat /\ row.escalations \in Nat
      /\ row.level + 1 \in Nat /\ row.escalations + 1 \in Nat
  BY ItemTyped DEF Actions
<1>3. /\ r1 \in Item /\ r1.status = "escalated" /\ r1.ref = row.ref /\ r1.at = row.at
      /\ r1.version = row.version /\ r1.escalations = row.escalations /\ r1.audit = row.audit
  BY SetField DEF Status
<1>. HIDE DEF r1
<1>4. /\ r2 \in Item /\ r2.status = "escalated" /\ r2.ref = row.ref /\ r2.at = row.at
      /\ r2.version = row.version /\ r2.level = row.level + 1 /\ r2.audit = row.audit
  BY <1>2, <1>3, SetField
<1>. HIDE DEF r2
<1>5. /\ r3 \in Item /\ r3.status = "escalated" /\ r3.ref = row.ref /\ r3.at = row.at
      /\ r3.version = row.version /\ r3.level = row.level + 1
      /\ r3.escalations = row.escalations + 1
  BY <1>2, <1>4, SetField
<1>. HIDE DEF r3
<1>6. /\ r4 \in Item /\ r4.status = "escalated" /\ r4.ref = row.ref /\ r4.at = row.at
      /\ r4.version = row.version /\ r4.level = row.level + 1
      /\ r4.escalations = row.escalations + 1 /\ r4.audit = Append(row.audit, "escalate")
  BY ZenonT(40), <1>2, <1>5, SetField
<1>7. Cardinality(Escalations(Append(row.audit, "escalate")))
        = Cardinality(Escalations(row.audit)) + 1
  BY AuditGrows, ItemTyped DEF Actions
<1>. HIDE DEF r4
<1>8. row.level <= new.level /\ row.escalations <= new.escalations
  BY <1>1, <1>2, <1>6
<1>9. Agrees(row) => Agrees(new)
  BY <1>1, <1>6, <1>7 DEF Agrees
<1>. QED
  BY <1>1, <1>6, <1>8, <1>9 DEF Later

(***************************************************************************)
(* The order of a list                                                     *)
(***************************************************************************)

\* A non-empty set of numbers has a least element, and a bounded one a greatest.
LEMMA Least ==
  ASSUME NEW S \in SUBSET Nat, S # {}
  PROVE  \E m \in S : \A x \in S : m <= x
<1>. DEFINE Below(x) == 0 .. x
            R == StrictSubsetOrdering(Nat)
            T == {Below(x) : x \in S}
<1>1. IsWellFoundedOn(R, FiniteSubsetsOf(Nat))
  BY FS_StrictSubsetOrderingWellFounded
<1>2. \A x \in S : Below(x) \in FiniteSubsetsOf(Nat)
  <2>1. SUFFICES ASSUME NEW x \in S PROVE Below(x) \in FiniteSubsetsOf(Nat)
    OBVIOUS
  <2>2. IsFiniteSet(Below(x)) /\ Below(x) \in SUBSET Nat
    BY FS_Interval
  <2>. HIDE DEF Below
  <2>. QED
    BY <2>2 DEF FiniteSubsetsOf
<1>3. T # {} /\ T \subseteq FiniteSubsetsOf(Nat)
  <2>. HIDE DEF Below
  <2>. QED
    BY <1>2
<1>4. \A x, y \in S : x < y => <<Below(x), Below(y)>> \in R
  <2>1. SUFFICES ASSUME NEW x \in S, NEW y \in S, x < y
                 PROVE  <<Below(x), Below(y)>> \in R
    OBVIOUS
  <2>2. Below(x) \subseteq Below(y) /\ y \in Below(y) /\ y \notin Below(x)
    BY <2>1
  <2>3. Below(x) \in SUBSET Nat /\ Below(y) \in SUBSET Nat /\ Below(x) # Below(y)
    BY <2>2
  <2>. HIDE DEF Below
  <2>. QED
    BY <2>2, <2>3 DEF StrictSubsetOrdering
<1>5. PICK m \in S : \A y \in T : ~ (<<y, Below(m)>> \in R)
  <2>. HIDE DEF R
  <2>1. PICK z \in T : \A y \in T : ~ (<<y, z>> \in R)
    BY <1>1, <1>3, WFMin, Zenon
  <2>. QED
    BY <2>1
<1>6. \A x \in S : ~(x < m)
  <2>. HIDE DEF R
  <2>. QED
    BY <1>4, <1>5
<1>. QED
  BY <1>6

LEMMA Greatest ==
  ASSUME NEW S \in SUBSET Nat, S # {}, NEW b \in Nat, \A x \in S : x <= b
  PROVE  \E m \in S : \A x \in S : x <= m
<1>. DEFINE U == {u \in Nat : \A x \in S : x <= u}
<1>1. PICK u \in U : \A v \in U : u <= v
  BY Least
<1>2. u \in S
  <2>1. SUFFICES ASSUME u \notin S PROVE FALSE
    OBVIOUS
  <2>2. PICK z \in S : TRUE
    OBVIOUS
  <2>3. u # 0 /\ \A x \in S : x <= u - 1
    BY <2>1, <2>2
  <2>4. u - 1 \in U
    BY <2>3
  <2>. QED
    BY <1>1, <2>4
<1>. QED
  BY <1>2

\* Rows of a list: finitely many, read at different times before the clock.
Listed(S, bound) ==
  /\ IsFiniteSet(S) /\ bound \in Nat
  /\ \A r \in S : r.at \in Nat /\ r.at <= bound
  /\ \A r, q \in S : r.at = q.at => r = q

Rank(S, row) == Cardinality(Newer(S, row))

\* A subset of a list has an oldest and a newest row.
LEMMA Oldest ==
  ASSUME NEW S, NEW bound, Listed(S, bound), NEW T \in SUBSET S, T # {}
  PROVE  \E b \in T : \A r \in T : b.at <= r.at
<1>. DEFINE times == {r.at : r \in T}
<1>1. times \in SUBSET Nat /\ times # {}
  BY DEF Listed
<1>2. PICK m \in times : \A x \in times : m <= x
  BY <1>1, Least
<1>. QED
  BY <1>2

LEMMA Newest ==
  ASSUME NEW S, NEW bound, Listed(S, bound), NEW T \in SUBSET S, T # {}
  PROVE  \E b \in T : \A r \in T : r.at <= b.at
<1>. DEFINE times == {r.at : r \in T}
<1>1. times \in SUBSET Nat /\ times # {} /\ bound \in Nat /\ \A x \in times : x <= bound
  BY DEF Listed
<1>2. PICK m \in times : \A x \in times : x <= m
  BY <1>1, Greatest
<1>. QED
  BY <1>2

LEMMA RankTyped ==
  ASSUME NEW S, IsFiniteSet(S), NEW row
  PROVE  IsFiniteSet(Newer(S, row)) /\ Rank(S, row) \in Nat
<1>1. Newer(S, row) \in SUBSET S
  BY DEF Newer
<1>. QED
  BY <1>1, FS_Subset, FS_CardinalityType DEF Rank

\* A newer row has a lower rank.
LEMMA NewerRank ==
  ASSUME NEW S, NEW bound, Listed(S, bound), NEW r \in S, NEW q \in S, r.at > q.at
  PROVE  Rank(S, r) < Rank(S, q)
<1>1. Newer(S, r) \in SUBSET Newer(S, q) /\ r \in Newer(S, q) /\ r \notin Newer(S, r)
  BY DEF Newer, Listed
<1>2. IsFiniteSet(Newer(S, q)) /\ Rank(S, q) \in Nat /\ Rank(S, r) \in Nat
  BY RankTyped DEF Listed
<1>3. Rank(S, r) <= Rank(S, q) /\ Rank(S, r) # Rank(S, q)
  BY <1>1, <1>2, FS_Subset DEF Rank
<1>. QED
  BY <1>2, <1>3

\* The rows before an offset.
Before(S, n) == {r \in S : Rank(S, r) < n}

LEMMA BeforeFew ==
  ASSUME NEW S, NEW bound, Listed(S, bound), NEW n \in Nat
  PROVE  /\ IsFiniteSet(Before(S, n)) /\ Cardinality(Before(S, n)) \in Nat
         /\ Cardinality(Before(S, n)) <= n
<1>1. Before(S, n) \in SUBSET S
  BY DEF Before
<1>2. IsFiniteSet(Before(S, n)) /\ Cardinality(Before(S, n)) \in Nat
  BY <1>1, FS_Subset, FS_CardinalityType DEF Listed
<1>3. CASE Before(S, n) = {}
  BY <1>3, FS_EmptySet
<1>4. CASE Before(S, n) # {}
  <2>1. PICK b \in Before(S, n) : \A r \in Before(S, n) : b.at <= r.at
    BY <1>1, <1>4, Oldest
  <2>2. Before(S, n) \ {b} \in SUBSET Newer(S, b)
    BY <1>1, <2>1 DEF Newer, Listed
  <2>3. IsFiniteSet(Newer(S, b)) /\ Rank(S, b) \in Nat /\ Rank(S, b) < n
    BY <1>1, <2>1, RankTyped DEF Listed, Before
  <2>4. Cardinality(Before(S, n) \ {b}) <= Rank(S, b)
    BY <2>2, <2>3, FS_Subset DEF Rank
  <2>5. Cardinality(Before(S, n) \ {b}) = Cardinality(Before(S, n)) - 1
    BY <1>2, <2>1, FS_RemoveElement
  <2>. QED
    BY <1>2, <2>3, <2>4, <2>5
<1>. QED
  BY <1>2, <1>3, <1>4

LEMMA BeforeFull ==
  ASSUME NEW S, NEW bound, Listed(S, bound), NEW n \in Nat,
         NEW row \in S, Rank(S, row) >= n
  PROVE  Cardinality(Before(S, n)) >= n
<1>1. PICK q \in S \ Before(S, n) : \A r \in S \ Before(S, n) : r.at <= q.at
  <2>1. row \in S \ Before(S, n) /\ S \ Before(S, n) \in SUBSET S
    BY RankTyped DEF Before, Listed
  <2>. QED
    BY <2>1, Newest
<1>2. Rank(S, q) >= n
  BY <1>1, RankTyped DEF Before, Listed
<1>3. \A r \in Newer(S, q) : r \in Before(S, n)
  BY <1>1 DEF Newer, Listed
<1>4. Newer(S, q) \in SUBSET Before(S, n) /\ IsFiniteSet(Before(S, n))
      /\ Cardinality(Before(S, n)) \in Nat
  BY <1>3, BeforeFew
<1>5. Rank(S, q) <= Cardinality(Before(S, n)) /\ Rank(S, q) \in Nat
  BY <1>4, FS_Subset, RankTyped DEF Rank, Listed
<1>. QED
  BY <1>2, <1>4, <1>5

Rows(S, offset, size) == {r \in S : Rank(S, r) \in offset .. (offset + size - 1)}

\* A page is full when a row of the list comes after it.
LEMMA PageFull ==
  ASSUME NEW S, NEW bound, Listed(S, bound), NEW offset \in Nat, NEW size \in Nat,
         NEW row \in S, Rank(S, row) >= offset + size
  PROVE  Cardinality(Rows(S, offset, size)) >= size
<1>. DEFINE page == Rows(S, offset, size)
<1>1. PICK n \in Nat : n = offset + size
  OBVIOUS
<1>2. \A r \in S : Rank(S, r) \in Nat
  BY RankTyped DEF Listed
<1>3. page = Before(S, n) \ Before(S, offset)
  BY <1>1, <1>2 DEF Before, Rows
<1>4. Before(S, offset) \in SUBSET Before(S, n)
  BY <1>1, <1>2 DEF Before
<1>. HIDE DEF page
<1>5. /\ IsFiniteSet(Before(S, n)) /\ Cardinality(Before(S, n)) \in Nat
      /\ Cardinality(Before(S, n)) >= n
      /\ IsFiniteSet(Before(S, offset)) /\ Cardinality(Before(S, offset)) \in Nat
      /\ Cardinality(Before(S, offset)) <= offset
  BY <1>1, BeforeFew, BeforeFull
<1>6. Before(S, n) \cap Before(S, offset) = Before(S, offset)
  BY <1>4
<1>7. Cardinality(page) = Cardinality(Before(S, n)) - Cardinality(Before(S, offset))
  BY ZenonT(40), <1>3, <1>5, <1>6, FS_Difference
<1>8. Cardinality(page) >= size
  <2>1. PICK a \in Nat, b \in Nat : a = Cardinality(Before(S, n)) /\ b = Cardinality(Before(S, offset))
    BY <1>5
  <2>2. Cardinality(page) = a - b /\ a >= offset + size /\ b <= offset
    BY <1>1, <1>5, <1>7, <2>1
  <2>. QED
    BY <2>2
<1>. QED
  BY <1>8 DEF page

\* Ranks do not fall when a list gains rows.
LEMMA RankGrows ==
  ASSUME NEW S, NEW T, IsFiniteSet(T), S \subseteq T, NEW row
  PROVE  Rank(S, row) <= Rank(T, row)
<1>1. Newer(S, row) \in SUBSET Newer(T, row)
  BY DEF Newer
<1>. QED
  BY <1>1, RankTyped, FS_Subset DEF Rank

\* Ranks stay when a row is replaced by one of the same time.
LEMMA RankSwapped ==
  ASSUME NEW S, IsFiniteSet(S), NEW row \in S, NEW new, new.at = row.at,
         new \notin S \ {row}, NEW q, NEW p, q.at = p.at
  PROVE  Rank((S \ {row}) \cup {new}, p) = Rank(S, q)
<1>. DEFINE T == (S \ {row}) \cup {new}
<1>1. CASE row.at > q.at
  <2>1. Newer(T, p) = (Newer(S, q) \ {row}) \cup {new} /\ row \in Newer(S, q)
    BY <1>1 DEF Newer
  <2>2. new \notin Newer(S, q) \ {row}
    BY DEF Newer
  <2>. HIDE DEF T
  <2>3. IsFiniteSet(Newer(S, q)) /\ Cardinality(Newer(S, q)) \in Nat
    BY RankTyped DEF Rank
  <2>4. /\ IsFiniteSet(Newer(S, q) \ {row})
        /\ Cardinality(Newer(S, q) \ {row}) = Cardinality(Newer(S, q)) - 1
    BY <2>1, <2>3, FS_RemoveElement
  <2>5. Cardinality((Newer(S, q) \ {row}) \cup {new}) = Cardinality(Newer(S, q) \ {row}) + 1
    BY <2>2, <2>4, FS_AddElement
  <2>6. Rank(T, p) = Rank(S, q)
    BY <2>1, <2>3, <2>4, <2>5 DEF Rank
  <2>. QED
    BY <2>6 DEF T
<1>2. CASE ~(row.at > q.at)
  <2>1. Newer(T, p) = Newer(S, q)
    BY <1>2 DEF Newer
  <2>. QED
    BY <2>1 DEF Rank
<1>. QED
  BY <1>1, <1>2

(***************************************************************************)
(* Steps of the rows                                                       *)
(***************************************************************************)

\* A row is still there, with at least its escalations.
Kept(r, q) ==
  q.ref = r.ref /\ q.at = r.at /\ r.level <= q.level /\ r.escalations <= q.escalations

Swaps(row, new) == Later(row, new) /\ items' = (items \ {row}) \cup {new}

Adds(new) ==
  /\ new \in Item /\ Agrees(new) /\ items' = items \cup {new}
  /\ \A r \in items : r.ref # new.ref /\ r.at # new.at

\* What holds of the rows by themselves.
RowsInv == items \subseteq Item /\ IsFiniteSet(items) /\ OwnTimes /\ RegisteredOnce /\ AuditInv

RowsKept ==
  /\ \A r \in items : \E q \in items' : Kept(r, q)
  /\ {r.at : r \in items} \subseteq {q.at : q \in items'}

LEMMA SwapSteps ==
  ASSUME RowsInv, NEW row \in items, NEW new, Swaps(row, new)
  PROVE  RowsInv' /\ RowsKept /\ {q.at : q \in items'} \subseteq {r.at : r \in items}
<1>1. /\ new \in Item /\ new.ref = row.ref /\ new.at = row.at /\ row \in Item
      /\ items' = (items \ {row}) \cup {new}
  BY DEF Swaps, Later, RowsInv
<1>2. items' \subseteq Item /\ IsFiniteSet(items')
  <2>1. IsFiniteSet(items \ {row})
    BY FS_RemoveElement DEF RowsInv
  <2>. QED
    BY <1>1, <2>1, FS_AddElement DEF RowsInv
<1>3. OwnTimes'
  BY <1>1 DEF RowsInv, OwnTimes
<1>4. RegisteredOnce'
  BY <1>1 DEF RowsInv, RegisteredOnce
<1>5. AuditInv'
  BY <1>1 DEF RowsInv, AuditInv, Swaps, Later, Agrees
<1>6. \A r \in items : \E q \in items' : Kept(r, q)
  <2>1. SUFFICES ASSUME NEW r \in items PROVE \E q \in items' : Kept(r, q)
    OBVIOUS
  <2>2. CASE r = row
    BY <1>1, <2>2 DEF Kept, Swaps, Later
  <2>3. CASE r # row
    <3>1. r \in items' /\ r.level \in Nat /\ r.escalations \in Nat
      BY <1>1, <2>3, ItemTyped DEF RowsInv
    <3>. QED
      BY <3>1 DEF Kept
  <2>. QED
    BY <2>2, <2>3
<1>7. {r.at : r \in items} = {q.at : q \in items'}
  BY <1>1
<1>. QED
  BY <1>2, <1>3, <1>4, <1>5, <1>6, <1>7 DEF RowsInv, RowsKept

LEMMA AddSteps ==
  ASSUME RowsInv, NEW new, Adds(new)
  PROVE  RowsInv' /\ RowsKept /\ {q.at : q \in items'} = {r.at : r \in items} \cup {new.at}
<1>1. items' \subseteq Item /\ IsFiniteSet(items')
  BY FS_AddElement DEF RowsInv, Adds
<1>2. OwnTimes'
  BY DEF RowsInv, OwnTimes, Adds
<1>3. RegisteredOnce'
  BY DEF RowsInv, RegisteredOnce, Adds
<1>4. AuditInv'
  BY DEF RowsInv, AuditInv, Adds, Agrees
<1>5. \A r \in items : r \in items' /\ Kept(r, r)
  BY ItemTyped DEF Kept, RowsInv, Adds
<1>6. {q.at : q \in items'} = {r.at : r \in items} \cup {new.at}
  BY DEF Adds
<1>. QED
  BY <1>1, <1>2, <1>3, <1>4, <1>5, <1>6 DEF RowsInv, RowsKept

LEMMA StaySteps ==
  ASSUME RowsInv, UNCHANGED items
  PROVE  RowsInv' /\ RowsKept
<1>1. \A r \in items : r \in items' /\ Kept(r, r)
  BY ItemTyped DEF Kept, RowsInv
<1>. QED
  BY <1>1 DEF RowsInv, RowsKept, OwnTimes, RegisteredOnce, AuditInv

\* The rows of a file that have a suggestion, which it keeps.
LEMMA ThereTyped ==
  ASSUME NEW file, NEW n \in Nat
  PROVE  IsFiniteSet(There(file, n)) /\ Cardinality(There(file, n)) \in Nat
<1>1. There(file, n) \in SUBSET (1..n) /\ IsFiniteSet(1..n)
  BY FS_Interval DEF There
<1>. QED
  BY <1>1, FS_Subset, FS_CardinalityType

LEMMA ThereStays ==
  ASSUME RowsKept, NEW file, NEW n \in Nat, UNCHANGED file
  PROVE  /\ There(file, n) \in SUBSET There(file, n)'
         /\ IsFiniteSet(There(file, n)') /\ Cardinality(There(file, n)') \in Nat
         /\ Cardinality(There(file, n)) \in Nat
         /\ Cardinality(There(file, n)) <= Cardinality(There(file, n)')
<1>1. There(file, n) \in SUBSET There(file, n)'
  BY DEF RowsKept, Kept, There, Exists
<1>2. There(file, n)' \in SUBSET (1..n) /\ IsFiniteSet(1..n)
  BY FS_Interval DEF There
<1>3. IsFiniteSet(There(file, n)') /\ Cardinality(There(file, n)') \in Nat
  BY <1>2, FS_Subset, FS_CardinalityType
<1>4. Cardinality(There(file, n)) <= Cardinality(There(file, n)')
  BY <1>1, <1>3, FS_Subset
<1>. QED
  BY <1>1, <1>3, <1>4, ThereTyped

\* An import that does not count stays truthful.
LEMMA CountsKept ==
  ASSUME ConstantsAssumption, TypeInv, CountInv, RowsKept, NEW i \in Importer,
         /\ session'[i].row = session[i].row
         /\ session'[i].success = session[i].success
         /\ session'[i].failure = session[i].failure
  PROVE  /\ session'[i].success + session'[i].failure = session'[i].row
         /\ session'[i].success <= Cardinality(There(File[i], session[i].row)')
<1>1. /\ session[i].row \in Nat /\ session[i].success \in Nat
      /\ session[i].success + session[i].failure = session[i].row
      /\ session[i].success <= Cardinality(There(File[i], session[i].row))
  BY DEF TypeInv, ImportState, CountInv
<1>2. PICK n \in Nat : n = session[i].row
  BY <1>1
<1>3. /\ Cardinality(There(File[i], n)) <= Cardinality(There(File[i], n)')
      /\ Cardinality(There(File[i], n)) \in Nat /\ Cardinality(There(File[i], n)') \in Nat
  BY ThereStays
<1>4. There(File[i], n)' = There(File[i], session[i].row)'
  BY <1>2
<1>5. session[i].success <= Cardinality(There(File[i], n))
  BY <1>1, <1>2
<1>. QED
  BY <1>1, <1>3, <1>4, <1>5

(***************************************************************************)
(* Steps of an import                                                      *)
(***************************************************************************)

\* What the others see of any step of an import.
Alone(i) ==
  /\ session' \in [Importer -> ImportState]
  /\ \A j \in Importer \ {i} : session'[j] = session[j]
  /\ UNCHANGED <<sweep, reader, rule, changes, ghosts>>
  /\ imports' \in Nat /\ faults' \in Nat

\* The import begins or is given up.
Resets(i) ==
  /\ session'[i].stage \in {"row", "idle"} /\ session'[i].row = 0
  /\ session'[i].success = 0 /\ session'[i].failure = 0
  /\ UNCHANGED <<items, batches, clock>>

\* A row is dealt with; the first case also registers it.
Fails(i) ==
  /\ RowsLeft(i)
  /\ session'[i].stage = "row" /\ session'[i].row = session[i].row + 1
  /\ session'[i].success = session[i].success
  /\ session'[i].failure = session[i].failure + 1
  /\ UNCHANGED <<items, batches, clock>>

Succeeds(i) ==
  /\ RowsLeft(i) /\ \E q \in items' : q.ref = RowOf(i)
  /\ session'[i].stage = "row" /\ session'[i].row = session[i].row + 1
  /\ session'[i].success = session[i].success + 1
  /\ session'[i].failure = session[i].failure
  /\ UNCHANGED <<batches, clock>>

Registers(i) ==
  /\ session[i].stage = "insert"
  /\ \E new : Adds(new) /\ new.at = session[i].at

\* The row is looked up, and will be inserted with the time of now.
Reads(i) ==
  /\ RowsLeft(i) /\ RowOf(i) \in Ref
  /\ session'[i].stage = "insert" /\ session'[i].row = session[i].row
  /\ session'[i].success = session[i].success
  /\ session'[i].failure = session[i].failure
  /\ session'[i].at = clock + 1 /\ clock' = clock + 1
  /\ UNCHANGED <<items, batches>>

Saves(i) ==
  /\ ~RowsLeft(i) /\ session'[i].stage = "idle" /\ session'[i].row = 0
  /\ session'[i].success = 0 /\ session'[i].failure = 0
  /\ batches' = batches \cup
       {[by |-> i, success |-> session[i].success, failure |-> session[i].failure]}
  /\ UNCHANGED <<items, clock>>

ImportDoes(i) ==
  /\ Alone(i)
  /\ \/ Resets(i) \/ Fails(i) \/ Reads(i) \/ Saves(i)
     \/ Succeeds(i) /\ (Registers(i) \/ UNCHANGED items)

\* The row an import deals with.
LEMMA RowOfRead ==
  ASSUME ConstantsAssumption, TypeInv, NEW i \in Importer
  PROVE  /\ session[i] \in ImportState
         /\ RowsLeft(i) => RowOf(i) \in Ref \cup {NoRef}
         /\ UNCHANGED session => (RowOf(i)' = RowOf(i))
<1>1. session[i] \in ImportState /\ session[i].row \in Nat
  BY DEF TypeInv, ImportState
<1>2. RowsLeft(i) => session[i].row + 1 \in 1..Len(File[i])
  BY SMTT(30), <1>1, Files DEF RowsLeft
<1>. QED
  BY <1>1, <1>2, Files DEF RowOf

LEMMA BeginDoes ==
  ASSUME ConstantsAssumption, TypeInv, NEW i \in Importer, ImportBegin(i)
  PROVE  ImportDoes(i)
<1>1. session[i] \in ImportState /\ session' = [session EXCEPT ![i] = [@ EXCEPT !.stage = "row"]]
      /\ session[i] = ImportIdle
  BY RowOfRead DEF ImportBegin
<1>. DEFINE new == [ImportIdle EXCEPT !.stage = "row"]
<1>2. new \in ImportState /\ new.stage = "row" /\ new.row = 0 /\ new.success = 0 /\ new.failure = 0
  BY DEF ImportIdle, ImportState
<1>3. session' = [session EXCEPT ![i] = new]
  BY <1>1
<1>. HIDE DEF new
<1>4. session' \in [Importer -> ImportState] /\ session'[i] = new
      /\ \A j \in Importer \ {i} : session'[j] = session[j]
  BY <1>2, <1>3 DEF TypeInv
<1>5. Resets(i)
  BY <1>2, <1>4 DEF Resets, ImportBegin
<1>6. Alone(i)
  BY <1>4 DEF Alone, ImportBegin, TypeInv, ghosts
<1>. QED
  BY <1>5, <1>6 DEF ImportDoes

LEMMA EndDoes ==
  ASSUME ConstantsAssumption, TypeInv, NEW i \in Importer, ImportEnds(i)
  PROVE  ImportDoes(i)
<1>1. session' \in [Importer -> ImportState] /\ session'[i] = ImportIdle
      /\ \A j \in Importer \ {i} : session'[j] = session[j]
  BY IdleTyped DEF TypeInv, ImportEnds
<1>2. Resets(i)
  BY <1>1, IdleTyped DEF Resets, ImportEnds
<1>3. Alone(i)
  BY <1>1 DEF Alone, ImportEnds, TypeInv, ghosts
<1>. QED
  BY <1>2, <1>3 DEF ImportDoes

LEMMA SaveDoes ==
  ASSUME ConstantsAssumption, TypeInv, NEW i \in Importer, ImportSave(i)
  PROVE  ImportDoes(i)
<1>1. session' \in [Importer -> ImportState] /\ session'[i] = ImportIdle
      /\ \A j \in Importer \ {i} : session'[j] = session[j]
  BY IdleTyped DEF TypeInv, ImportSave
<1>2. Saves(i)
  BY <1>1, IdleTyped DEF Saves, ImportSave
<1>3. Alone(i)
  BY <1>1 DEF Alone, ImportSave, TypeInv, bounds, ghosts
<1>. QED
  BY <1>2, <1>3 DEF ImportDoes

\* A new state of one session.
LEMMA Set ==
  ASSUME TypeInv, NEW i \in Importer, NEW new \in ImportState,
         session' = [session EXCEPT ![i] = new]
  PROVE  /\ session' \in [Importer -> ImportState] /\ session'[i] = new
         /\ \A j \in Importer \ {i} : session'[j] = session[j]
  BY DEF TypeInv

LEMMA FailDoes ==
  ASSUME ConstantsAssumption, TypeInv, NEW i \in Importer, RegisterFails(i)
  PROVE  ImportDoes(i)
<1>1. PICK s : s = [session[i] EXCEPT !.at = 0, !.version = 0]
  OBVIOUS
<1>2. /\ s \in ImportState /\ s.stage = session[i].stage /\ s.row = session[i].row
      /\ s.success = session[i].success /\ s.failure = session[i].failure
  BY <1>1, RowOfRead, Cleared
<1>3. session' = [session EXCEPT ![i] = Failed(s)]
  BY <1>1 DEF RegisterFails
<1>4. Failed(s) \in ImportState /\ Failed(s).stage = "row"
      /\ Failed(s).row = session[i].row + 1 /\ Failed(s).success = session[i].success
      /\ Failed(s).failure = session[i].failure + 1
  BY <1>2, Counted
<1>5. session' \in [Importer -> ImportState] /\ session'[i] = Failed(s)
      /\ \A j \in Importer \ {i} : session'[j] = session[j]
  BY <1>3, <1>4, Set
<1>6. Fails(i)
  BY <1>4, <1>5 DEF Fails, RegisterFails
<1>7. Alone(i)
  BY SMTT(30), <1>5 DEF Alone, RegisterFails, TypeInv, ghosts
<1>. QED
  BY <1>6, <1>7 DEF ImportDoes

LEMMA Looked ==
  ASSUME NEW s \in ImportState, NEW time, NEW version
  PROVE  [s EXCEPT !.stage = "insert", !.at = time, !.version = version]
           = [stage |-> "insert", row |-> s.row, success |-> s.success,
              failure |-> s.failure, at |-> time, version |-> version]
<1>1. PICK r : r = [s EXCEPT !.stage = "insert", !.at = time, !.version = version]
  OBVIOUS
<1>2. r = [f \in {"stage", "row", "success", "failure", "at", "version"} |-> r[f]]
  BY <1>1 DEF ImportState
<1>3. /\ r.stage = "insert" /\ r.row = s.row /\ r.success = s.success
      /\ r.failure = s.failure /\ r.at = time /\ r.version = version
  BY <1>1 DEF ImportState
<1>. QED
  BY <1>1, <1>2, <1>3

LEMMA ReadDoes ==
  ASSUME ConstantsAssumption, TypeInv, NEW i \in Importer, RegisterRead(i)
  PROVE  ImportDoes(i)
<1>. DEFINE s == session[i]
<1>0. s \in ImportState /\ RowOf(i) \in Ref \cup {NoRef} /\ clock \in Nat /\ rule \in Nat
  BY SMTT(30), RowOfRead DEF RegisterRead, TypeInv, ConstantsAssumption
<1>1. CASE RowOf(i) = NoRef /\ session' = [session EXCEPT ![i] = Failed(s)] /\ UNCHANGED clock
  <2>1. Failed(s) \in ImportState /\ Failed(s).stage = "row"
        /\ Failed(s).row = s.row + 1 /\ Failed(s).success = s.success
        /\ Failed(s).failure = s.failure + 1
    BY <1>0, Counted
  <2>2. session' \in [Importer -> ImportState] /\ session'[i] = Failed(s)
        /\ \A j \in Importer \ {i} : session'[j] = session[j]
    BY <1>1, <2>1, Set
  <2>3. Fails(i)
    BY <1>1, <2>1, <2>2 DEF Fails, RegisterRead
  <2>4. Alone(i)
    BY <2>2 DEF Alone, RegisterRead, TypeInv, bounds, ghosts
  <2>. QED
    BY <2>3, <2>4 DEF ImportDoes
<1>2. CASE Exists(RowOf(i)) /\ session' = [session EXCEPT ![i] = Succeeded(s)] /\ UNCHANGED clock
  <2>1. Succeeded(s) \in ImportState /\ Succeeded(s).stage = "row"
        /\ Succeeded(s).row = s.row + 1 /\ Succeeded(s).failure = s.failure
        /\ Succeeded(s).success = s.success + 1
    BY <1>0, Counted
  <2>2. session' \in [Importer -> ImportState] /\ session'[i] = Succeeded(s)
        /\ \A j \in Importer \ {i} : session'[j] = session[j]
    BY <1>2, <2>1, Set
  <2>3. UNCHANGED items /\ \E q \in items' : q.ref = RowOf(i)
    BY <1>2 DEF Exists, RegisterRead
  <2>4. Succeeds(i)
    BY <1>2, <2>1, <2>2, <2>3 DEF Succeeds, RegisterRead
  <2>5. Alone(i)
    BY <2>2 DEF Alone, RegisterRead, TypeInv, bounds, ghosts
  <2>. QED
    BY <2>3, <2>4, <2>5 DEF ImportDoes
<1>3. CASE /\ RowOf(i) # NoRef /\ clock' = clock + 1
           /\ session' = [session EXCEPT ![i] =
                [@ EXCEPT !.stage = "insert", !.at = clock', !.version = rule]]
  <2>. DEFINE new == [stage |-> "insert", row |-> s.row, success |-> s.success,
                      failure |-> s.failure, at |-> clock + 1, version |-> rule]
  <2>1. [s EXCEPT !.stage = "insert", !.at = clock + 1, !.version = rule] = new
    BY <1>0, Looked
  <2>2. new \in ImportState
    <3>. HIDE DEF s
    <3>1. s.row \in Nat /\ s.success \in Nat /\ s.failure \in Nat /\ clock + 1 \in Nat
      BY <1>0 DEF ImportState
    <3>2. PICK now \in Nat : now = clock + 1
      BY <3>1
    <3>3. [stage |-> "insert", row |-> s.row, success |-> s.success,
           failure |-> s.failure, at |-> now, version |-> rule] \in ImportState
      BY <1>0, <3>1 DEF ImportState
    <3>. QED
      BY <3>2, <3>3
  <2>3. session' = [session EXCEPT ![i] = new]
    BY <1>3, <2>1
  <2>4. session' \in [Importer -> ImportState] /\ session'[i] = new
        /\ \A j \in Importer \ {i} : session'[j] = session[j]
    BY <2>2, <2>3, Set
  <2>5. Reads(i)
    BY <1>0, <1>3, <2>4 DEF Reads, RegisterRead
  <2>6. Alone(i)
    BY <2>4 DEF Alone, RegisterRead, TypeInv, bounds, ghosts
  <2>. QED
    BY <2>5, <2>6 DEF ImportDoes
<1>. QED
  BY <1>1, <1>2, <1>3 DEF RegisterRead
LEMMA CommitDoes ==
  ASSUME ConstantsAssumption, TypeInv, RowsInv, TimeInv, NEW i \in Importer, RegisterCommit(i)
  PROVE  ImportDoes(i)
<1>. DEFINE row == [ref |-> RowOf(i), at |-> session[i].at, status |-> "adjudicated",
                    version |-> session[i].version, level |-> 0, escalations |-> 0,
                    audit |-> <<"register">>]
            done == [session[i] EXCEPT !.at = 0, !.version = 0]
<1>1. /\ session[i].stage = "insert" /\ RowsLeft(i) /\ RowOf(i) \in Ref
      /\ session[i].at \in 1..clock /\ session[i].version \in Nat
      /\ clock \in Nat
      /\ \A r \in items : r.at # session[i].at
  BY RowOfRead DEF RegisterCommit, TypeInv, TimeInv, ImportState
<1>2. PICK s : s = done
  OBVIOUS
<1>3. /\ s \in ImportState /\ s.stage = session[i].stage /\ s.row = session[i].row
      /\ s.success = session[i].success /\ s.failure = session[i].failure
  BY <1>2, RowOfRead, Cleared
<1>4. /\ Failed(s) \in ImportState /\ Failed(s).stage = "row"
      /\ Failed(s).row = session[i].row + 1 /\ Failed(s).success = session[i].success
      /\ Failed(s).failure = session[i].failure + 1
      /\ Succeeded(s) \in ImportState /\ Succeeded(s).stage = "row"
      /\ Succeeded(s).row = session[i].row + 1
      /\ Succeeded(s).success = session[i].success + 1
      /\ Succeeded(s).failure = session[i].failure
  BY <1>3, Counted
<1>5. /\ UNCHANGED <<batches, sweep, reader, rule, clock, bounds, ghosts>>
      /\ \/ session' = [session EXCEPT ![i] = Failed(s)] /\ UNCHANGED items
         \/ /\ ~Exists(RowOf(i)) /\ session' = [session EXCEPT ![i] = Succeeded(s)]
            /\ items' = items \cup {row}
  BY <1>2 DEF RegisterCommit, Taken
<1>. HIDE DEF done
<1>6. CASE session' = [session EXCEPT ![i] = Failed(s)] /\ UNCHANGED items
  <2>1. session' \in [Importer -> ImportState] /\ session'[i] = Failed(s)
        /\ \A j \in Importer \ {i} : session'[j] = session[j]
    BY <1>4, <1>6, Set
  <2>2. Fails(i)
    BY <1>1, <1>4, <1>5, <1>6, <2>1 DEF Fails
  <2>3. Alone(i)
    BY <1>5, <2>1 DEF Alone, TypeInv, bounds, ghosts
  <2>. QED
    BY <2>2, <2>3 DEF ImportDoes
<1>7. CASE /\ ~Exists(RowOf(i)) /\ session' = [session EXCEPT ![i] = Succeeded(s)]
           /\ items' = items \cup {row}
  <2>1. session' \in [Importer -> ImportState] /\ session'[i] = Succeeded(s)
        /\ \A j \in Importer \ {i} : session'[j] = session[j]
    BY <1>4, <1>7, Set
  <2>2. Alone(i)
    BY <1>5, <2>1 DEF Alone, TypeInv, bounds, ghosts
  <2>3. /\ row \in Item /\ row.at = session[i].at /\ row.ref = RowOf(i)
        /\ row.level = 0 /\ row.escalations = 0 /\ row.audit = <<"register">>
    BY <1>1 DEF Item, Status
  <2>. HIDE DEF row
  <2>4. Cardinality(Escalations(<<"register">>)) = 0
    <3>1. Escalations(<<"register">>) = {}
      BY DEF Escalations
    <3>. QED
      BY <3>1, FS_EmptySet
  <2>5. Adds(row)
    BY <1>1, <1>7, <2>3, <2>4 DEF Adds, Agrees, Exists
  <2>6. Registers(i)
    BY <1>1, <2>3, <2>5 DEF Registers
  <2>7. Succeeds(i)
    BY <1>1, <1>4, <1>5, <1>7, <2>1, <2>3 DEF Succeeds
  <2>. QED
    BY <2>2, <2>6, <2>7 DEF ImportDoes
<1>. QED
  BY <1>5, <1>6, <1>7

\* What any step of an import does, by its actions.
LEMMA Imports ==
  ASSUME ConstantsAssumption, TypeInv, RowsInv, TimeInv, NEW i \in Importer, Import(i)
  PROVE  ImportDoes(i)
  BY BeginDoes, ReadDoes, CommitDoes, FailDoes, SaveDoes, EndDoes DEF Import

(***************************************************************************)
(* Imports keep the invariant                                              *)
(***************************************************************************)
LEMMA ImportRows ==
  ASSUME RowsInv, NEW i \in Importer, ImportDoes(i)
  PROVE  RowsInv' /\ RowsKept
  BY AddSteps, StaySteps DEF ImportDoes, Resets, Fails, Reads, Saves, Registers

LEMMA ImportTypes ==
  ASSUME ConstantsAssumption, TypeInv, RowsInv', NEW i \in Importer, ImportDoes(i)
  PROVE  TypeInv'
<1>0. Alone(i)
  BY DEF ImportDoes
<1>1. /\ session' \in [Importer -> ImportState]
      /\ \A j \in Importer \ {i} : session'[j] = session[j]
      /\ UNCHANGED <<sweep, reader, rule, changes>>
      /\ imports' \in Nat /\ faults' \in Nat
  BY <1>0 DEF Alone
<1>2. /\ session[i].row \in Nat /\ session[i].row <= Len(File[i])
      /\ session[i].success \in Nat /\ session[i].failure \in Nat
      /\ Len(File[i]) \in Nat /\ clock \in Nat
  BY Files DEF TypeInv, ImportState
<1>3. session'[i].row <= Len(File[i])
  <2>1. CASE Resets(i) \/ Saves(i)
    BY <1>2, <2>1 DEF Resets, Saves
  <2>2. CASE Reads(i)
    BY <1>2, <2>2 DEF Reads
  <2>3. CASE Fails(i) \/ Succeeds(i)
    <3>1. session'[i].row = session[i].row + 1 /\ session[i].row < Len(File[i])
      BY <2>3 DEF Fails, Succeeds, RowsLeft
    <3>. QED
      BY <1>2, <3>1
  <2>. QED
    BY <2>1, <2>2, <2>3 DEF ImportDoes
<1>4. session'[i].stage = "insert" => RowsLeft(i)' /\ RowOf(i)' \in Ref
  <2>1. session'[i].stage = "insert" => Reads(i)
    BY DEF ImportDoes, Resets, Fails, Saves, Succeeds
  <2>. QED
    BY <2>1 DEF Reads, RowsLeft, RowOf
<1>5. \A j \in Importer :
        /\ session'[j].row <= Len(File[j])
        /\ session'[j].stage = "insert" => RowsLeft(j)' /\ RowOf(j)' \in Ref
  <2>1. SUFFICES ASSUME NEW j \in Importer, j # i
                 PROVE  /\ session'[j].row <= Len(File[j])
                        /\ session'[j].stage = "insert" => RowsLeft(j)' /\ RowOf(j)' \in Ref
    BY <1>3, <1>4
  <2>2. session'[j] = session[j]
    BY <1>1, <2>1
  <2>. QED
    BY <2>2 DEF TypeInv, RowsLeft, RowOf
<1>6. clock' \in Nat
  BY <1>2 DEF ImportDoes, Resets, Fails, Reads, Saves, Succeeds
<1>7. \A b \in batches' : b.by \in Importer /\ b.success \in Nat /\ b.failure \in Nat
  <2>1. CASE UNCHANGED batches
    BY <2>1 DEF TypeInv
  <2>2. CASE Saves(i)
    BY <1>2, <2>2 DEF TypeInv, Saves
  <2>. QED
    BY <2>1, <2>2 DEF ImportDoes, Resets, Fails, Reads, Succeeds
<1>. QED
  BY <1>1, <1>5, <1>6, <1>7 DEF TypeInv, RowsInv

\* Each registration has a time of its own.
LEMMA ImportTimes ==
  ASSUME TypeInv, RowsInv, TimeInv, RowsInv', NEW i \in Importer, ImportDoes(i)
  PROVE  TimeInv'
<1>0. /\ clock \in Nat /\ \A r \in items : r.at \in Nat /\ r.at <= clock
      /\ \A j \in Importer \ {i} : session'[j] = session[j]
      /\ OwnTimes'
  BY ItemTyped DEF TypeInv, RowsInv, TimeInv, ImportDoes, Alone
<1>1. CASE Reads(i)
  <2>1. /\ items' = items /\ clock' = clock + 1 /\ session'[i].stage = "insert"
        /\ session'[i].at = clock + 1
    BY <1>1 DEF Reads
  <2>2. \A j \in Importer \ {i} : session[j].stage = "insert" =>
          session[j].at \in 1..clock /\ session[j].at # clock + 1
    BY <1>0 DEF TimeInv
  <2>3. ASSUME NEW j \in Importer, session'[j].stage = "insert"
        PROVE  /\ session'[j].at \in 1..clock'
               /\ \A r \in items' : r.at # session'[j].at
               /\ \A k \in Importer \ {j} :
                    session'[k].stage = "insert" => session'[k].at # session'[j].at
    <3>1. CASE j = i
      BY <1>0, <2>1, <2>2, <3>1
    <3>2. CASE j # i
      BY <1>0, <2>1, <2>2, <2>3, <3>2 DEF TimeInv
    <3>. QED
      BY <3>1, <3>2
  <2>. QED
    BY <1>0, <2>1, <2>3 DEF TimeInv
<1>2. CASE /\ UNCHANGED clock /\ session'[i].stage # "insert"
           /\ items' = items \/ \E new : Adds(new) /\ new.at = session[i].at /\ session[i].stage = "insert"
  <2>1. \A r \in items' : r.at \in {q.at : q \in items} \/
          (r.at = session[i].at /\ session[i].stage = "insert")
    BY <1>2 DEF Adds
  <2>2. \A r \in items' : r.at <= clock
    BY <1>0, <2>1 DEF TimeInv
  <2>3. ASSUME NEW j \in Importer, session'[j].stage = "insert"
        PROVE  /\ session'[j].at \in 1..clock'
               /\ \A r \in items' : r.at # session'[j].at
               /\ \A k \in Importer \ {j} :
                    session'[k].stage = "insert" => session'[k].at # session'[j].at
    <3>1. j # i /\ session'[j] = session[j]
      BY <1>0, <1>2, <2>3
    <3>2. session[j].at \in 1..clock /\ \A r \in items : r.at # session[j].at
      BY <2>3, <3>1 DEF TimeInv
    <3>3. session[i].stage = "insert" => session[i].at # session[j].at
      BY <2>3, <3>1 DEF TimeInv
    <3>4. \A r \in items' : r.at # session'[j].at
      BY <2>1, <3>1, <3>2, <3>3
    <3>5. \A k \in Importer \ {j} :
                    session'[k].stage = "insert" => session'[k].at # session'[j].at
      BY <1>0, <1>2, <2>3, <3>1 DEF TimeInv
    <3>. QED
      BY <1>2, <3>1, <3>2, <3>4, <3>5
  <2>. QED
    BY <1>0, <1>2, <2>2, <2>3 DEF TimeInv
<1>. QED
  BY <1>1, <1>2 DEF ImportDoes, Resets, Fails, Saves, Succeeds, Registers

\* A success is counted for a row that has a suggestion from then on.
LEMMA ImportCounts ==
  ASSUME ConstantsAssumption, TypeInv, CountInv, RowsKept, NEW i \in Importer, ImportDoes(i)
  PROVE  CountInv'
<1>0. \A j \in Importer \ {i} : session'[j] = session[j]
  BY DEF ImportDoes, Alone
<1>1. /\ session[i].row \in Nat /\ session[i].success \in Nat /\ session[i].failure \in Nat
      /\ session[i].success + session[i].failure = session[i].row
      /\ session[i].success <= Cardinality(There(File[i], session[i].row))
  BY DEF TypeInv, ImportState, CountInv
<1>2. PICK n \in Nat : n = session[i].row
  BY <1>1
<1>3. /\ There(File[i], n) \in SUBSET There(File[i], n)'
      /\ Cardinality(There(File[i], n)) <= Cardinality(There(File[i], n)')
      /\ Cardinality(There(File[i], n)) \in Nat /\ Cardinality(There(File[i], n)') \in Nat
      /\ IsFiniteSet(There(File[i], n)')
  BY ThereStays
<1>4. session[i].success <= Cardinality(There(File[i], n)')
  BY <1>1, <1>2, <1>3
<1>5. /\ session'[i].success + session'[i].failure = session'[i].row
      /\ session'[i].success <= Cardinality(There(File[i], session[i].row)')
  <2>1. CASE Resets(i) \/ Saves(i)
    <3>1. /\ session'[i].row = 0 /\ session'[i].success = 0 /\ session'[i].failure = 0
      BY <2>1 DEF Resets, Saves
    <3>2. There(File[i], session[i].row)' = There(File[i], 0)'
      BY <3>1
    <3>3. Cardinality(There(File[i], 0)') \in Nat
      BY ThereStays
    <3>. QED
      BY <3>1, <3>2, <3>3
  <2>2. CASE Reads(i)
    BY <2>2, CountsKept DEF Reads
  <2>3. CASE Fails(i) \/ Succeeds(i)
    <3>1. /\ session'[i].row = n + 1
          /\ session'[i].success + session'[i].failure = session'[i].row
      <4>1. PICK a \in Nat, f \in Nat : a = session[i].success /\ f = session[i].failure
        BY <1>1
      <4>2. session[i].success + session[i].failure = session[i].row
        BY <1>1
      <4>3. a + f = n
        BY <1>2, <4>1, <4>2
      <4>4. CASE Fails(i)
        <5>1. /\ session'[i].row = n + 1 /\ session'[i].success = a
              /\ session'[i].failure = f + 1
          BY <1>2, <4>1, <4>4 DEF Fails
        <5>. QED
          BY <4>3, <5>1
      <4>5. CASE Succeeds(i)
        <5>1. /\ session'[i].row = n + 1 /\ session'[i].success = a + 1
              /\ session'[i].failure = f
          BY <1>2, <4>1, <4>5 DEF Succeeds
        <5>2. (a + 1) + f = n + 1
          BY <4>3
        <5>. QED
          BY <5>1, <5>2
      <4>. QED
        BY <2>3, <4>4, <4>5
    <3>2. There(File[i], session[i].row)' = There(File[i], n + 1)'
      BY <3>1
    <3>3. Cardinality(There(File[i], n + 1)') \in Nat /\ IsFiniteSet(There(File[i], n + 1)')
      BY SMTT(20), ThereStays
    <3>4. There(File[i], n)' \in SUBSET There(File[i], n + 1)'
      BY DEF There
    <3>5. Cardinality(There(File[i], n)') <= Cardinality(There(File[i], n + 1)')
      BY <3>3, <3>4, FS_Subset
    <3>6. CASE Fails(i)
      <4>1. session'[i].success = session[i].success
        BY <3>6 DEF Fails
      <4>2. session[i].success <= Cardinality(There(File[i], n + 1)')
        <5>1. PICK c \in Nat, d \in Nat : /\ c = Cardinality(There(File[i], n)')
                                         /\ d = Cardinality(There(File[i], n + 1)')
          BY <1>3, <3>3
        <5>2. session[i].success \in Nat /\ session[i].success <= c /\ c <= d
          BY <1>1, <1>4, <3>5, <5>1
        <5>. QED
          BY <5>1, <5>2
      <4>. QED
        BY <3>1, <3>2, <4>1, <4>2
    <3>7. CASE Succeeds(i)
      <4>1. n + 1 \in There(File[i], n + 1)' /\ n + 1 \notin There(File[i], n)'
        BY SMTT(30), <1>2, <3>7 DEF Succeeds, There, Exists, RowOf
      <4>2. There(File[i], n + 1)' = There(File[i], n)' \cup {n + 1}
        BY <4>1 DEF There
      <4>3. Cardinality(There(File[i], n + 1)') = Cardinality(There(File[i], n)') + 1
        BY SMTT(30), <1>3, <4>1, <4>2, FS_AddElement
      <4>. QED
        <5>1. session'[i].success = session[i].success + 1
          BY <3>7 DEF Succeeds
        <5>2. session[i].success + 1 <= Cardinality(There(File[i], n + 1)')
          BY SMTT(20), <1>1, <1>3, <1>4, <4>3
        <5>. QED
          BY <3>1, <3>2, <5>1, <5>2
    <3>. QED
      BY <2>3, <3>6, <3>7
  <2>. QED
    BY <2>1, <2>2, <2>3 DEF ImportDoes
<1>6. ASSUME NEW j \in Importer, j # i
      PROVE  /\ session'[j].success + session'[j].failure = session'[j].row
             /\ session'[j].success <= Cardinality(There(File[j], session[j].row)')
  BY <1>0, <1>6, CountsKept
<1>. QED
  BY <1>5, <1>6 DEF CountInv

LEMMA SummaryRows ==
  ASSUME ConstantsAssumption, NEW i \in Importer
  PROVE  /\ {n \in DOMAIN File[i] : Exists(File[i][n])} = There(File[i], Len(File[i]))
         /\ {n \in DOMAIN File[i] : Exists(File[i][n])}' = There(File[i], Len(File[i]))'
  BY Files DEF There, Exists

\* A summary stays truthful: suggestions do not disappear.
LEMMA SummaryKept ==
  ASSUME ConstantsAssumption, RowsKept, NEW i \in Importer, NEW success \in Nat,
         success <= Cardinality(There(File[i], Len(File[i])))
  PROVE  success <= Cardinality({n \in DOMAIN File[i] : Exists(File[i][n])}')
<1>1. PICK m \in Nat : m = Len(File[i])
  BY Files
<1>2. /\ Cardinality(There(File[i], m)) <= Cardinality(There(File[i], m)')
      /\ Cardinality(There(File[i], m)) \in Nat /\ Cardinality(There(File[i], m)') \in Nat
  BY ThereStays
<1>3. success <= Cardinality(There(File[i], m))
  BY <1>1
<1>4. There(File[i], Len(File[i]))' = There(File[i], m)'
  BY <1>1
<1>5. success <= Cardinality(There(File[i], m)')
  BY <1>2, <1>3
<1>6. success <= Cardinality(There(File[i], Len(File[i]))')
  BY <1>4, <1>5
<1>. QED
  BY <1>6, SummaryRows

LEMMA SummariesKept ==
  ASSUME ConstantsAssumption, TypeInv, RowsKept, SummariesTruthful, NEW b \in batches
  PROVE  /\ b.success + b.failure = Len(File[b.by])
         /\ b.success <= Cardinality({n \in DOMAIN File[b.by] : Exists(File[b.by][n])}')
<1>1. b.by \in Importer /\ b.success \in Nat
  BY DEF TypeInv
<1>2. /\ b.success + b.failure = Len(File[b.by])
      /\ b.success <= Cardinality(There(File[b.by], Len(File[b.by])))
  BY <1>1, SummaryRows DEF SummariesTruthful
<1>. QED
  BY <1>1, <1>2, SummaryKept

LEMMA ImportSummaries ==
  ASSUME ConstantsAssumption, TypeInv, CountInv, RowsKept, SummariesTruthful,
         NEW i \in Importer, ImportDoes(i)
  PROVE  SummariesTruthful'
<1>1. CASE UNCHANGED batches
  BY <1>1, SummariesKept DEF SummariesTruthful
<1>2. CASE Saves(i)
  <2>1. PICK b : /\ b = [by |-> i, success |-> session[i].success, failure |-> session[i].failure]
                 /\ batches' = batches \cup {b}
    BY <1>2 DEF Saves
  <2>2. /\ session[i].row \in Nat /\ session[i].row <= Len(File[i]) /\ Len(File[i]) \in Nat
        /\ ~RowsLeft(i) /\ session[i].success \in Nat
    BY <1>2, Files DEF TypeInv, ImportState, Saves
  <2>3. session[i].row = Len(File[i])
    BY <2>2 DEF RowsLeft
  <2>4. /\ b.by = i /\ b.success \in Nat /\ b.success + b.failure = Len(File[i])
        /\ b.success <= Cardinality(There(File[i], Len(File[i])))
    BY <2>1, <2>2, <2>3 DEF CountInv
  <2>5. b.success <= Cardinality({n \in DOMAIN File[b.by] : Exists(File[b.by][n])}')
    BY <2>4, SummaryKept
  <2>. QED
    BY <2>1, <2>4, <2>5, SummariesKept DEF SummariesTruthful
<1>. QED
  BY <1>1, <1>2 DEF ImportDoes, Resets, Fails, Reads, Succeeds

(***************************************************************************)
(* What a sweep is to collect while others change the rows                 *)
(***************************************************************************)
\* A row that is to be collected is, or its rank has not fallen.
LEMMA ToCollectKept ==
  ASSUME UNCHANGED sweep, IsFiniteSet(items), IsFiniteSet(items'),
         NEW row, ToCollect(row),
         Rank(OfStatus(row.status), row) <= Rank(OfStatus(row.status)', row),
         sweep.offset \in Nat
  PROVE  ToCollect(row)'
<1>1. Rank(OfStatus(row.status), row) \in Nat /\ Rank(OfStatus(row.status)', row) \in Nat
  <2>1. OfStatus(row.status) \in SUBSET items /\ OfStatus(row.status)' \in SUBSET items'
    BY DEF OfStatus
  <2>. QED
    BY <2>1, FS_Subset, RankTyped
<1>2. Cardinality(Newer(OfStatus(row.status), row)) >= sweep.offset =>
        Cardinality(Newer(OfStatus(row.status)', row)) >= sweep.offset
  BY <1>1 DEF Rank
<1>3. Newer(OfStatus(row.status)', row) = Newer(OfStatus(row.status), row)'
  BY DEF Newer
<1>. QED
  BY <1>2, <1>3 DEF ToCollect

LEMMA MoreRows ==
  ASSUME UNCHANGED sweep, IsFiniteSet(items), IsFiniteSet(items'), sweep.offset \in Nat,
         NEW row, ToCollect(row), OfStatus(row.status) \subseteq OfStatus(row.status)'
  PROVE  ToCollect(row)'
<1>1. IsFiniteSet(OfStatus(row.status)')
  <2>1. OfStatus(row.status)' \in SUBSET items'
    BY DEF OfStatus
  <2>. QED
    BY <2>1, FS_Subset
<1>2. Rank(OfStatus(row.status), row) <= Rank(OfStatus(row.status)', row)
  BY <1>1, RankGrows
<1>. QED
  BY <1>2, ToCollectKept

LEMMA AddSweep ==
  ASSUME TypeInv, RowsInv, RowsInv', SweepInv, NEW new, Adds(new), UNCHANGED <<sweep, ghosts>>
  PROVE  SweepInv'
<1>1. sweep.stale \subseteq {row.at : row \in items'}
  BY DEF SweepInv, Adds
<1>2. ASSUME sweep.stage = "listing"
      PROVE  Collecting'
  <2>1. Collecting /\ sweep.offset \in Nat
    BY <1>2 DEF SweepInv, TypeInv, SweepState
  <2>2. steady \subseteq {row.at : row \in items'}
    BY <2>1 DEF Collecting, Adds
  <2>3. \A row \in items' : row.at \in steady => row \in items
    BY <2>1 DEF Collecting, Adds
  <2>4. ASSUME NEW row \in items, row.at \in steady, row.status \notin thinned
        PROVE  ToCollect(row)'
    <3>1. ToCollect(row) /\ OfStatus(row.status) \subseteq OfStatus(row.status)'
      BY <2>1, <2>4 DEF Collecting, Adds, OfStatus
    <3>. QED
      BY <2>1, <3>1, MoreRows DEF RowsInv
  <2>. QED
    BY <2>1, <2>2, <2>3, <2>4 DEF Collecting, ghosts
<1>. QED
  BY <1>1, <1>2 DEF SweepInv

LEMMA StaySweep ==
  ASSUME SweepInv, UNCHANGED <<items, sweep, ghosts>>
  PROVE  SweepInv'
<1>1. Collecting => Collecting'
  BY DEF Collecting, ToCollect, OfStatus, Newer, ghosts
<1>. QED
  BY <1>1 DEF SweepInv

\* A request or an escalation replaces a row.
LEMMA SwapSweep ==
  ASSUME TypeInv, RowsInv, RowsInv', SweepInv, NEW row \in items, NEW new,
         Later(row, new), new.version = row.version, Replaced(row, new), UNCHANGED sweep
  PROVE  SweepInv'
<1>1. /\ new \in Item /\ new.at = row.at /\ row \in Item
      /\ items' = (items \ {row}) \cup {new}
  BY DEF Replaced, Later, RowsInv
<1>2. {q.at : q \in items'} = {q.at : q \in items}
  BY <1>1
<1>3. ASSUME sweep.stage = "listing"
      PROVE  Collecting'
  <2>1. Collecting /\ sweep.offset \in Nat
    BY <1>3 DEF SweepInv, TypeInv, SweepState
  <2>2. CASE row.status \in Listable /\ new.status # row.status
    <3>1. thinned' = thinned \cup {row.status} /\ steady' = steady \ {row.at}
      BY <1>3, <2>2 DEF Replaced
    <3>2. steady' \subseteq {q.at : q \in items'}
      BY <1>2, <2>1, <3>1 DEF Collecting
    <3>3. \A q \in items' : q.at \in steady' => q \in items \ {row} /\ q.at \in steady
      BY <1>1, <3>1
    <3>4. ASSUME NEW q \in items \ {row}, q.at \in steady', q.status \notin thinned'
          PROVE  ToCollect(q)'
      <4>1. ToCollect(q) /\ q.status # row.status
        BY <2>1, <3>1, <3>4 DEF Collecting
      <4>2. OfStatus(q.status) \subseteq OfStatus(q.status)'
        BY <1>1, <4>1 DEF OfStatus
      <4>. QED
        BY <2>1, <4>1, <4>2, MoreRows DEF RowsInv
    <3>. QED
      BY <2>1, <3>2, <3>3, <3>4 DEF Collecting
  <2>3. CASE row.status \notin Listable
    <3>1. thinned' = thinned /\ steady' = steady /\ row.at \notin steady
      BY <2>1, <2>3 DEF Replaced, Collecting, ghosts
    <3>2. steady' \subseteq {q.at : q \in items'}
      BY <1>2, <2>1, <3>1 DEF Collecting
    <3>3. \A q \in items' : q.at \in steady' => q \in items \ {row}
      BY <1>1, <3>1
    <3>4. ASSUME NEW q \in items \ {row}, q.at \in steady', q.status \notin thinned'
          PROVE  ToCollect(q)'
      <4>1. ToCollect(q) /\ q.status # row.status
        BY <2>1, <2>3, <3>1, <3>4 DEF Collecting
      <4>2. OfStatus(q.status) \subseteq OfStatus(q.status)'
        BY <1>1, <4>1 DEF OfStatus
      <4>. QED
        BY <2>1, <4>1, <4>2, MoreRows DEF RowsInv
    <3>. QED
      BY <2>1, <3>1, <3>2, <3>3, <3>4 DEF Collecting
  <2>4. CASE new.status = row.status
    <3>1. thinned' = thinned /\ steady' = steady
      BY <2>4 DEF Replaced, ghosts
    <3>2. steady' \subseteq {q.at : q \in items'}
      BY <1>2, <2>1, <3>1 DEF Collecting
    <3>3. \A q \in items' : q.at \in steady' =>
            q.version < sweep.current /\ q.status \in Listable
      <4>1. row.at \in steady => row.version < sweep.current /\ row.status \in Listable
        BY <2>1 DEF Collecting
      <4>. QED
        BY <1>1, <2>1, <2>4, <3>1, <4>1 DEF Collecting
    <3>4. ASSUME NEW q \in items, NEW p \in items', p.at = q.at, p.status = q.status,
                 q.at \in steady', q.status \notin thinned'
          PROVE  ToCollect(p)'
      <4>1. ToCollect(q)
        BY <2>1, <3>1, <3>4 DEF Collecting
      <4>2. Rank(OfStatus(q.status)', p) = Rank(OfStatus(q.status), q)
        <5>1. CASE row.status # q.status
          <6>1. OfStatus(q.status)' = OfStatus(q.status)
            BY <1>1, <2>4, <5>1 DEF OfStatus
          <6>2. Newer(OfStatus(q.status), p) = Newer(OfStatus(q.status), q)
            BY <3>4 DEF Newer
          <6>. QED
            BY <6>1, <6>2 DEF Rank
        <5>2. CASE row.status = q.status
          <6>1. OfStatus(q.status)' = (OfStatus(q.status) \ {row}) \cup {new}
            BY <1>1, <2>4, <5>2 DEF OfStatus
          <6>2. row \in OfStatus(q.status) /\ IsFiniteSet(OfStatus(q.status))
            <7>1. OfStatus(q.status) \in SUBSET items
              BY DEF OfStatus
            <7>. QED
              BY <5>2, <7>1, FS_Subset DEF OfStatus, RowsInv
          <6>3. new \notin OfStatus(q.status) \ {row}
            BY <1>1 DEF OfStatus, RowsInv, OwnTimes
          <6>. QED
            BY <1>1, <3>4, <6>1, <6>2, <6>3, RankSwapped
        <5>. QED
          BY <5>1, <5>2
      <4>3. Newer(OfStatus(q.status)', p) = Newer(OfStatus(p.status), p)'
        BY <3>4 DEF Newer
      <4>. QED
        BY <3>4, <4>1, <4>2, <4>3 DEF ToCollect, Rank
    <3>5. ASSUME NEW p \in items', p.at \in steady', p.status \notin thinned'
          PROVE  ToCollect(p)'
      <4>1. PICK q \in items : q.at = p.at /\ q.status = p.status
        BY <1>1, <2>4
      <4>. QED
        BY <3>4, <3>5, <4>1
    <3>. QED
      BY <3>2, <3>3, <3>5 DEF Collecting
  <2>. QED
    BY <2>2, <2>3, <2>4
<1>. QED
  BY <1>2, <1>3 DEF SweepInv

(***************************************************************************)
(* Steps of the sweep                                                      *)
(***************************************************************************)
LEMMA Lists ==
  /\ Reevaluable[1] = "registered" /\ Reevaluable[2] = "adjudicated"
  /\ Len(Reevaluable) = 2 /\ Listable = {"registered", "adjudicated"}
  /\ 1..2 = {1, 2}
  BY DEF Reevaluable, Listable

\* A sweep that has read another page.
Sweeping(new, s, stage, list, offset, found) ==
  /\ new \in SweepState /\ new.stage = stage /\ new.current = s.current
  /\ new.list = list /\ new.offset = offset /\ new.stale = s.stale \cup found

Paged(list, offset, stage, found) == Sweeping(sweep', sweep, stage, list, offset, found)

LEMMA Collected ==
  ASSUME NEW s \in SweepState, NEW found \in SUBSET Nat
  PROVE  Sweeping([s EXCEPT !.stale = @ \cup found], s, s.stage, s.list, s.offset, found)
  BY DEF SweepState, Sweeping

LEMMA OffsetMoves ==
  ASSUME NEW s \in SweepState, NEW offset \in Nat, NEW new, new = [s EXCEPT !.offset = offset]
  PROVE  Sweeping(new, s, s.stage, s.list, offset, {})
  BY DEF SweepState, Sweeping

LEMMA ListMoves ==
  ASSUME NEW s \in SweepState, NEW new, new = [s EXCEPT !.list = 2, !.offset = 0]
  PROVE  Sweeping(new, s, s.stage, 2, 0, {})
<1>. DEFINE r1 == [s EXCEPT !.list = 2]
            r2 == [r1 EXCEPT !.offset = 0]
<1>1. new = r2
  BY DEF SweepState
<1>2. /\ r1 \in SweepState /\ r1.stage = s.stage /\ r1.current = s.current
      /\ r1.list = 2 /\ r1.stale = s.stale
  BY DEF SweepState
<1>. HIDE DEF r1
<1>3. /\ r2 \in SweepState /\ r2.stage = s.stage /\ r2.current = s.current
      /\ r2.list = 2 /\ r2.offset = 0 /\ r2.stale = s.stale
  BY <1>2 DEF SweepState
<1>. QED
  BY <1>1, <1>3 DEF Sweeping

LEMMA ListsEnd ==
  ASSUME NEW s \in SweepState, NEW new,
         new = [s EXCEPT !.stage = "routing", !.list = 1, !.offset = 0]
  PROVE  Sweeping(new, s, "routing", 1, 0, {})
<1>. DEFINE r1 == [s EXCEPT !.stage = "routing"]
            r2 == [r1 EXCEPT !.list = 1]
            r3 == [r2 EXCEPT !.offset = 0]
<1>1. new = r3
  BY DEF SweepState
<1>2. /\ r1 \in SweepState /\ r1.stage = "routing" /\ r1.current = s.current
      /\ r1.stale = s.stale
  BY DEF SweepState
<1>. HIDE DEF r1
<1>3. /\ r2 \in SweepState /\ r2.stage = "routing" /\ r2.current = s.current
      /\ r2.list = 1 /\ r2.stale = s.stale
  BY <1>2 DEF SweepState
<1>. HIDE DEF r2
<1>4. /\ r3 \in SweepState /\ r3.stage = "routing" /\ r3.current = s.current
      /\ r3.list = 1 /\ r3.offset = 0 /\ r3.stale = s.stale
  BY <1>3 DEF SweepState
<1>. QED
  BY <1>1, <1>4 DEF Sweeping

Page == ListItems(OfStatus(Reevaluable[sweep.list]), SweepPageSize, sweep.offset)

PageFound == {row.at : row \in Stale(Page, sweep.current)}

\* The rows of a page, and when a page cannot be the last.
LEMMA PageRows ==
  ASSUME ConstantsAssumption, TypeInv, RowsInv, TimeInv
  PROVE  /\ \A row \in items :
              row \in Page <=>
                /\ row.status = Reevaluable[sweep.list]
                /\ Rank(OfStatus(row.status), row) \in
                     sweep.offset .. (sweep.offset + SweepPageSize - 1)
         /\ Page \in SUBSET items
         /\ PageFound \in SUBSET Nat
         /\ \A row \in items :
              /\ row.status = Reevaluable[sweep.list]
              /\ Rank(OfStatus(row.status), row) >= sweep.offset + SweepPageSize
              => ~LastPage(Page)
<1>. DEFINE S == OfStatus(Reevaluable[sweep.list])
<1>1. /\ Limit(SweepPageSize) = SweepPageSize /\ SweepPageSize \in Nat /\ SweepPageSize # 0
      /\ sweep.offset \in Nat
  BY SMTT(20) DEF ConstantsAssumption, Limit, TypeInv, SweepState
<1>2. Page = Rows(S, sweep.offset, SweepPageSize)
  BY <1>1 DEF Page, ListItems, Rank, Rows
<1>3. S \in SUBSET items /\ \A row \in items : row \in S <=> row.status = Reevaluable[sweep.list]
  BY DEF OfStatus
<1>4. \A row \in items : row.status = Reevaluable[sweep.list] => OfStatus(row.status) = S
  OBVIOUS
<1>5. Listed(S, clock)
  <2>1. IsFiniteSet(S)
    BY <1>3, FS_Subset DEF RowsInv
  <2>2. \A r \in items : r.at \in Nat
    BY ItemTyped DEF RowsInv
  <2>. QED
    BY <1>3, <2>1, <2>2 DEF Listed, TimeInv, OwnTimes, TypeInv
<1>. HIDE DEF S
<1>6. Page \in SUBSET items
  BY <1>2, <1>3 DEF Rows
<1>7. PageFound \in SUBSET Nat
  BY <1>6, ItemTyped DEF PageFound, Stale, RowsInv
<1>8. ASSUME NEW row \in S, Rank(S, row) >= sweep.offset + SweepPageSize
      PROVE  ~LastPage(Page)
  <2>1. Cardinality(Page) >= SweepPageSize
    <3>1. PICK offset \in Nat, size \in Nat : offset = sweep.offset /\ size = SweepPageSize
      BY <1>1
    <3>2. Cardinality(Rows(S, offset, size)) >= size
      BY <1>5, <1>8, <3>1, PageFull
    <3>. QED
      BY <1>2, <3>1, <3>2
  <2>2. IsFiniteSet(Page) /\ Cardinality(Page) \in Nat
    BY <1>6, FS_Subset, FS_CardinalityType DEF RowsInv
  <2>. QED
    BY <1>1, <2>1, <2>2 DEF LastPage
<1>. QED
  BY <1>2, <1>3, <1>4, <1>6, <1>7, <1>8 DEF Rows

\* What is to be collected from the list that is read is on this page or after it.
LEMMA PageCollects ==
  ASSUME ConstantsAssumption, TypeInv, RowsInv, TimeInv, SweepInv, sweep.stage = "listing",
         NEW row \in items, row.at \in steady, row.status \notin thinned
  PROVE  \/ row.at \in sweep.stale \cup PageFound
         \/ sweep.list = 1 /\ row.status = Reevaluable[2]
         \/ /\ row.status = Reevaluable[sweep.list] /\ ~LastPage(Page)
            /\ Rank(OfStatus(row.status), row) >= sweep.offset + SweepPageSize
<1>1. ToCollect(row) /\ row.version < sweep.current
  BY DEF SweepInv, Collecting
<1>2. SUFFICES ASSUME row.status = Reevaluable[sweep.list],
                      Rank(OfStatus(row.status), row) >= sweep.offset
               PROVE  \/ row.at \in sweep.stale \cup PageFound
                      \/ /\ row.status = Reevaluable[sweep.list] /\ ~LastPage(Page)
                         /\ Rank(OfStatus(row.status), row) >= sweep.offset + SweepPageSize
  BY <1>1 DEF ToCollect, Rank
<1>3. PICK k : k = Rank(OfStatus(row.status), row)
  OBVIOUS
<1>4. k \in Nat
  <2>1. OfStatus(row.status) \in SUBSET items
    BY DEF OfStatus
  <2>. QED
    BY <1>3, <2>1, FS_Subset, RankTyped DEF RowsInv
<1>5. sweep.offset \in Nat /\ SweepPageSize \in Nat
  BY DEF ConstantsAssumption, TypeInv, SweepState
<1>6. CASE k >= sweep.offset + SweepPageSize
  BY <1>2, <1>3, <1>6, PageRows
<1>7. CASE ~(k >= sweep.offset + SweepPageSize)
  <2>1. k \in sweep.offset .. (sweep.offset + SweepPageSize - 1)
    BY <1>2, <1>3, <1>4, <1>5, <1>7
  <2>2. row \in Page
    BY <1>2, <1>3, <2>1, PageRows
  <2>. QED
    BY <1>1, <2>2 DEF PageFound, Stale
<1>. QED
  BY <1>6, <1>7

\* The sweep goes on in the list, goes on to the next list, or has read all.
LEMMA ReadPageDoes ==
  ASSUME ConstantsAssumption, TypeInv, RowsInv, TimeInv, SweepReadPage
  PROVE  /\ UNCHANGED <<items, batches, session, reader, rule, clock, bounds>>
         /\ sweep.stage = "listing"
         /\ \/ /\ ~LastPage(Page) /\ UNCHANGED ghosts
               /\ Paged(sweep.list, sweep.offset + SweepPageSize, "listing", PageFound)
            \/ /\ LastPage(Page) /\ UNCHANGED ghosts /\ sweep.list = 1
               /\ Paged(2, 0, "listing", PageFound)
            \/ /\ LastPage(Page) /\ sweep.list = 2 /\ Paged(1, 0, "routing", PageFound)
<1>1. /\ sweep \in SweepState /\ PageFound \in SUBSET Nat /\ sweep.list \in {1, 2}
      /\ sweep.offset + SweepPageSize \in Nat
  BY PageRows DEF TypeInv, SweepState, ConstantsAssumption
<1>2. PICK read : read = [sweep EXCEPT !.stale = @ \cup PageFound]
  OBVIOUS
<1>3. /\ sweep.stage = "listing"
      /\ sweep' =
           IF ~LastPage(Page) THEN [read EXCEPT !.offset = @ + SweepPageSize]
           ELSE IF sweep.list < 2
           THEN [read EXCEPT !.list = @ + 1, !.offset = 0]
           ELSE [read EXCEPT !.stage = "routing", !.list = 1, !.offset = 0]
      /\ IF sweep'.stage = "listing" THEN UNCHANGED ghosts ELSE Forgotten
      /\ UNCHANGED <<items, batches, session, reader, rule, clock, bounds>>
  BY <1>2, Lists DEF SweepReadPage, Page, PageFound
<1>4. Sweeping(read, sweep, sweep.stage, sweep.list, sweep.offset, PageFound)
  BY <1>1, <1>2, Collected
<1>5. /\ read \in SweepState /\ read.stage = "listing" /\ read.list = sweep.list
      /\ read.offset = sweep.offset
  BY <1>3, <1>4 DEF Sweeping
<1>6. CASE ~LastPage(Page)
  <2>1. sweep' = [read EXCEPT !.offset = sweep.offset + SweepPageSize]
    BY <1>3, <1>5, <1>6
  <2>2. PICK offset \in Nat : offset = sweep.offset + SweepPageSize
    BY <1>1
  <2>3. Sweeping(sweep', read, "listing", sweep.list, offset, {})
    BY <1>5, <2>1, <2>2, OffsetMoves
  <2>4. Paged(sweep.list, offset, "listing", PageFound)
    BY <1>4, <2>3 DEF Paged, Sweeping
  <2>. QED
    BY <1>3, <1>6, <2>2, <2>4 DEF Paged, Sweeping
<1>7. CASE LastPage(Page) /\ sweep.list = 1
  <2>1. sweep' = [read EXCEPT !.list = 2, !.offset = 0]
    BY <1>3, <1>5, <1>7
  <2>2. Sweeping(sweep', read, "listing", 2, 0, {})
    BY <1>5, <2>1, ListMoves
  <2>3. Paged(2, 0, "listing", PageFound)
    BY <1>4, <2>2 DEF Paged, Sweeping
  <2>. QED
    BY <1>3, <1>7, <2>3 DEF Paged, Sweeping
<1>8. CASE LastPage(Page) /\ sweep.list = 2
  <2>1. sweep' = [read EXCEPT !.stage = "routing", !.list = 1, !.offset = 0]
    BY <1>3, <1>8
  <2>2. Sweeping(sweep', read, "routing", 1, 0, {})
    BY <1>5, <2>1, ListsEnd
  <2>3. Paged(1, 0, "routing", PageFound)
    BY <1>4, <2>2 DEF Paged, Sweeping
  <2>. QED
    BY <1>3, <1>8, <2>3
<1>. QED
  BY <1>1, <1>6, <1>7, <1>8

(***************************************************************************)
(* The steps that change no import                                         *)
(***************************************************************************)
Outside ==
  /\ UNCHANGED <<session, batches, clock, imports>>
  /\ RowsKept /\ {r.at : r \in items'} \subseteq {r.at : r \in items}
  /\ sweep' \in SweepState /\ reader' \in ReaderState
  /\ rule' \in 1..MaxRule /\ changes' \in Nat /\ faults' \in Nat

\* Imports and their summaries when others take a step.
LEMMA OutsideKeeps ==
  ASSUME ConstantsAssumption, TypeInv, RowsInv', TimeInv, CountInv, SummariesTruthful, Outside
  PROVE  TypeInv' /\ TimeInv' /\ CountInv' /\ SummariesTruthful'
<1>1. UNCHANGED <<session, batches, clock, imports>> /\ RowsKept
  BY DEF Outside
<1>2. TypeInv'
  BY DEF TypeInv, RowsInv, Outside, RowsLeft, RowOf
<1>3. TimeInv'
  <2>1. \A r \in items' : \E q \in items : q.at = r.at
    <3>1. SUFFICES ASSUME NEW r \in items' PROVE \E q \in items : q.at = r.at
      OBVIOUS
    <3>2. r.at \in {q.at : q \in items}
      BY DEF Outside
    <3>. QED
      BY <3>2
  <2>. QED
    BY <1>1, <2>1 DEF TimeInv, RowsInv
<1>4. CountInv'
  BY <1>1, CountsKept DEF CountInv
<1>5. SummariesTruthful'
  BY <1>1, SummariesKept DEF SummariesTruthful
<1>. QED
  BY <1>2, <1>3, <1>4, <1>5

LEMMA IdleStates ==
  /\ SweepIdle \in SweepState /\ SweepIdle.stage = "idle" /\ SweepIdle.stale = {}
  /\ ReaderIdle \in ReaderState /\ ReaderIdle.stage = "idle"
<1>1. SweepIdle \in SweepState /\ SweepIdle.stage = "idle" /\ SweepIdle.stale = {}
  BY DEF SweepIdle, SweepState
<1>2. <<>> \in Seq(Actions)
  OBVIOUS
<1>. QED
  BY <1>1, <1>2 DEF ReaderIdle, ReaderState

\* A step that leaves the rows alone.
LEMMA SameRows ==
  ASSUME TypeInv, RowsInv, UNCHANGED <<items, session, batches, clock, imports>>,
         sweep' \in SweepState, reader' \in ReaderState,
         rule' \in 1..MaxRule, changes' \in Nat, faults' \in Nat
  PROVE  RowsInv' /\ Outside
  BY StaySteps DEF Outside

(***************************************************************************)
(* Changes                                                                 *)
(***************************************************************************)
LEMMA ReplacedDoes ==
  ASSUME TypeInv, RowsInv, NEW row \in items, NEW new, Later(row, new), Replaced(row, new),
         UNCHANGED <<session, batches, clock, imports, rule>>,
         sweep' \in SweepState, reader' \in ReaderState, changes' \in Nat, faults' \in Nat
  PROVE  RowsInv' /\ Outside
<1>1. Swaps(row, new)
  BY DEF Swaps, Replaced
<1>2. RowsInv' /\ RowsKept /\ {q.at : q \in items'} \subseteq {r.at : r \in items}
  BY <1>1, SwapSteps
<1>. QED
  BY <1>2 DEF Outside, TypeInv

\* Requests, escalations and new rules.
LEMMA ChangeDoes ==
  ASSUME ConstantsAssumption, TypeInv, RowsInv, SweepInv, Change
  PROVE  RowsInv' /\ Outside /\ SweepInv' /\ UNCHANGED <<sweep, reader>>
<1>1. CASE CreateRule
  <2>1. /\ UNCHANGED <<items, session, batches, clock, imports, sweep, reader, changes, faults,
                       ghosts>>
        /\ rule' \in 1..MaxRule
    BY <1>1 DEF CreateRule, bounds, TypeInv, ConstantsAssumption
  <2>2. RowsInv' /\ Outside
    BY <2>1, SameRows DEF TypeInv
  <2>3. SweepInv'
    BY <2>1, StaySweep
  <2>. QED
    BY <2>1, <2>2, <2>3
<1>2. ASSUME NEW row \in items, Request(row) \/ Escalate(row)
      PROVE  RowsInv' /\ Outside /\ SweepInv' /\ UNCHANGED <<sweep, reader>>
  <2>1. /\ UNCHANGED <<session, batches, clock, imports, rule, sweep, reader, faults>>
        /\ changes' = changes + 1
    BY <1>2 DEF Request, Escalate
  <2>2. PICK new : Later(row, new) /\ new.version = row.version /\ Replaced(row, new)
    <3>1. row \in Item
      BY DEF RowsInv
    <3>2. CASE Request(row)
      <4>1. PICK to \in {"in_progress", "returned", "adjudicated", "cancelled", "completed"} :
              Replaced(row, [row EXCEPT !.status = to, !.audit = Append(@, "change")])
        BY <3>2 DEF Request
      <4>2. to \in Status
        BY DEF Status
      <4>3. PICK new : new = [row EXCEPT !.status = to, !.audit = Append(@, "change")]
        OBVIOUS
      <4>4. Later(row, new) /\ new.version = row.version
        BY <3>1, <4>2, <4>3, RequestDoes
      <4>. QED
        BY <4>1, <4>3, <4>4
    <3>3. CASE Escalate(row)
      <4>1. PICK new : new = [row EXCEPT !.status = "escalated", !.level = @ + 1,
                                !.escalations = @ + 1, !.audit = Append(@, "escalate")]
        OBVIOUS
      <4>2. Later(row, new) /\ new.version = row.version
        BY <3>1, <4>1, EscalateDoes
      <4>. QED
        BY <3>3, <4>1, <4>2 DEF Escalate
    <3>. QED
      BY <1>2, <3>2, <3>3
  <2>3. changes' \in Nat /\ faults' \in Nat /\ sweep' \in SweepState /\ reader' \in ReaderState
    BY <2>1 DEF TypeInv
  <2>4. RowsInv' /\ Outside
    BY <2>1, <2>2, <2>3, ReplacedDoes
  <2>5. SweepInv'
    BY <2>1, <2>2, <2>4, SwapSweep
  <2>. QED
    BY <2>1, <2>4, <2>5
<1>. QED
  BY <1>1, <1>2 DEF Change

(***************************************************************************)
(* The sweep                                                               *)
(***************************************************************************)
LEMMA BeginSweeps ==
  ASSUME ConstantsAssumption, TypeInv, RowsInv, SweepBegin
  PROVE  RowsInv' /\ Outside /\ SweepInv' /\ UNCHANGED reader
<1>1. /\ UNCHANGED <<items, batches, session, reader, rule, clock, imports, changes, faults>>
      /\ sweep' = [SweepIdle EXCEPT !.stage = "listing", !.current = rule]
      /\ steady' = {row.at : row \in Stale({r \in items : r.status \in Listable}, rule)}
      /\ thinned' = {}
  BY DEF SweepBegin, bounds
<1>2. rule \in Nat
  BY DEF TypeInv, ConstantsAssumption
<1>3. /\ sweep' = [stage |-> "listing", current |-> rule, list |-> 1, offset |-> 0, stale |-> {}]
      /\ sweep' \in SweepState
  <2>1. sweep' = [stage |-> "listing", current |-> rule, list |-> 1, offset |-> 0,
                  stale |-> {}]
    BY <1>1 DEF SweepIdle
  <2>2. [stage |-> "listing", current |-> rule, list |-> 1, offset |-> 0, stale |-> {}]
          \in SweepState
    BY <1>2 DEF SweepState
  <2>. QED
    BY <2>1, <2>2
<1>4. RowsInv' /\ Outside
  BY <1>1, <1>3, SameRows DEF TypeInv
<1>5. steady' \subseteq {row.at : row \in items'}
  BY <1>1 DEF Stale
<1>6. ASSUME NEW row \in items', row.at \in steady'
      PROVE  row.version < rule /\ row.status \in Listable
  <2>1. PICK q \in items : q.at = row.at /\ q.version < rule /\ q.status \in Listable
    BY <1>1, <1>6 DEF Stale
  <2>2. q = row
    BY <1>1, <2>1 DEF RowsInv, OwnTimes
  <2>. QED
    BY <2>1, <2>2
<1>7. ASSUME NEW row \in items', row.at \in steady'
      PROVE  ToCollect(row)'
  <2>1. row.status = Reevaluable[1] \/ row.status = Reevaluable[2]
    BY <1>6, <1>7, Lists
  <2>2. OfStatus(row.status) \in SUBSET items /\ IsFiniteSet(OfStatus(row.status))
    <3>1. OfStatus(row.status) \in SUBSET items
      BY DEF OfStatus
    <3>. QED
      BY <3>1, FS_Subset DEF RowsInv
  <2>3. Rank(OfStatus(row.status), row) \in Nat
    BY <2>2, RankTyped
  <2>4. Newer(OfStatus(row.status), row)' = Newer(OfStatus(row.status), row)
    BY <1>1 DEF Newer, OfStatus
  <2>. QED
    BY <1>3, <2>1, <2>3, <2>4 DEF ToCollect, Rank
<1>8. SweepInv'
  BY <1>3, <1>5, <1>6, <1>7 DEF SweepInv, Collecting
<1>. QED
  BY <1>1, <1>4, <1>8

\* A page: what is to be collected is on it, or it is full and the row is behind it.
LEMMA PageSweeps ==
  ASSUME ConstantsAssumption, TypeInv, RowsInv, TimeInv, SweepInv, SweepReadPage
  PROVE  /\ RowsInv' /\ Outside /\ SweepInv' /\ UNCHANGED reader
         /\ sweep'.stage = "routing" =>
              \A row \in items :
                row.at \in steady /\ row.status \notin thinned => row.at \in sweep'.stale
<1>1. /\ UNCHANGED <<items, batches, session, reader, rule, clock, imports, changes, faults>>
      /\ sweep.stage = "listing"
  BY ReadPageDoes DEF bounds
<1>2. sweep' \in SweepState /\ sweep'.current = sweep.current
      /\ sweep'.stale = sweep.stale \cup PageFound
  BY ReadPageDoes DEF Paged, Sweeping
<1>3. RowsInv' /\ Outside
  BY <1>1, <1>2, SameRows DEF TypeInv
<1>4. sweep'.stale \subseteq {row.at : row \in items'}
  <2>1. PageFound \subseteq {row.at : row \in items}
    BY PageRows DEF PageFound, Stale
  <2>. QED
    BY <1>1, <1>2, <2>1 DEF SweepInv
<1>5. Collecting
  BY <1>1 DEF SweepInv
<1>6. \A row : Newer(OfStatus(row.status), row)' = Newer(OfStatus(row.status), row)
  BY <1>1 DEF Newer, OfStatus
<1>7. ASSUME sweep'.stage = "listing"
      PROVE  Collecting'
  <2>1. /\ UNCHANGED ghosts
        /\ \/ ~LastPage(Page) /\ sweep'.list = sweep.list
              /\ sweep'.offset = sweep.offset + SweepPageSize
           \/ LastPage(Page) /\ sweep.list = 1 /\ sweep'.list = 2 /\ sweep'.offset = 0
    BY <1>7, ReadPageDoes DEF Paged, Sweeping
  <2>2. ASSUME NEW row \in items, row.at \in steady, row.status \notin thinned
        PROVE  ToCollect(row)'
    <3>1. \/ row.at \in sweep.stale \cup PageFound
          \/ sweep.list = 1 /\ row.status = Reevaluable[2]
          \/ /\ row.status = Reevaluable[sweep.list] /\ ~LastPage(Page)
             /\ Rank(OfStatus(row.status), row) >= sweep.offset + SweepPageSize
      BY <1>1, <2>2, PageCollects
    <3>2. Rank(OfStatus(row.status), row) \in Nat
      <4>1. OfStatus(row.status) \in SUBSET items
        BY DEF OfStatus
      <4>. QED
        BY <4>1, FS_Subset, RankTyped DEF RowsInv
    <3>3. CASE row.at \in sweep.stale \cup PageFound
      BY <1>2, <3>3 DEF ToCollect
    <3>4. CASE sweep.list = 1 /\ row.status = Reevaluable[2]
      BY <1>6, <2>1, <3>2, <3>4 DEF ToCollect, Rank
    <3>5. CASE /\ row.status = Reevaluable[sweep.list] /\ ~LastPage(Page)
               /\ Rank(OfStatus(row.status), row) >= sweep.offset + SweepPageSize
      BY <1>6, <2>1, <3>5 DEF ToCollect, Rank
    <3>. QED
      BY <3>1, <3>3, <3>4, <3>5
  <2>. QED
    BY <1>1, <1>2, <1>5, <2>1, <2>2 DEF Collecting, ghosts
<1>8. ASSUME sweep'.stage = "routing", NEW row \in items, row.at \in steady,
             row.status \notin thinned
      PROVE  row.at \in sweep'.stale
  <2>1. LastPage(Page) /\ sweep.list = 2
    BY <1>8, ReadPageDoes DEF Paged, Sweeping
  <2>. QED
    BY <1>1, <1>2, <1>8, <2>1, PageCollects
<1>. QED
  BY <1>1, <1>3, <1>4, <1>7, <1>8 DEF SweepInv

LEMMA RouteSweeps ==
  ASSUME ConstantsAssumption, TypeInv, RowsInv, SweepInv, NEW row \in items, SweepRoute(row)
  PROVE  RowsInv' /\ Outside /\ SweepInv' /\ UNCHANGED reader
<1>1. /\ UNCHANGED <<batches, session, reader, rule, clock, imports, changes, faults>>
      /\ sweep' = [sweep EXCEPT !.stale = @ \ {row.at}]
  BY DEF SweepRoute, bounds
<1>2. /\ sweep' \in SweepState /\ sweep'.stage = "routing"
      /\ sweep'.stale \subseteq sweep.stale /\ sweep.current \in Nat
  BY <1>1 DEF SweepRoute, TypeInv, SweepState
<1>3. RowsInv' /\ Outside
  <2>1. CASE UNCHANGED items
    BY <1>1, <1>2, <2>1, SameRows DEF TypeInv
  <2>2. CASE Replaced(row, [row EXCEPT !.status = "adjudicated", !.version = sweep.current,
                                       !.audit = Append(@, "change")])
    <3>1. PICK new : new = [row EXCEPT !.status = "adjudicated", !.version = sweep.current,
                                       !.audit = Append(@, "change")]
      OBVIOUS
    <3>2. Later(row, new)
      BY <1>2, <3>1, RouteDoes DEF RowsInv
    <3>3. changes' \in Nat /\ faults' \in Nat /\ reader' \in ReaderState
      BY <1>1 DEF TypeInv
    <3>. QED
      BY <1>1, <1>2, <2>2, <3>1, <3>2, <3>3, ReplacedDoes
  <2>. QED
    BY <2>1, <2>2 DEF SweepRoute
<1>4. SweepInv'
  BY <1>2, <1>3 DEF SweepInv, Outside, RowsKept
<1>. QED
  BY <1>1, <1>3, <1>4

\* Steps of the re-evaluation sweep.
LEMMA SweepDoes ==
  ASSUME ConstantsAssumption, TypeInv, RowsInv, TimeInv, SweepInv, Sweep
  PROVE  RowsInv' /\ Outside /\ SweepInv' /\ UNCHANGED reader
<1>1. ASSUME SweepEnd \/ SweepFails
      PROVE  RowsInv' /\ Outside /\ SweepInv' /\ UNCHANGED reader
  <2>1. /\ UNCHANGED <<items, batches, session, reader, rule, clock, imports, changes>>
        /\ sweep' = SweepIdle /\ faults' \in Nat
    BY <1>1 DEF SweepEnd, SweepFails, bounds, TypeInv
  <2>2. RowsInv' /\ Outside
    BY <2>1, IdleStates, SameRows DEF TypeInv
  <2>3. SweepInv'
    BY <2>1, IdleStates DEF SweepInv
  <2>. QED
    BY <2>1, <2>2, <2>3
<1>. QED
  BY <1>1, BeginSweeps, PageSweeps, RouteSweeps DEF Sweep

(***************************************************************************)
(* Answers of several queries                                              *)
(***************************************************************************)

\* A detail that is not read on: the rows only go on.
LEMMA DetailStays ==
  ASSUME RowsInv, RowsInv', RowsKept, DetailInv, UNCHANGED reader, reader \in ReaderState
  PROVE  DetailInv'
<1>1. SUFFICES ASSUME reader.stage = "detail" PROVE DetailInv'
  BY DEF DetailInv
<1>2. PICK r \in items :
        /\ r.at = reader.item
        /\ reader.next > 1 => reader.level <= r.level
        /\ reader.next > 2 => reader.level <= reader.escalations /\ reader.escalations <= r.escalations
        /\ reader.next > 3 => Shown(reader.audit)
  BY <1>1 DEF DetailInv
<1>3. PICK q \in items' : Kept(r, q)
  BY DEF RowsKept
<1>4. /\ r.level \in Nat /\ q.level \in Nat /\ r.escalations \in Nat /\ q.escalations \in Nat
      /\ reader.level \in Nat /\ reader.escalations \in Nat
  BY ItemTyped DEF RowsInv, ReaderState
<1>5. /\ q.at = reader.item
      /\ reader.next > 1 => reader.level <= q.level
      /\ reader.next > 2 => reader.level <= reader.escalations /\ reader.escalations <= q.escalations
  BY <1>2, <1>3, <1>4 DEF Kept
<1>6. Shown(reader.audit)' = Shown(reader.audit)
  BY DEF Shown
<1>. QED
  BY <1>2, <1>5, <1>6 DEF DetailInv

\* A page of the audit that is not full is the whole audit.
LEMMA NewestShown ==
  ASSUME ConstantsAssumption, NEW audit \in Seq(Actions)
  PROVE  /\ NewestEntries(audit) \in Seq(Actions)
         /\ Len(NewestEntries(audit)) < AuditPageSize => NewestEntries(audit) = audit
<1>1. PICK n \in Nat, m \in Nat : n = Len(audit) /\ m = AuditPageSize /\ m # 0
  BY DEF ConstantsAssumption
<1>2. CASE n <= m
  BY <1>1, <1>2 DEF NewestEntries
<1>3. CASE ~(n <= m)
  <2>1. n - m + 1 \in 1..(n + 1) /\ n \in (n - m) .. n /\ n - m + 1 \in Nat
    BY <1>1, <1>3
  <2>2. PICK b \in 1..(n + 1) : b = n - m + 1
    BY <2>1
  <2>3. NewestEntries(audit) = SubSeq(audit, b, n)
    BY <1>1, <1>3, <2>2 DEF NewestEntries
  <2>4. /\ SubSeq(audit, b, n) \in Seq(Actions)
        /\ Len(SubSeq(audit, b, n)) = IF b <= n THEN n - b + 1 ELSE 0
    BY <1>1, <2>2, SubSeqProperties
  <2>5. b <= n /\ n - b + 1 = m
    BY <1>1, <1>3, <2>2
  <2>. QED
    BY <1>1, <2>3, <2>4, <2>5
<1>. QED
  BY <1>2, <1>3

SetTo(new, s, n, l, e, a, t, w) ==
  new = [s EXCEPT !.next = n, !.level = l, !.escalations = e, !.audit = a, !.total = t,
                  !.rows = w]

ReadSo(new, s, n, l, e, a) ==
  /\ new \in ReaderState /\ new.stage = s.stage /\ new.item = s.item
  /\ new.next = n /\ new.level = l /\ new.escalations = e /\ new.audit = a

LEMMA ReaderSet ==
  ASSUME NEW s \in ReaderState, NEW new, NEW n \in Nat \ {0}, NEW l \in Nat, NEW e \in Nat,
         NEW a \in Seq(Actions), NEW t \in Nat, NEW w \in Nat,
         SetTo(new, s, n, l, e, a, t, w)
  PROVE  ReadSo(new, s, n, l, e, a)
<1>1. new = [f \in {"stage", "next", "item", "level", "escalations", "audit", "total", "rows"}
               |-> new[f]]
  BY DEF ReaderState, SetTo
<1>2. /\ new.stage = s.stage /\ new.item = s.item /\ new.next = n /\ new.level = l
      /\ new.escalations = e /\ new.audit = a /\ new.total = t /\ new.rows = w
  BY DEF ReaderState, SetTo
<1>3. new = [stage |-> s.stage, next |-> n, item |-> s.item, level |-> l, escalations |-> e,
             audit |-> a, total |-> t, rows |-> w]
  BY <1>1, <1>2
<1>4. [stage |-> s.stage, next |-> n, item |-> s.item, level |-> l, escalations |-> e,
             audit |-> a, total |-> t, rows |-> w] \in ReaderState
  BY DEF ReaderState
<1>. QED
  BY <1>2, <1>3, <1>4 DEF ReadSo

LEMMA QueryNames ==
  /\ Len(DetailQueries) = 3 /\ Len(ListQueries) = 2
  /\ DetailQueries[1] = "item" /\ DetailQueries[2] = "escalations" /\ DetailQueries[3] = "audit"
  /\ ListQueries[1] = "count" /\ ListQueries[2] = "rows"
  BY DEF DetailQueries, ListQueries

LEMMA ExportReads ==
  ASSUME ConstantsAssumption, TypeInv, RowsInv, ReadNext, reader.stage = "export"
  PROVE  reader' \in ReaderState /\ reader'.stage = "export"
<1>1. /\ reader.next \in Nat \ {0} /\ reader \in ReaderState
      /\ reader.level \in Nat /\ reader.escalations \in Nat /\ reader.audit \in Seq(Actions)
      /\ reader.total \in Nat /\ reader.rows \in Nat
  BY DEF TypeInv, ReaderState
<1>2. Queries = ListQueries /\ reader.next \in 1..2
  <2>1. Queries = ListQueries
    BY DEF Queries
  <2>2. ~(reader.next > Len(Queries))
    BY DEF ReadNext, AllRead
  <2>3. ~(reader.next > 2)
    BY <2>1, <2>2, QueryNames
  <2>4. PICK n \in Nat \ {0} : n = reader.next
    BY <1>1
  <2>5. n \in 1..2
    BY <2>3, <2>4
  <2>. QED
    BY <2>1, <2>4, <2>5
<1>3. Queries[reader.next] \in {"count", "rows"}
  <2>1. reader.next = 1 \/ reader.next = 2
    BY <1>2
  <2>. QED
    BY <1>2, <2>1, QueryNames
<1>4. PICK total \in Nat, rows \in Nat :
        /\ total = Cardinality(items)
        /\ rows = Cardinality(ListItems(items, ExportPageSize, 0))
  <2>1. ListItems(items, ExportPageSize, 0) \in SUBSET items
    BY DEF ListItems
  <2>. QED
    BY <2>1, FS_Subset, FS_CardinalityType DEF RowsInv
<1>5. PICK n \in Nat \ {0} : n = reader.next + 1
  BY <1>1
<1>6. PICK t \in Nat : t = IF Queries[reader.next] = "count" THEN total ELSE reader.total
  BY <1>1
<1>7. PICK w \in Nat : w = IF Queries[reader.next] = "rows" THEN rows ELSE reader.rows
  BY <1>1
<1>8. PICK s \in ReaderState, l \in Nat, e \in Nat, a \in Seq(Actions) :
        s = reader /\ l = reader.level /\ e = reader.escalations /\ a = reader.audit
  BY <1>1
<1>9. PICK new : new = reader'
  OBVIOUS
<1>10. /\ Queries[reader.next] # "item" /\ Queries[reader.next] # "escalations"
       /\ Queries[reader.next] # "audit"
  BY <1>3
<1>11. SetTo(new, s, n, l, e, a, t, w)
  BY <1>4, <1>5, <1>6, <1>7, <1>8, <1>9, <1>10, Zenon DEF ReadNext, SetTo
<1>12. new \in ReaderState /\ new.stage = s.stage
  BY <1>11, ReaderSet DEF ReadSo
<1>. QED
  BY <1>8, <1>9, <1>12

\* A query of a detail: what is read later is never older.
LEMMA DetailReads ==
  ASSUME ConstantsAssumption, TypeInv, RowsInv, DetailInv, ReadNext, reader.stage = "detail"
  PROVE  reader' \in ReaderState /\ DetailInv'
<1>1. /\ reader.next \in Nat \ {0} /\ reader \in ReaderState
      /\ reader.level \in Nat /\ reader.escalations \in Nat /\ reader.audit \in Seq(Actions)
      /\ reader.total \in Nat /\ reader.rows \in Nat
  BY DEF TypeInv, ReaderState
<1>2. Queries = DetailQueries /\ reader.next \in 1..3
  <2>1. Queries = DetailQueries
    BY DEF Queries
  <2>2. ~(reader.next > Len(Queries))
    BY DEF ReadNext, AllRead
  <2>3. ~(reader.next > 3)
    BY <2>1, <2>2, QueryNames
  <2>4. PICK n \in Nat \ {0} : n = reader.next
    BY <1>1
  <2>5. n \in 1..3
    BY <2>3, <2>4
  <2>. QED
    BY <2>1, <2>4, <2>5
<1>3. PICK row \in items :
        /\ row.at = reader.item
        /\ reader.next > 1 => reader.level <= row.level
        /\ reader.next > 2 =>
             reader.level <= reader.escalations /\ reader.escalations <= row.escalations
  BY DEF DetailInv
<1>4. row = CHOOSE r \in items : r.at = reader.item
  BY <1>3 DEF RowsInv, OwnTimes
<1>5. /\ row.level \in Nat /\ row.escalations \in Nat /\ row.audit \in Seq(Actions)
      /\ Agrees(row)
  BY ItemTyped DEF RowsInv, AuditInv, Agrees
<1>6. /\ NewestEntries(row.audit) \in Seq(Actions)
      /\ Len(NewestEntries(row.audit)) < AuditPageSize => NewestEntries(row.audit) = row.audit
  BY <1>5, NewestShown
<1>7. Queries[reader.next] \in {"item", "escalations", "audit"}
  <2>1. reader.next = 1 \/ reader.next = 2 \/ reader.next = 3
    BY <1>2
  <2>. QED
    BY <1>2, <2>1, QueryNames
<1>8. PICK n \in Nat \ {0} : n = reader.next + 1
  BY <1>1
<1>l. PICK l \in Nat : l = IF Queries[reader.next] = "item" THEN row.level ELSE reader.level
  BY <1>1, <1>5
<1>e. PICK e \in Nat :
        e = IF Queries[reader.next] = "escalations" THEN row.escalations
            ELSE reader.escalations
  BY <1>1, <1>5
<1>a. PICK a \in Seq(Actions) :
        a = IF Queries[reader.next] = "audit" THEN NewestEntries(row.audit) ELSE reader.audit
  BY <1>1, <1>6
<1>9. UNCHANGED items
  BY DEF ReadNext
<1>10. /\ reader' \in ReaderState /\ reader'.stage = "detail" /\ reader'.item = reader.item
       /\ reader'.next = n /\ reader'.level = l /\ reader'.escalations = e
       /\ reader'.audit = a
  <2>1. PICK s \in ReaderState, t \in Nat, w \in Nat :
          s = reader /\ t = reader.total /\ w = reader.rows
    BY <1>1
  <2>2. PICK new : new = reader'
    OBVIOUS
  <2>3. Queries[reader.next] # "count" /\ Queries[reader.next] # "rows"
    BY <1>7
  <2>4. SetTo(new, s, n, l, e, a, t, w)
    <3>. DEFINE found == CHOOSE r \in items : r.at = reader.item
    <3>1. /\ l = IF Queries[reader.next] = "item" THEN found.level ELSE reader.level
          /\ e = IF Queries[reader.next] = "escalations" THEN found.escalations
                 ELSE reader.escalations
          /\ a = IF Queries[reader.next] = "audit" THEN NewestEntries(found.audit)
                 ELSE reader.audit
      BY <1>4, <1>l, <1>e, <1>a
    <3>2. reader' = [reader EXCEPT
            !.next = @ + 1,
            !.level = IF Queries[reader.next] = "item" THEN found.level ELSE @,
            !.escalations = IF Queries[reader.next] = "escalations" THEN found.escalations
                            ELSE @,
            !.audit = IF Queries[reader.next] = "audit" THEN NewestEntries(found.audit)
                      ELSE @,
            !.total = IF Queries[reader.next] = "count" THEN Cardinality(items) ELSE @,
            !.rows = IF Queries[reader.next] = "rows"
                     THEN Cardinality(ListItems(items, ExportPageSize, 0)) ELSE @]
      BY Zenon DEF ReadNext
    <3>. HIDE DEF found
    <3>. QED
      BY <1>8, <2>1, <2>2, <2>3, <3>1, <3>2, Zenon DEF SetTo
  <2>5. /\ new \in ReaderState /\ new.stage = s.stage /\ new.item = s.item
        /\ new.next = n /\ new.level = l /\ new.escalations = e /\ new.audit = a
    <3>1. ReadSo(new, s, n, l, e, a)
      BY <2>4, ReaderSet
    <3>. QED
      BY <3>1 DEF ReadSo
  <2>. QED
    BY <2>1, <2>2, <2>5
<1>11. /\ n > 1 => l <= row.level
       /\ n > 2 => l <= e /\ e <= row.escalations
       /\ n > 3 => (Len(a) < AuditPageSize => Cardinality(Escalations(a)) >= e)
  <2>1. CASE reader.next = 1
    <3>1. n = 2 /\ l = row.level
      BY <1>2, <1>8, <1>l, <2>1, QueryNames
    <3>. QED
      BY <1>5, <3>1
  <2>2. CASE reader.next = 2
    <3>1. n = 3 /\ l = reader.level /\ e = row.escalations
      BY <1>2, <1>8, <1>l, <1>e, <2>2, QueryNames
    <3>2. reader.level <= row.level /\ row.level = row.escalations
      BY <1>3, <1>5, <2>2 DEF Agrees
    <3>. QED
      BY <1>1, <1>5, <3>1, <3>2
  <2>3. CASE reader.next = 3
    <3>1. n = 4 /\ l = reader.level /\ e = reader.escalations /\ a = NewestEntries(row.audit)
      BY <1>2, <1>8, <1>l, <1>e, <1>a, <2>3, QueryNames
    <3>2. /\ reader.level <= row.level /\ reader.level <= reader.escalations
          /\ reader.escalations <= row.escalations
      BY <1>3, <2>3
    <3>3. Len(a) < AuditPageSize => Cardinality(Escalations(a)) = row.escalations
      BY <1>5, <1>6, <3>1 DEF Agrees
    <3>. QED
      BY <1>1, <1>5, <3>1, <3>2, <3>3
  <2>. QED
    BY <1>2, <2>1, <2>2, <2>3
<1>. QED
  BY <1>3, <1>9, <1>10, <1>11 DEF DetailInv, Shown

Asked(new, s, stage, item) == new = [s EXCEPT !.stage = stage, !.item = item]

LEMMA AskTyped ==
  ASSUME NEW s \in ReaderState, NEW stage \in {"detail", "export"}, NEW item \in Nat
  PROVE  /\ \A new : Asked(new, s, stage, item) =>
              new \in ReaderState /\ new.stage = stage /\ new.item = item /\ new.next = s.next
         /\ LET new == [s EXCEPT !.stage = stage]
            IN  new \in ReaderState /\ new.stage = stage
<1>. DEFINE r1 == [s EXCEPT !.stage = stage]
            r2 == [r1 EXCEPT !.item = item]
<1>1. [s EXCEPT !.stage = stage, !.item = item] = r2
  BY DEF ReaderState
<1>2. r1 \in ReaderState /\ r1.stage = stage /\ r1.next = s.next
  BY DEF ReaderState
<1>. HIDE DEF r1
<1>3. r2 \in ReaderState /\ r2.stage = stage /\ r2.next = s.next /\ r2.item = item
  BY <1>2 DEF ReaderState
<1>4. r1 = [s EXCEPT !.stage = stage]
  BY DEF r1
<1>. HIDE DEF r2
<1>. QED
  BY <1>1, <1>2, <1>3, <1>4 DEF Asked

LEMMA ReadDoesAnswer ==
  ASSUME ConstantsAssumption, TypeInv, RowsInv, DetailInv, SweepInv, Read
  PROVE  RowsInv' /\ Outside /\ SweepInv' /\ DetailInv' /\ UNCHANGED sweep
<1>1. UNCHANGED <<items, batches, session, sweep, rule, clock, imports, changes, faults, ghosts>>
  BY DEF Read, AskExport, AskDetail, ReadNext, Answer, bounds
<1>2. reader' \in ReaderState /\ DetailInv'
  <2>1. CASE AskExport
    <3>1. PICK s \in ReaderState : s = ReaderIdle
      BY IdleStates
    <3>2. reader' = [s EXCEPT !.stage = "export"]
      BY <2>1, <3>1 DEF AskExport
    <3>3. reader' \in ReaderState /\ reader'.stage = "export"
      BY <3>2, AskTyped
    <3>. QED
      BY <3>3 DEF DetailInv
  <2>2. ASSUME NEW row \in items, AskDetail(row)
        PROVE  reader' \in ReaderState /\ DetailInv'
    <3>1. row.at \in Nat
      BY ItemTyped DEF RowsInv
    <3>2. /\ reader' \in ReaderState /\ reader'.stage = "detail" /\ reader'.item = row.at
          /\ reader'.next = 1
      <4>1. PICK s \in ReaderState : s = ReaderIdle /\ s.next = 1
        BY IdleStates DEF ReaderIdle
      <4>2. PICK item \in Nat : item = row.at
        BY <3>1
      <4>3. PICK new : new = reader'
        OBVIOUS
      <4>4. Asked(new, s, "detail", item)
        BY <2>2, <4>1, <4>2, <4>3 DEF AskDetail, Asked
      <4>5. new \in ReaderState /\ new.stage = "detail" /\ new.item = item /\ new.next = s.next
        BY <4>4, AskTyped
      <4>. QED
        BY <4>1, <4>2, <4>3, <4>5
    <3>. QED
      BY <1>1, <3>2 DEF DetailInv
  <2>3. CASE ReadNext
    <3>1. reader.stage \in {"detail", "export"}
      BY <2>3 DEF ReadNext, TypeInv, ReaderState
    <3>2. reader'.stage = "export" => DetailInv'
      BY DEF DetailInv
    <3>. QED
      BY <2>3, <3>1, <3>2, ExportReads, DetailReads
  <2>4. CASE Answer
    BY <2>4, IdleStates DEF Answer, DetailInv
  <2>. QED
    BY <2>1, <2>2, <2>3, <2>4 DEF Read
<1>3. RowsInv' /\ Outside
  BY <1>1, <1>2, SameRows DEF TypeInv
<1>4. SweepInv'
  BY <1>1, StaySweep
<1>. QED
  BY <1>1, <1>2, <1>3, <1>4

(***************************************************************************)
(* The invariant                                                           *)
(***************************************************************************)
LEMMA RowsOfInv ==
  ASSUME ListsInv
  PROVE  RowsInv
  BY DEF ListsInv, RowsInv, TypeInv, TimeInv

LEMMA InitialLists ==
  ASSUME ConstantsAssumption, Init
  PROVE  ListsInv
<1>1. /\ items = {} /\ batches = {} /\ sweep = SweepIdle /\ reader = ReaderIdle
      /\ session = [i \in Importer |-> ImportIdle]
      /\ rule = 1 /\ clock = 0 /\ imports = 0 /\ changes = 0 /\ faults = 0
  BY DEF Init
<1>2. \A i \in Importer : /\ session[i] = ImportIdle /\ session[i].row = 0
                          /\ session[i].stage = "idle" /\ session[i].success = 0
                          /\ session[i].failure = 0
  BY <1>1, IdleTyped
<1>3. TypeInv
  <2>1. IsFiniteSet(items) /\ items \subseteq Item
    BY <1>1, FS_EmptySet
  <2>2. session \in [Importer -> ImportState]
    BY <1>1, IdleTyped
  <2>3. \A i \in Importer : session[i].row <= Len(File[i])
    BY <1>2, Files
  <2>4. rule \in 1..MaxRule /\ clock \in Nat /\ imports \in Nat /\ changes \in Nat /\ faults \in Nat
    BY <1>1 DEF ConstantsAssumption
  <2>. QED
    BY <1>1, <1>2, <2>1, <2>2, <2>3, <2>4, IdleStates DEF TypeInv
<1>4. TimeInv
  BY <1>1, <1>2 DEF TimeInv, OwnTimes
<1>5. RegisteredOnce /\ SummariesTruthful /\ AuditInv
  BY <1>1 DEF RegisteredOnce, SummariesTruthful, AuditInv
<1>6. CountInv
  <2>1. \A i \in Importer : Cardinality(There(File[i], 0)) \in Nat
    BY ThereTyped
  <2>2. ASSUME NEW i \in Importer
        PROVE  session[i].success <= Cardinality(There(File[i], session[i].row))
    <3>1. There(File[i], session[i].row) = There(File[i], 0)
      BY <1>2
    <3>. QED
      BY <1>2, <2>1, <3>1
  <2>. QED
    BY <1>2, <2>2 DEF CountInv
<1>7. DetailInv /\ SweepInv
  BY <1>1, IdleStates DEF DetailInv, SweepInv
<1>. QED
  BY <1>3, <1>4, <1>5, <1>6, <1>7 DEF ListsInv

LEMMA ImportKeeps ==
  ASSUME ConstantsAssumption, ListsInv, NEW i \in Importer, Import(i)
  PROVE  ListsInv' /\ UNCHANGED sweep
<1>1. /\ TypeInv /\ TimeInv /\ CountInv /\ SummariesTruthful /\ DetailInv /\ SweepInv
      /\ RowsInv
  BY RowsOfInv DEF ListsInv
<1>2. ImportDoes(i)
  BY <1>1, Imports
<1>3. RowsInv' /\ RowsKept
  BY <1>1, <1>2, ImportRows
<1>4. UNCHANGED <<sweep, reader, ghosts>>
  BY <1>2 DEF ImportDoes, Alone
<1>5. TypeInv' /\ TimeInv' /\ CountInv' /\ SummariesTruthful'
  BY <1>1, <1>2, <1>3, ImportTypes, ImportTimes, ImportCounts, ImportSummaries
<1>6. DetailInv'
  BY <1>1, <1>3, <1>4, DetailStays DEF TypeInv
<1>7. SweepInv'
  BY <1>1, <1>2, <1>3, <1>4, AddSweep, StaySweep
  DEF ImportDoes, Resets, Fails, Reads, Saves, Registers
<1>. QED
  BY <1>3, <1>4, <1>5, <1>6, <1>7 DEF ListsInv, RowsInv

LEMMA OutsideSteps ==
  ASSUME ConstantsAssumption, ListsInv, RowsInv', Outside, SweepInv', DetailInv'
  PROVE  ListsInv'
<1>1. TypeInv' /\ TimeInv' /\ CountInv' /\ SummariesTruthful'
  BY OutsideKeeps DEF ListsInv
<1>. QED
  BY <1>1 DEF ListsInv, RowsInv

\* Every step keeps the invariant.
LEMMA ListsStep ==
  ASSUME ConstantsAssumption, ListsInv, [Next]_vars
  PROVE  ListsInv'
<1>1. /\ TypeInv /\ TimeInv /\ CountInv /\ SummariesTruthful /\ DetailInv /\ SweepInv
      /\ RowsInv /\ reader \in ReaderState
  BY RowsOfInv DEF ListsInv, TypeInv
<1>2. CASE \E i \in Importer : Import(i)
  BY <1>2, ImportKeeps
<1>3. CASE Change
  <2>1. RowsInv' /\ Outside /\ SweepInv' /\ UNCHANGED reader
    BY <1>1, <1>3, ChangeDoes
  <2>2. DetailInv'
    BY <1>1, <2>1, DetailStays DEF Outside
  <2>. QED
    BY <2>1, <2>2, OutsideSteps
<1>4. CASE Sweep
  <2>1. RowsInv' /\ Outside /\ SweepInv' /\ UNCHANGED reader
    BY <1>1, <1>4, SweepDoes
  <2>2. DetailInv'
    BY <1>1, <2>1, DetailStays DEF Outside
  <2>. QED
    BY <2>1, <2>2, OutsideSteps
<1>5. CASE Read
  <2>1. RowsInv' /\ Outside /\ SweepInv' /\ DetailInv'
    BY <1>1, <1>5, ReadDoesAnswer
  <2>. QED
    BY <2>1, OutsideSteps
<1>6. CASE UNCHANGED vars
  <2>1. UNCHANGED <<items, batches, session, sweep, reader, rule, clock, imports, changes, faults,
                    ghosts>>
    BY <1>6 DEF vars, bounds
  <2>2. RowsInv' /\ Outside
    BY <1>1, <2>1, SameRows DEF TypeInv
  <2>3. SweepInv'
    BY <1>1, <2>1, StaySweep
  <2>4. DetailInv'
    BY <1>1, <2>1, <2>2, DetailStays DEF Outside
  <2>. QED
    BY <2>2, <2>3, <2>4, OutsideSteps
<1>. QED
  BY <1>2, <1>3, <1>4, <1>5, <1>6 DEF Next

(***************************************************************************)
(* Theorems                                                                *)
(***************************************************************************)

\* Every state of the imports, of the sweep and of the reader satisfies ListsInv.
THEOREM ListsInvariant == Spec => []ListsInv
<1>1. Init => ListsInv
  BY ConstantsAssumption, InitialLists
<1>2. ListsInv /\ [Next]_vars => ListsInv'
  BY ConstantsAssumption, ListsStep
<1>. QED
  BY <1>1, <1>2, PTL DEF Spec

\* The types of all variables.
THEOREM ListsTyped == Spec => []TypeOK
<1>1. ListsInv => TypeOK
  <2>1. SUFFICES ASSUME ListsInv PROVE TypeOK
    OBVIOUS
  <2>2. TypeInv /\ SweepInv
    BY <2>1 DEF ListsInv
  <2>3. /\ \A i \in Importer : session[i] \in ImportState
        /\ \A i \in Importer : session[i].row <= Len(File[i])
    BY <2>2 DEF TypeInv
  <2>4. \A i \in Importer : session[i].stage \in {"idle", "row", "insert"} /\ session[i].row \in Nat
    BY <2>3 DEF ImportState
  <2>5. \A i \in Importer : session[i].row \in 0..Len(File[i])
    BY <2>3, <2>4, ConstantsAssumption, Files
  <2>6. sweep.stage \in {"idle", "listing", "routing"} /\ sweep.list \in DOMAIN Reevaluable
    BY <2>2 DEF TypeInv, SweepState, Reevaluable
  <2>7. reader.stage \in {"idle", "detail", "export"} /\ reader.next \in Nat
    BY <2>2 DEF TypeInv, ReaderState
  <2>. QED
    BY <2>2, <2>4, <2>5, <2>6, <2>7 DEF TypeInv, SweepInv, TypeOK
<1>. QED
  BY <1>1, ListsInvariant, PTL

\* No interleaving of imports registers a reference twice.
THEOREM ReferencesRegisteredOnce == Spec => []RegisteredOnce
<1>1. ListsInv => RegisteredOnce
  BY DEF ListsInv
<1>. QED
  BY <1>1, ListsInvariant, PTL

\* The summary of an import counts each row of its file, and as a success only
\* rows whose suggestion is there.
THEOREM SummariesAreTruthful == Spec => []SummariesTruthful
<1>1. ListsInv => SummariesTruthful
  BY DEF ListsInv
<1>. QED
  BY <1>1, ListsInvariant, PTL

\* The queries of a detail, read one after the other, fit together.
THEOREM DetailsCover == Spec => []DetailCovers
<1>1. ListsInv => DetailCovers
  <2>1. SUFFICES ASSUME ListsInv, reader.stage = "detail", AllRead PROVE
          /\ reader.escalations >= reader.level
          /\ Len(reader.audit) < AuditPageSize =>
               Cardinality({n \in DOMAIN reader.audit : reader.audit[n] = "escalate"})
                 >= reader.escalations
    BY DEF DetailCovers
  <2>2. reader.next \in Nat /\ reader.level \in Nat /\ reader.escalations \in Nat
    BY <2>1 DEF ListsInv, TypeInv, ReaderState
  <2>3. reader.next > 3
    BY <2>1, QueryNames DEF AllRead, Queries
  <2>4. reader.level <= reader.escalations /\ Shown(reader.audit)
    BY <2>1, <2>2, <2>3 DEF ListsInv, DetailInv
  <2>. QED
    BY <2>2, <2>4 DEF Shown, Escalations
<1>. QED
  BY <1>1, ListsInvariant, PTL

\* A sweep misses no row that was stale when it began and stayed in a list that
\* lost no row.
THEOREM SweepsCollect == Spec => SweepCollects
<1>1. ListsInv /\ [Next]_vars =>
        [sweep.stage = "listing" /\ sweep'.stage = "routing" =>
           \A row \in items :
             row.at \in steady /\ row.status \notin thinned => row.at \in sweep'.stale]_vars
  <2>1. SUFFICES ASSUME ListsInv, Next, sweep.stage = "listing", sweep'.stage = "routing",
                        NEW row \in items, row.at \in steady, row.status \notin thinned
                 PROVE  row.at \in sweep'.stale
    OBVIOUS
  <2>2. TypeInv /\ TimeInv /\ SweepInv /\ RowsInv /\ DetailInv
    BY <2>1, RowsOfInv DEF ListsInv
  <2>3. sweep' # sweep
    BY <2>1
  <2>4. Sweep
    BY <2>1, <2>2, <2>3, ConstantsAssumption, ImportKeeps, ChangeDoes, ReadDoesAnswer DEF Next
  <2>5. SweepReadPage
    <3>1. SweepIdle.stage = "idle"
      BY IdleStates
    <3>2. ~SweepBegin /\ ~SweepEnd /\ ~SweepFails /\ ~SweepRoute(row)
      BY <2>1, <3>1 DEF SweepBegin, SweepEnd, SweepFails, SweepRoute
    <3>3. \A r \in items : ~SweepRoute(r)
      BY <2>1 DEF SweepRoute
    <3>. QED
      BY <2>4, <3>2, <3>3 DEF Sweep
  <2>. QED
    BY <2>1, <2>2, <2>5, ConstantsAssumption, PageSweeps
<1>. QED
  BY <1>1, ListsInvariant, PTL DEF Spec, SweepCollects

=============================================================================

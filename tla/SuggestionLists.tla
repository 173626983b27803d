--------------------------- MODULE SuggestionLists ---------------------------
(***************************************************************************)
(* Imports and readers of many rows.  An import registers its rows one by  *)
(* one, each in a transaction of its own, and stores a summary at the end  *)
(* (BatchService.Import).  What reads more than one row reads in several   *)
(* queries without a transaction: the pages of the re-evaluation sweep     *)
(* (collectStaleItems), the count and the rows of an export                *)
(* (Index.ListItems) and the four queries of QueryService.GetItemDetail.   *)
(*                                                                         *)
(* Requests, escalations and new rules change the rows in between, each in *)
(* one transaction; how they come to do so is in SuggestionRouting.        *)
(***************************************************************************)
EXTENDS Integers, Sequences, FiniteSets, SuggestionStatus

CONSTANTS
  Ref,             \* external references
  NoRef,           \* a row of a file without a reference
  Importer,        \* requests and processes that import
  File,            \* the rows each of them sends
  PageCap,         \* rows a list returns at most (200)
  SweepPageSize,   \* sweepPageSize (200)
  ExportPageSize,  \* rows Export asks for (1000)
  AuditPageSize,   \* audit entries of a detail (100)
  MaxImports,      \* bound: imports begun
  MaxChanges,      \* bound: changes of rows by requests and escalations
  MaxRule,         \* bound: rule versions
  MaxFaults,       \* bound: failing statements and crashes
  InTurn           \* bound: sweeps and answers do not overlap

ASSUME ConstantsAssumption ==
  /\ NoRef \notin Ref
  /\ File \in [Importer -> Seq(Ref \cup {NoRef})]
  /\ {PageCap, SweepPageSize, ExportPageSize, AuditPageSize} \subseteq Nat \ {0}
  /\ SweepPageSize <= PageCap
  /\ {MaxImports, MaxChanges, MaxFaults} \subseteq Nat
  /\ MaxRule \in Nat \ {0}
  /\ InTurn \in BOOLEAN

VARIABLES
  items,     \* the rows of items with what their other tables say of them
  batches,   \* the summaries of import_batches
  session,   \* the import of each importer
  sweep,     \* the re-evaluation worker while it collects
  reader,    \* a request for an export or for the detail of a suggestion
  rule,      \* the newest rule version, a default rule that is in force
  clock,     \* readings of the clock: one for each registration
  imports, changes, faults,
  steady,    \* for the properties: rows listed and stale since the sweep began
  thinned    \* for the properties: lists that have lost a row since

bounds == <<imports, changes, faults>>
ghosts == <<steady, thinned>>
vars == <<items, batches, session, sweep, reader, rule, clock, bounds, ghosts>>

\* The level, the rows of escalations and the actions of audit_entries.
Item ==
  [ref : Ref, at : Nat \ {0}, status : Status, version : Nat, level : Nat,
   escalations : Nat, audit : Seq({"register", "change", "escalate"})]

\* An import: rows dealt with, its two counts, and the row whose reads are done.
ImportIdle ==
  [stage |-> "idle", row |-> 0, success |-> 0, failure |-> 0, at |-> 0, version |-> 0]

SweepIdle ==
  [stage |-> "idle", current |-> 0, list |-> 1, offset |-> 0, stale |-> {}]

ReaderIdle ==
  [stage |-> "idle", next |-> 1, item |-> 0, level |-> 0, escalations |-> 0,
   audit |-> <<>>, total |-> 0, rows |-> 0]

Init ==
  /\ items = {} /\ batches = {}
  /\ session = [i \in Importer |-> ImportIdle]
  /\ sweep = SweepIdle
  /\ reader = ReaderIdle
  /\ rule = 1
  /\ clock = 0
  /\ imports = 0 /\ changes = 0 /\ faults = 0
  /\ steady = {} /\ thinned = {}

-----------------------------------------------------------------------------
\* Index.ListItems: newest first, from the offset on, at most PageCap rows.

Newer(rows, row) == {r \in rows : r.at > row.at}

Limit(size) == IF size > PageCap THEN PageCap ELSE size

ListItems(rows, size, offset) ==
  {row \in rows : Cardinality(Newer(rows, row)) \in offset..(offset + Limit(size) - 1)}

OfStatus(s) == {row \in items : row.status = s}

-----------------------------------------------------------------------------
\* BatchService.Import.

RowOf(i) == File[i][session[i].row + 1]

RowsLeft(i) == session[i].row < Len(File[i])

\* A mutation of Failed: the loop does not continue after an error.
FailedThrough(done) ==
  [done EXCEPT !.stage = "row", !.row = @ + 1, !.failure = @ + 1, !.success = @ + 1]

\* The row is counted as a failure, and the loop goes on with the next.
Failed(done) == [done EXCEPT !.stage = "row", !.row = @ + 1, !.failure = @ + 1]

\* A mutation of Succeeded: the index of the rows advances twice.
SucceededTwice(done) ==
  [done EXCEPT !.stage = "row", !.row = @ + 2, !.success = @ + 1]

Succeeded(done) == [done EXCEPT !.stage = "row", !.row = @ + 1, !.success = @ + 1]

Exists(ref) == \E row \in items : row.ref = ref

ImportBegin(i) ==
  /\ session[i] = ImportIdle
  /\ imports < MaxImports
  /\ imports' = imports + 1
  /\ session' = [session EXCEPT ![i].stage = "row"]
  /\ UNCHANGED <<items, batches, sweep, reader, rule, clock, changes, faults, ghosts>>

\* Register refuses a row without a reference and returns a suggestion that
\* exists; otherwise it reads the clock and the rules.
RegisterRead(i) ==
  /\ session[i].stage = "row" /\ RowsLeft(i)
  /\ \/ /\ RowOf(i) = NoRef
        /\ session' = [session EXCEPT ![i] = Failed(@)]
        /\ UNCHANGED clock
     \/ /\ Exists(RowOf(i))
        /\ session' = [session EXCEPT ![i] = Succeeded(@)]
        /\ UNCHANGED clock
     \/ /\ RowOf(i) # NoRef /\ ~Exists(RowOf(i))
        /\ clock' = clock + 1
        /\ session' = [session EXCEPT ![i] =
             [@ EXCEPT !.stage = "insert", !.at = clock', !.version = rule]]
  /\ UNCHANGED <<items, batches, sweep, reader, rule, bounds, ghosts>>

\* A mutation of Taken: items.external_ref has no unique index.
NeverTaken(ref) == FALSE

\* The unique index on items.external_ref.
Taken(ref) == Exists(ref)

RegisterCommit(i) ==
  LET row == [ref |-> RowOf(i), at |-> session[i].at, status |-> "adjudicated",
              version |-> session[i].version, level |-> 0, escalations |-> 0,
              audit |-> <<"register">>]
      done == [session[i] EXCEPT !.at = 0, !.version = 0]
  IN  /\ session[i].stage = "insert"
      /\ \/ /\ Taken(RowOf(i))
            /\ session' = [session EXCEPT ![i] = Failed(done)]
            /\ UNCHANGED items
         \/ /\ ~Taken(RowOf(i))
            /\ session' = [session EXCEPT ![i] = Succeeded(done)]
            /\ items' = items \cup {row}
      /\ UNCHANGED <<batches, sweep, reader, rule, clock, bounds, ghosts>>

\* A read or the transaction of a row fails.
RegisterFails(i) ==
  /\ session[i].stage \in {"row", "insert"} /\ RowsLeft(i)
  /\ faults < MaxFaults
  /\ faults' = faults + 1
  /\ session' = [session EXCEPT ![i] =
       Failed([@ EXCEPT !.at = 0, !.version = 0])]
  /\ UNCHANGED <<items, batches, sweep, reader, rule, clock, imports, changes, ghosts>>

ImportSave(i) ==
  /\ session[i].stage = "row" /\ ~RowsLeft(i)
  /\ batches' = batches \cup
       {[by |-> i, success |-> session[i].success, failure |-> session[i].failure]}
  /\ session' = [session EXCEPT ![i] = ImportIdle]
  /\ UNCHANGED <<items, sweep, reader, rule, clock, bounds, ghosts>>

\* The process dies, the request is given up, or the summary is not stored.
ImportEnds(i) ==
  /\ session[i] # ImportIdle
  /\ faults < MaxFaults
  /\ faults' = faults + 1
  /\ session' = [session EXCEPT ![i] = ImportIdle]
  /\ UNCHANGED <<items, batches, sweep, reader, rule, clock, imports, changes, ghosts>>

-----------------------------------------------------------------------------
\* What changes the rows, each in one transaction.

\* The statuses the sweep lists.
Reevaluable == <<"registered", "adjudicated">>

Listable == {Reevaluable[n] : n \in DOMAIN Reevaluable}

Replaced(row, new) ==
  /\ items' = (items \ {row}) \cup {new}
  /\ IF row.status \in Listable /\ new.status # row.status /\ sweep.stage = "listing"
     THEN thinned' = thinned \cup {row.status} /\ steady' = steady \ {row.at}
     ELSE UNCHANGED ghosts

\* A request that moves the row to another status; Resubmit passes through
\* registered without storing it.
Request(row) ==
  /\ changes < MaxChanges
  /\ changes' = changes + 1
  /\ \E to \in {"in_progress", "returned", "adjudicated", "cancelled", "completed"} :
       /\ \/ ValidTransition(row.status, to)
          \/ row.status = "returned" /\ to = "adjudicated"
       /\ Replaced(row, [row EXCEPT !.status = to, !.audit = Append(@, "change")])
  /\ UNCHANGED <<batches, session, sweep, reader, rule, clock, imports, faults>>

Escalate(row) ==
  /\ changes < MaxChanges
  /\ changes' = changes + 1
  /\ ValidTransition(row.status, "escalated")
  /\ Replaced(row, [row EXCEPT !.status = "escalated", !.level = @ + 1,
                               !.escalations = @ + 1,
                               !.audit = Append(@, "escalate")])
  /\ UNCHANGED <<batches, session, sweep, reader, rule, clock, imports, faults>>

\* A default rule that supersedes the one in force.
CreateRule ==
  /\ rule < MaxRule
  /\ rule' = rule + 1
  /\ UNCHANGED <<items, batches, session, sweep, reader, clock, bounds, ghosts>>

-----------------------------------------------------------------------------
\* ReevalWorker.sweep: the lists page by page, then what was collected.

\* The sweep and an answer may overlap, unless the bound keeps them apart.
MayBegin(otherIdle) == InTurn => otherIdle

Stale(rows, current) == {row \in rows : row.version < current}

SweepBegin ==
  /\ sweep = SweepIdle /\ MayBegin(reader = ReaderIdle)
  /\ sweep' = [SweepIdle EXCEPT !.stage = "listing", !.current = rule]
  /\ steady' = {row.at : row \in
                  Stale({r \in items : r.status \in Listable}, rule)}
  /\ thinned' = {}
  /\ UNCHANGED <<items, batches, session, reader, rule, clock, bounds>>

Forgotten == steady' = {} /\ thinned' = {}

\* A mutation of LastPage: the sweep expects more rows than a list returns.
LastPageOfMore(page) == Cardinality(page) < PageCap + 1

LastPage(page) == Cardinality(page) < SweepPageSize

SweepReadPage ==
  LET page == ListItems(OfStatus(Reevaluable[sweep.list]), SweepPageSize, sweep.offset)
      found == {row.at : row \in Stale(page, sweep.current)}
      read == [sweep EXCEPT !.stale = @ \cup found]
  IN  /\ sweep.stage = "listing"
      /\ sweep' =
           IF ~LastPage(page) THEN [read EXCEPT !.offset = @ + SweepPageSize]
           ELSE IF sweep.list < Len(Reevaluable)
           THEN [read EXCEPT !.list = @ + 1, !.offset = 0]
           ELSE [read EXCEPT !.stage = "routing", !.list = 1, !.offset = 0]
      /\ IF sweep'.stage = "listing" THEN UNCHANGED ghosts ELSE Forgotten
      /\ UNCHANGED <<items, batches, session, reader, rule, clock, bounds>>

\* reevaluateItem reloads the row and leaves it alone when it has moved on.
SweepRoute(row) ==
  /\ sweep.stage = "routing" /\ row.at \in sweep.stale
  /\ sweep' = [sweep EXCEPT !.stale = @ \ {row.at}]
  /\ IF row.version < sweep.current /\ row.status \in Listable
     THEN Replaced(row, [row EXCEPT !.status = "adjudicated", !.version = sweep.current,
                                    !.audit = Append(@, "change")])
     ELSE UNCHANGED <<items, ghosts>>
  /\ UNCHANGED <<batches, session, reader, rule, clock, bounds>>

SweepEnd ==
  /\ sweep.stage = "routing" /\ sweep.stale = {}
  /\ sweep' = SweepIdle
  /\ UNCHANGED <<items, batches, session, reader, rule, clock, bounds, ghosts>>

\* A list cannot be read: the sweep is given up.
SweepFails ==
  /\ sweep.stage = "listing"
  /\ faults < MaxFaults
  /\ faults' = faults + 1
  /\ sweep' = SweepIdle
  /\ Forgotten
  /\ UNCHANGED <<items, batches, session, reader, rule, clock, imports, changes>>

-----------------------------------------------------------------------------
\* Answers of several queries.

\* A mutation of DetailQueries: the row itself is read last.
ItemLast == <<"escalations", "audit", "item">>

\* QueryService.GetItemDetail; its referrals are read in one query, too.
DetailQueries == <<"item", "escalations", "audit">>

\* Index.ListItems, for BatchService.Export.
ListQueries == <<"count", "rows">>

Queries == IF reader.stage = "detail" THEN DetailQueries ELSE ListQueries

AllRead == reader.next > Len(Queries)

AskDetail(row) ==
  /\ reader = ReaderIdle /\ MayBegin(sweep = SweepIdle)
  /\ reader' = [ReaderIdle EXCEPT !.stage = "detail", !.item = row.at]
  /\ UNCHANGED <<items, batches, session, sweep, rule, clock, bounds, ghosts>>

AskExport ==
  /\ reader = ReaderIdle /\ MayBegin(sweep = SweepIdle)
  /\ reader' = [ReaderIdle EXCEPT !.stage = "export"]
  /\ UNCHANGED <<items, batches, session, sweep, rule, clock, bounds, ghosts>>

NewestEntries(audit) ==
  IF Len(audit) <= AuditPageSize THEN audit
  ELSE SubSeq(audit, Len(audit) - AuditPageSize + 1, Len(audit))

ReadNext ==
  LET row == CHOOSE r \in items : r.at = reader.item
      query == Queries[reader.next]
  IN  /\ reader.stage # "idle" /\ ~AllRead
      /\ reader' = [reader EXCEPT
           !.next = @ + 1,
           !.level = IF query = "item" THEN row.level ELSE @,
           !.escalations = IF query = "escalations" THEN row.escalations ELSE @,
           !.audit = IF query = "audit" THEN NewestEntries(row.audit) ELSE @,
           !.total = IF query = "count" THEN Cardinality(items) ELSE @,
           !.rows = IF query = "rows" THEN Cardinality(ListItems(items, ExportPageSize, 0))
                    ELSE @]
      /\ UNCHANGED <<items, batches, session, sweep, rule, clock, bounds, ghosts>>

\* The answer is sent.
Answer ==
  /\ reader.stage # "idle" /\ AllRead
  /\ reader' = ReaderIdle
  /\ UNCHANGED <<items, batches, session, sweep, rule, clock, bounds, ghosts>>

-----------------------------------------------------------------------------
Import(i) ==
  \/ ImportBegin(i) \/ RegisterRead(i) \/ RegisterCommit(i) \/ RegisterFails(i)
  \/ ImportSave(i) \/ ImportEnds(i)

Change == CreateRule \/ \E row \in items : Request(row) \/ Escalate(row)

Sweep ==
  \/ SweepBegin \/ SweepReadPage \/ SweepEnd \/ SweepFails
  \/ \E row \in items : SweepRoute(row)

Read == AskExport \/ ReadNext \/ Answer \/ \E row \in items : AskDetail(row)

Next == (\E i \in Importer : Import(i)) \/ Change \/ Sweep \/ Read

Spec == Init /\ [][Next]_vars

-----------------------------------------------------------------------------
\* Properties.

\* TYPE. The rows of items, the counts of import_batches and the states of the
\* imports, of the sweep and of the reader.
TypeOK ==
  /\ items \subseteq Item /\ IsFiniteSet(items)
  /\ \A b \in batches : b.by \in Importer /\ b.success \in Nat /\ b.failure \in Nat
  /\ \A i \in Importer :
       /\ session[i].stage \in {"idle", "row", "insert"}
       /\ session[i].row \in 0..Len(File[i])
  /\ sweep.stage \in {"idle", "listing", "routing"}
  /\ sweep.list \in DOMAIN Reevaluable
  /\ sweep.stale \subseteq {row.at : row \in items}
  /\ reader.stage \in {"idle", "detail", "export"} /\ reader.next \in Nat
  /\ rule \in 1..MaxRule /\ clock \in Nat

\* SAFETY. A reference is registered once, though two imports of overlapping
\* files and a repeated one look for it before they insert it (Register).
RegisteredOnce == \A a, b \in items : a.ref = b.ref => a = b

\* SAFETY. The summary of an import accounts for each row of its file once, and
\* counts as a success only rows whose suggestion is there, whatever failed,
\* raced or was imported before (BatchService.Import).
SummariesTruthful ==
  \A b \in batches :
    /\ b.success + b.failure = Len(File[b.by])
    /\ b.success <= Cardinality({n \in DOMAIN File[b.by] : Exists(File[b.by][n])})

\* SAFETY. A sweep collects every row that was stale when it began and stayed in
\* its list, across pages read at different times and rows that imports add in
\* between, as long as that list loses no row (collectStaleItems).
SweepCollects ==
  [][sweep.stage = "listing" /\ sweep'.stage = "routing" =>
       \A row \in items :
         row.at \in steady /\ row.status \notin thinned => row.at \in sweep'.stale]_vars

\* SAFETY. The detail of a suggestion shows at least the escalations its level
\* counts, and an audit entry for each escalation shown unless the audit is
\* longer than a page: what is read later is never older (GetItemDetail).
DetailCovers ==
  reader.stage = "detail" /\ AllRead =>
    /\ reader.escalations >= reader.level
    /\ Len(reader.audit) < AuditPageSize =>
         Cardinality({n \in DOMAIN reader.audit : reader.audit[n] = "escalate"})
           >= reader.escalations

-----------------------------------------------------------------------------
\* What the code does not keep.

\* internal/worker/reeval.go:27: a sweep collects the rows still routed under an
\* older version.
EveryStaleCollected ==
  [][sweep.stage = "listing" /\ sweep'.stage = "routing" =>
       \A row \in items : row.at \in steady => row.at \in sweep'.stale]_vars

\* cmd/civicctl/main.go:197: the number an export reports is that of the rows.
ExportComplete == reader.stage = "export" /\ AllRead => reader.rows >= reader.total

=============================================================================

----------------------------- MODULE RecordStore -----------------------------
(***************************************************************************)
(* The composite store (internal/repo, internal/shard): every save of a    *)
(* transaction first appends a line to a JSONL shard, one file for each    *)
(* kind of record and day, then executes its statement on the SQLite       *)
(* index; a rollback undoes the index and leaves the lines.                *)
(* `civicctl rebuild-index' is a second process that reads the shards and  *)
(* replaces the tables; Reconcile compares the shards with the manifest    *)
(* the last rebuild wrote.                                                 *)
(*                                                                         *)
(* The server has one connection, so its transactions run one at a time.   *)
(* Towards the other process they hold the write lock of the index from    *)
(* their first statement on; the lines are written under no lock at all.   *)
(*                                                                         *)
(* Of the audit only the entries a rebuild evaluates are kept; failures    *)
(* and batches are rows a rebuild copies like escalations.                 *)
(***************************************************************************)
EXTENDS Integers, Sequences, FiniteSets

CONSTANTS
  Ref,         \* external references of suggestions
  Thread,      \* threads of the server
  ShardLines,  \* lines that fill a file (maxShardSize), 0 for no limit
  MaxDay,      \* bound: the last day
  MaxStamp,    \* bound: operations ever begun
  MaxFaults,   \* bound: transactions cut short, lines torn, files unreadable
  MaxLosses,   \* bound: how often the index file is lost
  LiveRebuild  \* bound: is a rebuild begun on an index that holds rules?

ASSUME ConstantsAssumption ==
  /\ LiveRebuild \in BOOLEAN
  /\ ShardLines \in Nat
  /\ MaxDay \in Nat \ {0}
  /\ MaxStamp \in Nat
  /\ MaxFaults \in Nat
  /\ MaxLosses \in Nat

VARIABLES
  day,        \* the date of the injected clock
  shards,     \* the lines of each kind and day, in the order of writing
  db,         \* the committed tables of the index
  view,       \* the tables as the holder of the write lock sees them
  session,    \* the transaction of each thread
  ctl,        \* the process that rebuilds the index
  recon,      \* Reconcile: what it has listed
  stamps,     \* how many operations have begun
  faults,     \* how many faults there were
  losses,     \* how often the index was lost
  committed,  \* for the properties: the rows of items, in commit order
  retired     \* for the properties: the rules a transaction has superseded

server == <<session, stamps>>
history == <<committed, retired>>
vars == <<day, shards, db, view, server, ctl, recon, faults, losses, history>>

Day == 1..MaxDay

\* What the JSON of a record carries; the stamp stands for all other columns.
Record ==
  [items       |-> [key: Nat, ref: Ref, stamp: Nat],
   rules       |-> [key: Nat, stamp: Nat, active: BOOLEAN],
   assignments |-> [key: Nat, item: Nat, current: BOOLEAN],
   escalations |-> [key: Nat, item: Nat],
   audit       |-> [key: Nat, rule: Nat]]

Kind == {"items", "rules", "assignments", "escalations", "audit"}

File == [kind: Kind, day: Day]

\* The directories of the shards in the order of their paths.
PathRank ==
  [assignments |-> 1, audit |-> 2, escalations |-> 3, items |-> 4, rules |-> 5]

PathBefore(f, g) ==
  \/ PathRank[f.kind] < PathRank[g.kind]
  \/ f.kind = g.kind /\ f.day < g.day

\* What a write that failed half way leaves at the end of a file, and what it
\* becomes when the next record is written behind it.
Torn == [torn |-> TRUE]
Garbled == [torn |-> FALSE]

Line(kind) == Record[kind] \cup {Torn, Garbled}

Decodable(line) == "key" \in DOMAIN line

\* The intakes stand for all tables with a foreign key to items: no shard
\* records them.
EmptyIndex ==
  [items |-> {}, rules |-> {}, assignments |-> {}, escalations |-> {},
   audit |-> {}, intakes |-> {}, manifest |-> {}]

Keys(rows) == {row.key : row \in rows}

\* The statements of a transaction; an insert and an update write a line first.
Insert(kind, row, at) ==
  [op |-> "insert", kind |-> kind, row |-> row, day |-> at]
Update(row) == [op |-> "update", kind |-> "items", row |-> row]
SupersedeReferrals(item) == [op |-> "supersede_referrals", item |-> item]
SupersedeRule(version) == [op |-> "supersede_rule", version |-> version]
Bind(item) == [op |-> "bind", item |-> item]

HasLine(s) == s.op \in {"insert", "update"}

\* A thread without work; `open' is said of the one that has the connection,
\* `locked' of one that has executed a statement, `written' when the line of
\* its next statement is on the shard.
Idle == [todo |-> <<>>, open |-> FALSE, locked |-> FALSE, written |-> FALSE]

\* The process that rebuilds: nothing scanned yet.
CtlIdle ==
  [stage |-> "idle", todo |-> {}, listed |-> {},
   read |-> [k \in Kind |-> <<>>], corrupted |-> {}]

ReconIdle == [stage |-> "idle", listed |-> {}, manifest |-> {}]

-----------------------------------------------------------------------------
\* The files on disk.

\* Lines beyond the size limit are in files named `..._001' and so on.
Base(kind, d) ==
  LET lines == shards[kind][d]
  IN  IF ShardLines = 0 \/ Len(lines) < ShardLines THEN lines
      ELSE SubSeq(lines, 1, ShardLines)

\* ScanAll: the base files that exist.  They are read in the order of their paths.
Listed == {f \in File : shards[f.kind][f.day] # <<>>}

EndsTorn(lines) == lines # <<>> /\ lines[Len(lines)] = Torn

\* Half a line in the last place of a file may have filled it: its length is not
\* modelled, so what comes next is behind it or in the next file.
MayHaveFilled(lines) == ShardLines # 0 /\ Len(lines) % ShardLines = 0

\* Writer.Append: O_APPEND, so a record follows whatever ends its file.
Written(lines, record) ==
  LET behind == [lines EXCEPT ![Len(lines)] = Garbled]
  IN  IF ~EndsTorn(lines) THEN {Append(lines, record)}
      ELSE IF MayHaveFilled(lines) THEN {behind, Append(lines, record)}
      ELSE {behind}

WrittenInPart(lines) ==
  IF ~EndsTorn(lines) THEN {Append(lines, Torn)}
  ELSE IF MayHaveFilled(lines) THEN {lines, Append(lines, Torn)}
  ELSE {lines}

\* The file a line goes to: the day of the record, or today for an update.
DayOf(s) == IF s.op = "update" THEN day ELSE s.day

WriteLine(s) ==
  \E new \in Written(shards[s.kind][DayOf(s)], s.row) :
    shards' = [shards EXCEPT ![s.kind][DayOf(s)] = new]

WriteLineInPart(s) ==
  \E new \in WrittenInPart(shards[s.kind][DayOf(s)]) :
    shards' = [shards EXCEPT ![s.kind][DayOf(s)] = new]

\* A mutation of Latest: what was read first is kept.
First(lines) ==
  {lines[n] : n \in {i \in DOMAIN lines :
     /\ Decodable(lines[i])
     /\ \A j \in DOMAIN lines :
          j < i /\ Decodable(lines[j]) => lines[j].key # lines[i].key}}

\* The recordCollector: for each key the record that was read last.
Latest(lines) ==
  {lines[n] : n \in {i \in DOMAIN lines :
     /\ Decodable(lines[i])
     /\ \A j \in DOMAIN lines :
          j > i /\ Decodable(lines[j]) => lines[j].key # lines[i].key}}

-----------------------------------------------------------------------------
\* The statements on the index.

\* Primary keys, the unique index on items.external_ref, an update or a
\* foreign key that finds no row.
Violates(tables, s) ==
  \/ s.op = "insert" /\ s.row.key \in Keys(tables[s.kind])
  \/ /\ s.op = "insert" /\ s.kind = "items"
     /\ \E row \in tables.items : row.ref = s.row.ref
  \/ s.op = "update" /\ s.row.key \notin Keys(tables.items)
  \/ s.op = "bind" /\ s.item \notin Keys(tables.items)

\* MarkAssignmentSuperseded.
Superseded(referrals, item) ==
  {IF a.item = item THEN [a EXCEPT !.current = FALSE] ELSE a : a \in referrals}

Retire(rules, versions) ==
  {IF r.key \in versions THEN [r EXCEPT !.active = FALSE] ELSE r : r \in rules}

Applied(tables, s) ==
  CASE s.op = "insert" -> [tables EXCEPT ![s.kind] = @ \cup {s.row}]
    [] s.op = "update" ->
         [tables EXCEPT !.items = {r \in @ : r.key # s.row.key} \cup {s.row}]
    [] s.op = "supersede_referrals" ->
         [tables EXCEPT !.assignments = Superseded(@, s.item)]
    [] s.op = "supersede_rule" ->
         [tables EXCEPT !.rules = Retire(@, {s.version})]
    [] s.op = "bind" -> [tables EXCEPT !.intakes = @ \cup {s.item}]

-----------------------------------------------------------------------------
\* `civicctl init' has created the default rule.
DefaultRule == [key |-> 1, stamp |-> 0, active |-> TRUE]

Init ==
  /\ day = 1
  /\ shards = [k \in Kind |-> [d \in Day |->
                 IF k = "rules" /\ d = 1 THEN <<DefaultRule>> ELSE <<>>]]
  /\ db = [EmptyIndex EXCEPT !.rules = {DefaultRule}]
  /\ view = db
  /\ session = [t \in Thread |-> Idle]
  /\ ctl = CtlIdle
  /\ recon = ReconIdle
  /\ stamps = 0
  /\ faults = 0
  /\ losses = 0
  /\ committed = <<>>
  /\ retired = {}

\* The connection of the pool is free for a query.
ConnectionFree == \A t \in Thread : ~session[t].open

LockFree == ctl.stage # "replaced" /\ \A t \in Thread : ~session[t].locked

\* A service operation has done its reads and has these statements to run.
Begin(t, todo) ==
  /\ session[t] = Idle
  /\ ConnectionFree
  /\ stamps < MaxStamp
  /\ stamps' = stamps + 1
  /\ session' = [session EXCEPT ![t].todo = todo]
  /\ UNCHANGED <<day, shards, db, view, ctl, recon, faults, losses, history>>

Fresh == stamps + 1

NewReferral(item) == [key |-> Fresh, item |-> item, current |-> TRUE]

Changed(row) == [row EXCEPT !.stamp = Fresh]

\* ItemService.Register: the reference is new and some rule is in force.
Register(t, ref) ==
  LET row == [key |-> Fresh, ref |-> ref, stamp |-> Fresh]
  IN  /\ \A item \in db.items : item.ref # ref
      /\ \E rule \in db.rules : rule.active
      /\ Begin(t, <<Insert("items", row, day),
                    Insert("assignments", NewReferral(Fresh), day)>>)

\* The operations that write a row back, through updateItemWithAudit.
Change(t, row) == row \in db.items /\ Begin(t, <<Update(Changed(row))>>)

\* EscalationService.escalateItem.
Escalate(t, row) ==
  /\ row \in db.items
  /\ Begin(t, <<Insert("escalations", [key |-> Fresh, item |-> row.key], day),
                SupersedeReferrals(row.key),
                Insert("assignments", NewReferral(row.key), day),
                Update(Changed(row))>>)

\* ReevalWorker.reevaluateItem.
Reevaluate(t, row) ==
  /\ row \in db.items
  /\ \E rule \in db.rules : rule.active
  /\ Begin(t, <<SupersedeReferrals(row.key),
                Insert("assignments", NewReferral(row.key), day),
                Update(Changed(row))>>)

\* RuleService.CreateRule: the next version, and a rule it replaces or none.
CreateRule(t, replaced) ==
  LET current == CHOOSE v \in Keys(db.rules) \cup {0} :
                   \A r \in db.rules : r.key <= v
      rule == [key |-> current + 1, stamp |-> Fresh, active |-> TRUE]
      audit(v) == Insert("audit", [key |-> Fresh, rule |-> v], day)
  IN  Begin(t, (IF replaced = {} THEN <<>>
                ELSE LET v == CHOOSE r \in replaced : TRUE
                     IN  <<SupersedeRule(v), audit(v)>>)
               \o <<Insert("rules", rule, day)>>)

\* IntakeSuggestion and the other writes that refer to a suggestion.
Intake(t, row) == row \in db.items /\ Begin(t, <<Bind(row.key)>>)

-----------------------------------------------------------------------------
\* The transaction of a thread.

Current(t) == Head(session[t].todo)

\* A mutation of Connected: the pool has more than one connection.
AnyConnection(t) == session[t].todo # <<>>

\* WithTx has the connection, or finds it free.
Connected(t) ==
  session[t].todo # <<>> /\ \A u \in Thread \ {t} : ~session[u].open

\* The line is written before the statement, and while the session holds no
\* lock nothing keeps the other process from what is in between.
AppendLine(t) ==
  LET s == Current(t)
  IN  /\ Connected(t)
      /\ HasLine(s) /\ ~session[t].written /\ ~session[t].locked
      /\ WriteLine(s)
      /\ session' = [session EXCEPT ![t].open = TRUE, ![t].written = TRUE]
      /\ UNCHANGED <<day, db, view, ctl, recon, stamps, faults, losses, history>>

Undone(t) ==
  /\ session' = [session EXCEPT ![t] = Idle]
  /\ view' = IF session[t].locked THEN db ELSE view

\* A mutation of AppendFails: the transaction goes on without the line.
AppendForgotten(t) ==
  LET s == Current(t)
  IN  /\ Connected(t)
      /\ HasLine(s) /\ ~session[t].written /\ ~session[t].locked
      /\ faults < MaxFaults
      /\ faults' = faults + 1
      /\ WriteLineInPart(s)
      /\ session' = [session EXCEPT ![t].open = TRUE, ![t].written = TRUE]
      /\ UNCHANGED <<day, db, view, ctl, recon, stamps, losses, history>>

\* The write fails half way, or the process dies in it.
AppendFails(t) ==
  LET s == Current(t)
  IN  /\ Connected(t)
      /\ HasLine(s) /\ ~session[t].written
      /\ faults < MaxFaults
      /\ faults' = faults + 1
      /\ WriteLineInPart(s)
      /\ Undone(t)
      /\ UNCHANGED <<day, db, ctl, recon, stamps, losses, history>>

\* A mutation of Executed: only a line makes a session take the connection.
ExecutedApart(t) ==
  LET s == Current(t)
  IN  IF Violates(view, s) THEN Undone(t)
      ELSE /\ view' = Applied(view, s)
           /\ session' = [session EXCEPT ![t] =
                [@ EXCEPT !.todo = Tail(@), !.locked = TRUE, !.written = FALSE]]

Executed(t) ==
  LET s == Current(t)
  IN  IF Violates(view, s) THEN Undone(t)
      ELSE /\ view' = Applied(view, s)
           /\ session' = [session EXCEPT ![t] =
                [todo |-> Tail(@.todo), open |-> TRUE, locked |-> TRUE,
                 written |-> FALSE]]

\* The first statement takes the write lock of the index.
Execute(t) ==
  /\ Connected(t)
  /\ HasLine(Current(t)) => session[t].written
  /\ session[t].locked \/ LockFree
  /\ Executed(t)
  /\ UNCHANGED <<day, shards, db, ctl, recon, stamps, faults, losses, history>>

\* With the lock, line and statement are one step: others see the line only.
Save(t) ==
  LET s == Current(t)
  IN  /\ Connected(t)
      /\ HasLine(s) /\ session[t].locked
      /\ WriteLine(s)
      /\ Executed(t)
      /\ UNCHANGED <<day, db, ctl, recon, stamps, faults, losses, history>>

Commit(t) ==
  /\ session[t].locked /\ session[t].todo = <<>>
  /\ db' = view
  /\ session' = [session EXCEPT ![t] = Idle]
  /\ committed' =
       LET new == view.items \ db.items
       IN  IF new = {} THEN committed
           ELSE Append(committed, CHOOSE row \in new : TRUE)
  /\ retired' = retired \cup
       {r.stamp : r \in {x \in view.rules \ db.rules : ~x.active}}
  /\ UNCHANGED <<day, shards, view, ctl, recon, stamps, faults, losses>>

\* A statement or the commit fails, the context ends, the process dies.
Rollback(t) ==
  /\ session[t].open
  /\ faults < MaxFaults
  /\ faults' = faults + 1
  /\ Undone(t)
  /\ UNCHANGED <<day, shards, db, ctl, recon, stamps, losses, history>>

NewDay ==
  /\ day < MaxDay
  /\ day' = day + 1
  /\ UNCHANGED <<shards, db, view, server, ctl, recon, faults, losses, history>>

\* index.db is lost and everything is started again; the shards are there.
LoseIndex ==
  /\ losses < MaxLosses
  /\ losses' = losses + 1
  /\ db' = EmptyIndex /\ view' = EmptyIndex
  /\ session' = [t \in Thread |-> Idle]
  /\ ctl' = CtlIdle
  /\ recon' = ReconIdle
  /\ UNCHANGED <<day, shards, stamps, faults, history>>

-----------------------------------------------------------------------------
\* Store.RebuildIndex in the process of civicctl.

RebuildScan ==
  /\ ctl.stage \in {"idle", "failed", "done"}
  /\ LiveRebuild \/ db.rules = {}
  /\ ctl' = [CtlIdle EXCEPT !.stage = "reading", !.todo = Listed, !.listed = Listed]
  /\ UNCHANGED <<day, shards, db, view, server, recon, faults, losses, history>>

ReadNext(f) ==
  /\ ctl.stage = "reading" /\ f \in ctl.todo
  /\ \A g \in ctl.todo \ {f} : PathBefore(f, g)

RebuildRead(f) ==
  /\ ReadNext(f)
  /\ ctl' = [ctl EXCEPT !.todo = @ \ {f},
                        !.read[f.kind] = @ \o Base(f.kind, f.day)]
  /\ UNCHANGED <<day, shards, db, view, server, recon, faults, losses, history>>

\* A file that cannot be read is reported and skipped.
RebuildSkip(f) ==
  /\ ReadNext(f)
  /\ faults < MaxFaults
  /\ faults' = faults + 1
  /\ ctl' = [ctl EXCEPT !.todo = @ \ {f}, !.corrupted = @ \cup {f}]
  /\ UNCHANGED <<day, shards, db, view, server, recon, losses, history>>

Collected(kind) == Latest(ctl.read[kind])

\* A mutation of PostProcessed: the audit of the rules is not replayed.
ReferralsProcessed(tables) ==
  LET escalated == {e.item : e \in tables.escalations}
  IN  [tables EXCEPT !.assignments =
         {IF a.item \in escalated THEN [a EXCEPT !.current = FALSE] ELSE a : a \in @}]

\* postProcessRebuild.
PostProcessed(tables) ==
  LET escalated == {e.item : e \in tables.escalations}
      superseded == {a.rule : a \in tables.audit}
  IN  [tables EXCEPT
         !.assignments = {IF a.item \in escalated
                          THEN [a EXCEPT !.current = FALSE] ELSE a : a \in @},
         !.rules = Retire(@, superseded)]

\* DeleteAllData leaves the rules; then everything collected is inserted.
Rebuilt ==
  PostProcessed(
    [items       |-> Collected("items"),
     rules       |-> view.rules \cup Collected("rules"),
     assignments |-> Collected("assignments"),
     escalations |-> Collected("escalations"),
     audit       |-> Collected("audit"),
     intakes     |-> view.intakes,
     manifest    |-> {}])

\* A mutation of Restricted: the connection has no PRAGMA foreign_keys.
Unrestricted == FALSE

\* DELETE FROM items finds a row another table refers to.
Restricted == view.intakes # {}

DuplicateRef ==
  \E i, j \in Collected("items") : i.key # j.key /\ i.ref = j.ref

VersionTaken == Keys(Collected("rules")) \cap Keys(view.rules) # {}

RebuildFails ==
  /\ ctl.stage = "reading" /\ ctl.todo = {}
  /\ LockFree
  /\ Restricted \/ DuplicateRef \/ VersionTaken
  /\ ctl' = [CtlIdle EXCEPT !.stage = "failed"]
  /\ UNCHANGED <<day, shards, db, view, server, recon, faults, losses, history>>

RebuildApply ==
  /\ ctl.stage = "reading" /\ ctl.todo = {}
  /\ LockFree
  /\ ~Restricted /\ ~DuplicateRef /\ ~VersionTaken
  /\ view' = Rebuilt
  /\ ctl' = [ctl EXCEPT !.stage = "replaced"]
  /\ UNCHANGED <<day, shards, db, server, recon, faults, losses, history>>

\* rebuildManifests reads the files a second time.
Manifest ==
  {LET lines == Base(f.kind, f.day)
   IN  IF f \in ctl.corrupted
       THEN [file |-> f, count |-> 0, checksum |-> <<>>]
       ELSE [file |-> f, count |-> Len(lines), checksum |-> lines] :
     f \in ctl.listed}

RebuildCommit ==
  /\ ctl.stage = "replaced"
  /\ db' = [view EXCEPT !.manifest = Manifest]
  /\ view' = db'
  /\ ctl' = [CtlIdle EXCEPT !.stage = "done"]
  /\ UNCHANGED <<day, shards, server, recon, faults, losses, history>>

RebuildKilled ==
  /\ ctl.stage \in {"reading", "replaced"}
  /\ ctl' = CtlIdle
  /\ view' = IF ctl.stage = "replaced" THEN db ELSE view
  /\ UNCHANGED <<day, shards, db, server, recon, faults, losses, history>>

-----------------------------------------------------------------------------
\* Store.Reconcile, in the scheduler's loop and in civicctl.

\* The manifest is read right after the files are listed.  An index without a
\* manifest leaves nothing to compare.
ReconcileScan ==
  /\ recon = ReconIdle
  /\ db.manifest # {}
  /\ recon' = [stage |-> "listed", manifest |-> db.manifest, listed |-> Listed]
  /\ UNCHANGED <<day, shards, db, view, server, ctl, faults, losses, history>>

\* A mutation of CountOf: only what can be decoded is counted.
DecodableCount(lines) == Cardinality({n \in DOMAIN lines : Decodable(lines[n])})

\* The number of lines ReadAll returns, decodable or not.
CountOf(lines) == Len(lines)

\* What the comparison of one file with the manifest reports.
Differences(f) ==
  LET lines == Base(f.kind, f.day)
      entry == {m \in recon.manifest : m.file = f}
  IN  (IF entry = {} \/ \E m \in entry : CountOf(lines) > m.count
       THEN {"orphaned"} ELSE {})
      \cup (IF \E m \in entry : CountOf(lines) < m.count
            THEN {"missing"} ELSE {})
      \cup (IF \E m \in entry : m.checksum # <<>> /\ m.checksum # lines
            THEN {"checksum"} ELSE {})

\* Each file is compared with nothing but its own entry, so all are at once.
ReconcileCompare ==
  /\ recon.stage = "listed"
  /\ recon' = ReconIdle
  /\ UNCHANGED <<day, shards, db, view, server, ctl, faults, losses, history>>

-----------------------------------------------------------------------------
Operation(t) ==
  \/ \E ref \in Ref : Register(t, ref)
  \/ \E row \in db.items :
       Change(t, row) \/ Escalate(t, row) \/ Reevaluate(t, row) \/ Intake(t, row)
  \/ CreateRule(t, {})
  \/ \E rule \in db.rules : CreateRule(t, {rule.key})

Transaction(t) ==
  \/ AppendLine(t) \/ AppendFails(t) \/ Execute(t) \/ Save(t)
  \/ Commit(t) \/ Rollback(t)

Rebuild ==
  \/ RebuildScan
  \/ \E f \in ctl.todo : RebuildRead(f) \/ RebuildSkip(f)
  \/ RebuildFails \/ RebuildApply \/ RebuildCommit \/ RebuildKilled

Reconcile == ReconcileScan \/ ReconcileCompare

Next ==
  \/ \E t \in Thread : Operation(t) \/ Transaction(t)
  \/ NewDay \/ LoseIndex \/ Rebuild \/ Reconcile

Spec == Init /\ [][Next]_vars

-----------------------------------------------------------------------------
\* Properties.

\* TYPE. Files hold records, torn or garbled lines of their kind, and the tables
\* rows that have gone through the columns of migrations/0001_init.sql.
TypeOK ==
  /\ day \in Day
  /\ \A k \in Kind : \A d \in Day : \A n \in DOMAIN shards[k][d] :
       shards[k][d][n] \in Line(k)
  /\ \A tables \in {db, view} :
       /\ \A k \in Kind : tables[k] \subseteq Record[k]
       /\ tables.intakes \subseteq Nat
  /\ \A t \in Thread : session[t].locked => session[t].open
  /\ ctl.stage \in {"idle", "reading", "replaced", "failed", "done"}
  /\ recon.stage \in {"idle", "listed"}
  /\ stamps \in 0..MaxStamp /\ faults \in 0..MaxFaults /\ losses \in 0..MaxLosses

\* Where a row of items stands on the shards: its day and its place in the file.
Places(row) ==
  UNION {{<<d, n>> : n \in {m \in DOMAIN shards.items[d] :
                              shards.items[d][m] = row}} : d \in Day}

Before(p, q) == p[1] < q[1] \/ (p[1] = q[1] /\ p[2] < q[2])

\* SAFETY. The shards, read by path and line, give the changes of a suggestion
\* in the order they were committed, over midnight too: registrations are filed
\* under the day they were read, updates under the day they are written
\* (SaveItem, UpdateItem).  A rebuild that keeps the last record relies on it.
ReplayOrder ==
  \A i, j \in DOMAIN committed :
    i < j /\ committed[i].key = committed[j].key =>
      \A p \in Places(committed[i]), q \in Places(committed[j]) : Before(p, q)

\* SAFETY. What was committed is on the shards, whatever failed around it: a
\* torn line costs at most the one record that is written behind it.
CommittedOnShards ==
  Cardinality({i \in DOMAIN committed : Places(committed[i]) = {}})
    <= Cardinality(Places(Garbled))

\* SAFETY. What refers to a suggestion never loses it, though a rebuild deletes
\* all suggestions while other processes go on: the foreign keys of
\* migrations/0003_civic_workflow.sql end such a rebuild.
IntakesIntact == db.intakes \subseteq Keys(db.items)

\* SAFETY. A rule that was superseded is not in force again after the index was
\* lost and rebuilt, although its line says active: the audit says otherwise
\* (postProcessRebuild), unless the file of the audit is full or damaged.
RetiredStayRetired ==
  (\A d \in Day : Base("audit", d) = shards.audit[d]) /\ faults = 0 =>
    \A rule \in db.rules : rule.stamp \in retired => ~rule.active

\* SAFETY. Reconcile never reports a record as missing from the shards: they
\* only grow, and the manifest counts what the rebuild saw in the same way.
NoFalseMissing ==
  recon.stage = "listed" => \A f \in recon.listed : "missing" \notin Differences(f)

-----------------------------------------------------------------------------
\* The last row committed for each suggestion.
LastCommitted ==
  {committed[i] : i \in {n \in DOMAIN committed :
     \A m \in DOMAIN committed : m > n => committed[m].key # committed[n].key}}

WasRead(row) == \E n \in DOMAIN ctl.read.items : ctl.read.items[n] = row

\* SAFETY. A rebuild restores the last committed state of every suggestion whose
\* line it has read, or a state written after it; never an older one.
RebuildKeepsLatest ==
  [][RebuildCommit =>
       \A row \in LastCommitted : WasRead(row) =>
         \E new \in db'.items :
           /\ new.key = row.key
           /\ new = row \/ \A p \in Places(row), q \in Places(new) : Before(p, q)
    ]_vars

Referrals(tables, item) == {a \in tables.assignments : a.item = item}

-----------------------------------------------------------------------------
\* What the documents promise and the code does not keep.

\* README.md:156: rebuild-index restores the index from the shards it can read.
RebuildRestores == ctl.stage # "failed"

\* A rebuild removes no suggestion that is in the index and on listed shards
\* (internal/repo/rebuild.go:94).
NothingDropped ==
  [][RebuildCommit =>
       \A row \in db.items :
         (\A p \in Places(row) : Base("items", p[1]) = shards.items[p[1]]) =>
           row.key \in Keys(db'.items)]_vars

\* What a rebuild restores had been committed (internal/repo/store.go:147).
OnlyCommitted ==
  [][RebuildCommit =>
       db'.items \subseteq {committed[i] : i \in DOMAIN committed}]_vars

\* A rebuilt index has one current referral for each suggestion, as the index
\* had that was lost (internal/repo/rebuild.go:187).
OneCurrentRebuilt ==
  [][RebuildCommit =>
       \A item \in Keys(db'.items) :
         Cardinality({a \in Referrals(db', item) : a.current}) = 1]_vars

\* README.md:45: damaged shards are listed in the report of a rebuild.
CorruptionListed ==
  [][RebuildCommit =>
       \A f \in ctl.listed :
         (\E m \in DOMAIN Base(f.kind, f.day) : ~Decodable(Base(f.kind, f.day)[m]))
           => f \in ctl.corrupted]_vars

=============================================================================

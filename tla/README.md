# A formal model of CivicBridge

CivicBridge takes citizens' suggestions through a campaign: collection, routing
to a department, professional review, handling, conversion into a published
outcome and feedback to the citizen. This directory holds TLA+ modules that
model the program under `src/`, the TLC configurations that check them and
theorems checked by TLAPS. `PROJECT.json` lists components, runs, mutants, the
source lines behind every definition, findings, hazards and theorems.

## Inventory

What every component shares is the store. The SQLite index is opened with one
connection (`internal/index/schema.go:32`), so each query and each whole
`WithTx` transaction (`internal/repo/store.go:45`) is atomic. Every service
operation is written the same way: some reads outside a transaction, checks on
what was read, then one transaction that writes. Anything may happen between
the reads and the transaction, and that is where the interesting behaviours
are. Actors: HTTP handlers (any number), the escalation loop and the
reconciliation loop of the scheduler, the re-evaluation loop of the worker, the
`civicctl` process, the shutdown goroutine.

| Component | State | Operations | Hard behaviour | What makes it correct |
|---|---|---|---|---|
| Suggestions (`service/suggestion_service.go`, `domain/suggestion.go`) | `items`, `audit_entries` | Register, StartProcessing, Modify, ReturnForCorrection, Resubmit, Cancel, Complete | rows are written back without a version; registration races on `external_ref` | status changes follow the transition table and are audited |
| Dispatch rules (`service/rule_service.go`, `domain/rule.go`, `dispatch/`) | `rules` | CreateRule, GetActiveRules, Adjudicate | version numbers are chosen outside the transaction | a suggestion is routed by a rule in force when it was registered |
| Escalation (`service/escalation_service.go`, `scheduler/`) | `escalations`, `assignments`, `items` | CheckAndEscalate | works from a list read once; one failure ends the sweep | every overdue suggestion is escalated, level by level |
| Re-evaluation (`worker/`) | `assignments`, `items` | RunOnce | snapshot of rules, per-item reload and transaction; mutex | a newer rule reroutes pending suggestions only, once |
| Campaigns and collection (`service/civic_service.go:26-266`, `domain/civic_workflow.go`) | `campaigns`, `collection_points`, `suggestion_intakes` | CreateCampaign, AddCollectionPoint, ActivateCollectionPoint, TransitionCampaign, IntakeSuggestion | the campaign's status is read outside the transaction that relies on it; the capacity of a point is checked by the service and by a trigger | one intake of a suggestion, the capacity of a point, an intake only in the window, a life cycle with no step taken twice |
| Reviews, plans and conversions (`service/civic_service.go:176-488`) | `invited_advisors`, `professional_reviews`, `handling_plans`, `conversion_outcomes` | EnrollAdvisor, AssignReview, DecideReview, CreateHandlingPlan, TransitionHandlingPlan, ProposeConversion, VerifyConversion | preconditions across four tables; a quota checked twice | an advisor's quota, decisions taken once, only finished work is published |
| Feedback delivery (`service/civic_service.go:490`) | `feedback_receipts`, `outbox_events` | Queue, Claim, Complete (both tables) | leases, competing claimers, crash while holding a lease, backoff | one receipt per citizen and channel, with its event; nothing is sent twice |
| Record store (`repo/`, `shard/`) | JSONL shards, `shard_manifest`, every table of the index | WithTx with its Save and Update calls, Append, rotation, RebuildIndex, Reconcile | shard lines are written before the index commits, under no lock, and kept on rollback; a second process rebuilds; midnight, full files, torn lines | what was committed is on the shards in the order of the commits; a rebuild restores the last state of what it reads and revives no retired rule |
| Scheduler (`scheduler/`) | loops, `permanent_failures` | runWithRetry, recordTaskFailure, Start, Stop | timeout during backoff; stop while a task runs | a task that keeps failing is recorded |
| Worker life cycle (`worker/worker.go`) | goroutine, `runMu` | Start, Stop, RunOnce | overlap of ticks and manual runs | sweeps never overlap |
| Batches (`service/batch_service.go`) | `import_batches` | Import, Export | rows committed one by one, overlapping imports, a crash half way; a list shorter than asked for | nothing is registered twice; a summary accounts for each row |
| Queries and failures (`service/query_service.go`, `index/queries.go`) | `permanent_failures` | GetItemDetail, ListItems, backlog, RetryFailure | pages and details are read in several queries while rows change | what is read later is never older; a sweep misses no row that stayed in its list, if that list loses none meanwhile |
| Sessions (`auth/`) | sessions in memory and on disk | Login, Resolve, Logout | persistence of a revocation | a session revoked stays revoked |
| HTTP, CLI, configuration, logging | none of their own | | | |

## Modules

| Module | Models | Lines of the code |
|---|---|---|
| `SuggestionStatus` | the transition table of a suggestion | `domain/suggestion.go` |
| `DispatchRules` | which rules are active, matching, adjudication, the names of supervisors | `domain/rule.go`, `dispatch/adjudicator.go` |
| `SuggestionRouting` | requests, rule administration, escalation and re-evaluation on the same rows | `service/suggestion_service.go`, `rule_service.go`, `escalation_service.go`, `worker/reeval.go` |
| `ReferralLedger` | abstract: what rules and referrals promise | |
| `FeedbackDelivery` | receipts and outbox events, their leases, retries and end | `service/civic_service.go:490-641` |
| `DeliveryLedger` | abstract: what a receipt and its event promise | |
| `CollectionCampaign` | campaigns, points, intakes | `service/civic_service.go:26-266` |
| `HandlingChain` | reviews, plans, conversions | `service/civic_service.go:176-488` |
| `BackgroundTasks` | loops, retries, shutdown | `scheduler/`, `worker/worker.go`, `cmd/civicbridge/main.go` |
| `AuthSessions` | accounts, sessions and their file | `auth/auth.go` |
| `RecordStore` | transactions on shards and index, rotation, rebuild by a second process, reconcile | `repo/`, `shard/`, `index/writes.go`, `cmd/civicctl/main.go` |
| `SuggestionLists` | imports row by row, the pages of a sweep, an export, a detail | `service/batch_service.go`, `query_service.go`, `worker/reeval.go`, `index/queries.go` |
| `SuggestionRoutingProofs`, `FeedbackDeliveryProofs`, `CollectionCampaignProofs`, `HandlingChainProofs`, `AuthSessionsProofs`, `BackgroundTasksProofs`, `RecordStoreProofs`, `SuggestionListsProofs` | theorems | |
| `MC...` | the constants of the runs | |

### How state and actions correspond to the code

In the modules of the services a table is a variable (a function from the
unique key of the table, or a sequence when the order of insertion matters) and
a *thread* is whoever executes an operation. `session[t]` holds the local
variables of the operation: what it has read and where it stands (`pc`). An
operation is cut where the code is: the reads and checks outside a transaction
are one or more actions, the transaction is one action. That is the whole
atomicity the code has, because the pool has one connection. Every operation can
be cut short between its steps (`Abort`, `Abandon`, `Crash`); a transaction that
fails, on a unique index, a trigger or a version, changes nothing, and is a
disjunct of the committing action.

- `SuggestionRouting`. `RegisterRead` and `RegisterCommit` are
  `ItemService.Register`; its three reads (duplicate, rules, clock) are one
  action, because a registration that gets in between makes the insert fail on
  the unique index anyway, and a rule made in between is not in effect at the
  time of registration. `Modify`, `StartProcessing`, `Complete` and the others
  load a row into the session; `UpdateCommit` (`updateItemWithAudit`) writes
  that copy back, as `UpdateItem` does, with no condition. `FindOverdueItems`
  and `EscalateItem` are the escalation sweep, one action for the list and one
  for each transaction; `EscalateItemFails` is the error that ends the sweep.
  `GetCurrentRuleVersion`, `GetActiveRules`, `CollectStaleItems`,
  `ReevaluateLoad`, `ReevaluateCommit` and `ReevaluateSkip` are the steps of
  the re-evaluation sweep. `FindOverdueItems` excludes suggestions at the
  highest level, so the branch of `CheckAndEscalate` that records a permanent
  failure cannot be reached. `effective_to` is set only on superseded rules,
  which their status excludes already.
- `FeedbackDelivery` treats the two tables as two queues with the same steps;
  what differs has a name (`Waiting`, `Leased`, `Succeeded`, `Failed`).
  `ClaimList` and `ClaimNext` are the list and the claim of one row;
  `CompleteRead` and `CompleteCommit` the two halves of `Complete`. Nothing in
  the repository calls them, so the worker that claims, sends and completes is
  external; it may die at any step. `DeliveryLedger` is what remains when workers,
  versions, leases and clocks are taken away: a row waits, is taken, is settled
  (`Stage` names the statuses of both tables so), with the number of failures and
  of successful sends.
- `CollectionCampaign` and `HandlingChain` cut each operation into the reads
  and the transaction; the intake reads the campaign, the point and the count
  in separate steps. In `HandlingChain` the suggestion and the campaign belong
  to the environment, which moves them as the other modules allow, including
  the revival of a finished suggestion that `RoutingOverwrite` shows.
- `BackgroundTasks`: `loop[x]` is the goroutine of a loop and the locals of
  `runWithRetry`; `ticks` are the full ticker channels; `shutdown` is the place
  of the goroutine that stops the process. What a task does is left to
  `SuggestionRouting`; here it succeeds or fails.
- `AuthSessions`: `memory` is `Store.data`, `file` the file. `Encoded` is what
  `json.Marshal` makes of an account, which has no password hash any more. A
  failing write leaves the change in memory.

- `RecordStore` looks inside a transaction, which the other modules take as one
  step. A thread has the statements of its transaction in `todo`; `AppendLine`
  writes the shard line of the next one, `Execute` runs the statement, `Save` is
  both once the transaction holds the write lock, because then nobody can see the
  index in between. The server's transactions exclude each other through the one
  connection (`open`), the process that rebuilds is kept out from the first
  statement on (`locked`) but not from the lines before it. `RebuildRead` reads a
  file at a time, so lines may be added to what was read. A line is a record
  of the columns a rebuild evaluates and a stamp for the others; a write cut short
  leaves a `Torn` end, which the next record makes `Garbled`. Files over the limit
  are the tail of the same sequence, which `Base` cuts off as the scanner does. A
  rebuild reads the listed files in the order of their paths (`PathBefore`); the
  record it keeps for a key is the one read last (`Latest`).
- `SuggestionLists` has the rows with the counts of their other tables.
  `RegisterRead` and `RegisterCommit` are `Register` again, now for each row of a
  file; a list is computed where the code queries it (`ListItems`), so a page, a
  count and the parts of a detail are steps of their own. A page is the set of the
  rows whose rank, the number of newer rows in the list, falls into it: nothing
  depends on the order within a page. Requests, escalations
  and rules are single steps here; how they come about is in `SuggestionRouting`.

Abstracted throughout: texts, identifiers, wording of errors, logging, HTTP
routing and decoding, and audit entries except in `SuggestionRouting`. An
identifier is a model value or the number of a row, a time an integer, a
handling profile a model value.

## Runs

Passing runs check what holds; violation runs each show one disagreement between
the code and what its own documents and comments say. `CHECK_DEADLOCK FALSE`
stands wherever the bound on the clock, on requests or on failures may end a
behaviour, or the process may exit.

| Run | Checks | What it shows |
|---|---|---|
| `RoutingSweeps` | OneCurrentReferral, RoutedByRuleInForce, LevelJustified, StatusAudited, RoutingInv, LedgerSpec | with a handler, both sweeps and a replaced rule on one suggestion, referrals stay a ledger with one entry in force, no row is routed by a rule younger than itself, and level, lead, escalations and audits explain each other, up to the highest level |
| `RoutingLiveness` | EscalatedUnlessBlocked | an overdue suggestion is escalated unless an overdue returned one stands before it |
| `RoutingOverwrite` | NoSilentOverwrite is violated | the later of two requests undoes the earlier and revives a finished suggestion |
| `RoutingReevaluation` | ReevaluationAdvances is violated | a suggestion registered before the newest rule took effect is given its own rule again, with a new referral, and stays stale for the next sweep |
| `FeedbackQueues` | OneEventPerReceipt, SingleLease, DeliveryInv, LedgerSpec, BackoffRespected, SettledUnlessOrphaned | two handlers queue the same feedback, two workers compete for the receipt, one delivers the event, sending fails and a thread dies: receipt and event exist together, once; nothing is held or sent twice, retried early or changed when settled; all is settled in the end, unless a worker dies with the lease |
| `CampaignIntake` | BoundOnce, QuotaPerUTCDay, IntakeJustified, CampaignInv, OneStageAtATime | two threads, two campaigns, two suggestions, two keys, full points, both ends of the window: a suggestion is bound once, a point's day is not overbooked, an intake is within the window, at an active point of a campaign that has been opened, and no step is taken twice |
| `ChainPlans` | PendingWithinQuota, ConversionsJustified, ChainInv, DecisionsFinal | two suggestions from reviews on two panels, through a plan each, to publication, by two threads: an advisor's quota holds, every plan rests on an approval, every outcome on a plan that was completed, and no decision is taken twice |
| `TasksShutdown` | TasksInv, ClosedWhenIdle, RecordedWhenExhausted, ShutdownCompletes | a task and the worker are stopped in whatever state; the store is closed when nothing runs; a failure on record went through all attempts and waits within its timeout |
| `AuthRestarts` | RevokedForGood, SessionsHonoured | over failing writes and restarts a session is honoured until it expires, and a revoked one stays revoked |
| `StoreRebuild` | TypeOK, ReplayOrder, CommittedOnShards, IntakesIntact, RetiredStayRetired, NoFalseMissing, RebuildKeepsLatest | two threads write over midnight through full and torn files while the index is lost and rebuilt by another process: what was committed is on the shards, in order; a rebuild restores the last state of what it reads, revives no retired rule and never deletes what intakes refer to; reconcile reports nothing as missing that is there |
| `StoreRestore` | RebuildRestores is violated | `rebuild-index` fails on any index that holds a rule |
| `ListPages` | TypeOK, RegisteredOnce, SummariesTruthful, DetailCovers, SweepCollects | two imports of overlapping files, failing rows and a crash, while rows and rules change: nothing is registered twice, summaries tell the truth, a sweep collects every row that stayed in a list which lost none, and a detail accounts for its level |

Each property of a passing run has a mutant in `PROJECT.json`: a definition of
the code's model changed the way a plausible bug would, under which the same run
fails. The changed definitions stand before the original ones with the comment
"A mutation of".

### Further configurations

These are kept beside the runs and are worth running by hand (`tlc -config X.cfg
MCModule`), but are not part of `PROJECT.json`. The `Sequential` ones have one
thread for everything and pass: what the others lose is lost to interleaving alone.

| Configuration | Module | Outcome |
|---|---|---|
| `RoutingStarvation` | `MCSuggestionRouting` | OverdueEscalated is violated: a returned suggestion past its deadline ends every sweep (`service/escalation_service.go:43`) |
| `RoutingSequential` | `MCSuggestionRouting` | RowMatchesReferral, LevelJustified, NoSilentOverwrite and InFlightUndisturbed hold, also for a row that is overdue at the highest level |
| `RoutingInFlight` | `MCSuggestionRouting` | InFlightUndisturbed is violated: work begun between the worker's reload and its transaction is set back and rerouted (`worker/reeval.go:137`, against the comment at line 18) |
| `FeedbackOrphans` | `MCFeedbackDelivery` | EventuallySettled is violated: a row whose worker dies with the lease is never listed again (`index/civic_queries.go:374`) |
| `CampaignSequential` | `MCCollectionCampaign` | QuotaPerLocalDay and AcceptedByCampaign hold |
| `CampaignLocalDay` | `MCCollectionCampaign` | QuotaPerLocalDay is violated: the service counts a local day, the trigger a UTC day (`service/civic_service.go:247`) |
| `CampaignStale` | `MCCollectionCampaign` | AcceptedByCampaign is violated: a point is added to a campaign just opened (`service/civic_service.go:82`) |
| `ChainSequential` | `MCHandlingChain` | AcceptedWhenCommitted holds |
| `ChainStale` | `MCHandlingChain` | AcceptedWhenCommitted is violated: a review of a suggestion just completed (`service/civic_service.go:276`) |
| `TasksUnrecorded` | `MCBackgroundTasks` | FailureRecorded is violated: a task whose timeout is up while it backs off is neither retried nor recorded (`scheduler/tasks.go:31`) |
| `TasksExit` | `MCBackgroundTasks` | ExitsGracefully is violated: main exits while the shutdown goroutine is at work (`cmd/civicbridge/main.go:70`) |
| `AuthAccounts` | `MCAuthSessions` | AccountsUsable is violated: after the first restart nobody can log in, because the password hash is not in the file (`auth/auth.go:37`) |
| `StoreConcurrent` | `MCRecordStore` | NothingDropped is violated: what is committed between the scan and the rebuild's transaction is deleted (`repo/rebuild.go:94`) |
| `StorePhantoms` | `MCRecordStore` | OnlyCommitted is violated: the line of a transaction that was rolled back comes back with a rebuild (`repo/store.go:147`) |
| `StoreReferrals` | `MCRecordStore` | OneCurrentRebuilt is violated: an escalated suggestion has no current referral after a rebuild (`repo/rebuild.go:187`) |
| `StoreDamage` | `MCRecordStore` | CorruptionListed is violated: a line that cannot be decoded is dropped and its file not listed (README.md:45 has damaged shards listed) |
| `ListSkips` | `MCSuggestionLists` | EveryStaleCollected is violated: a row that leaves the list between two pages moves another across the boundary; it waits for the next sweep (`worker/reeval.go:65`) |
| `ListExport` | `MCSuggestionLists` | ExportComplete is violated: `civicctl export` reports the number of all rows and writes at most 200 (`cmd/civicctl/main.go:197`, `index/queries.go:314`) |

### Bounds

All bounds are CONSTANTS named in the headers of the modules.

- Threads. Two concurrent operations suffice for every lost update and every
  race on a unique index, since a race is between one read and one commit of
  another; where the actors differ (handler, escalation, re-evaluation) the run
  has one of each. The proofs cover any number.
- Suggestions, receipts, points: one where rows do not interact, two where they
  do (the order of a sweep, the quota of a point or an advisor, two claims).
- Time runs far enough for a deadline to pass at every level below the highest:
  with `ReviewDeadline` and `DeadlineExtension` 0 a row is overdue one instant
  after its registration and after each escalation, so `MaxTime` 2 with `MaxLevel`
  2 (`RoutingSweeps`) has a second escalation, and 1 with 1 (`RoutingLiveness`)
  the only one. `RoutingSequential` goes on by one instant, to a row that is
  overdue at the highest level and left alone. Time also runs far enough for a
  window to open and to close, for a UTC and a local midnight, for every wait of
  the retries and the timeout.
- `MaxRules` 2: a rule and the one that replaces it. `MaxReferrals`: a
  registration and two changes; it stops requests, never a step of an operation
  that has begun. `MaxAborts`, `MaxCrashes`: 1 or 2 in any place.
- `Horizon` in `FeedbackDelivery`: instants beyond it are not told apart, so
  a clock that stops there still lets every wait end.
- `MaxVersion` in `HandlingChain` bounds how often an outcome is verified again.
- `MaxFailures` in `BackgroundTasks` stops new runs of a task that has been
  recorded that often; a run that has begun goes on.
- `RecordStore`: `ShardLines` 2 fills a file with the second line (a torn
  line in the last place may or may not have filled it), `MaxDay` 2 has
  one midnight, `MaxStamp` 3 is a registration and two more operations, `MaxFaults`
  and `MaxLosses` 1 in any place. `LiveRebuild` lets a rebuild begin while the
  index holds rules; the code then always fails (`StoreRestore`), so the passing
  run sets it to FALSE to reach what a rebuild does when it succeeds; the runs by
  hand set it as they need.
- `SuggestionLists`: three references in two files that share one and hold a row
  without a reference; pages of 2 against 3 rows and more (200 and 1000 in the
  code, `PageCap`, `SweepPageSize`, `ExportPageSize`, `AuditPageSize`), so that a
  list has a second page and an export more rows than a page; two imports
  (`MaxImports`), one change of a row (`MaxChanges`), one new rule (`MaxRule`). In the
  runs a sweep and an answer take turns (`InTurn`), for the size of the state space
  alone: a sweep appends to the audit that a detail reads. The proofs do not
  assume it, so `DetailsCover` and `SweepsCollect` hold when they overlap.
- Symmetry is used on what is told apart by nothing but name (handlers, suggestions,
  keys, points, campaigns, panels, departments) in runs of invariants and
  action properties only, where no definition names one of them; the liveness
  runs use none.

### Fairness

- `SuggestionRouting`: weak fairness of each escalation sweep (the loop starts
  one at every tick and goes through its list) and of commits (a handler that has
  read goes on). Nothing is assumed of requests.
- `FeedbackDelivery`: the clock runs on, and a worker that is alive polls,
  sends and reports. A crash is never forced or forbidden.
- `BackgroundTasks`: weak fairness of each loop and of the shutdown goroutine,
  which is what the Go scheduler gives a goroutine that can go on, and of a task
  that ends since its queries fail when its context is done; strong fairness of
  leaving the loop, because a `select` with two ready cases picks at random and
  the case of `ctx.Done()` is ready for good. With the weak form alone a full
  ticker could be preferred for ever.

## Theorems

`SuggestionRoutingProofs` proves for every set of threads, suggestions, rule
requests and every bound:

- `RoutingInvariant`: `Spec => []RoutingInv`. From it `TypeCorrect`,
  `OneCurrent`, `RoutingJustified`, `LevelsJustified` and `AuditComplete`, the
  safety properties of the runs.

None of these properties is inductive: a thread writes back a copy it read long
ago, so the stored row is sound only if the copy is. `RoutingInv` therefore asks
of every copy in a session what it asks of a stored row (`SessionSound`): its rule
was in effect at registration, its routing and its levels are on record, and its
status will be audited when it is written. What makes that last is that the
tables it refers to only grow: referrals, escalations and audits are appended, and
a rule never changes its department or its start. The lemmas before the theorem
say so; then there is a step for each action. The proofs use `ConstantsAssumption`
of `SuggestionRouting` and the assumptions of `DispatchRules`, which TLC evaluates
in every run.

`LedgerRefinement`, in the same module: `Spec => LedgerSpec`. The
refinement maps the number of rules, the referrals without their flag, and the
one with the flag. Each step of `SuggestionRouting` is a step of the ledger (a
rule is added, a suggestion gets its first referral, a rule or a supervisor
replaces the one in force) or leaves it alone; `RoutingInv` shows that the
current referral is the last one.

`AuthSessionsProofs` proves for every set of users and sessions and every clock:

- `AuthInvariant`: `Spec => []AuthInv`. Types, and two facts about what is in
  memory and what is in the file: a session that was answered for (handed out, or
  revoked with success) stands in the file for good, and in memory while the
  process is up; accounts are bootstrapped all at once or not at all.
- `RevocationLasts` and `SessionsLast`: the properties `RevokedForGood` and
  `SessionsHonoured` of the run. Both speak of memory only, which a restart reads
  again from the file, so they are not inductive without the half of `AuthInv`
  about the file: `Create` and `Revoke` answer only after the write succeeded.

`BackgroundTasksProofs` proves for every set of tasks, attempts and timeouts:

- `TasksInvariant`: `Spec => []TasksInv`, the types with the place of the
  shutdown: a loop that was waited for has ended, and the store is closed only
  when all have.
- `ClosedUnderNobody`: the property `ClosedWhenIdle` of the run follows from it.
- `FailuresAreExhausted`: the property `RecordedWhenExhausted`. Its invariant,
  `WaitInv`, says of a task under way that it has waited in full for the attempts it
  has made. `WaitedIsTheSum` shows that the closed form `Waited` is the sum of the
  waits, through the ten doublings and after them; the provers know the powers of
  numbers that are written out, and ten are enough.

`FeedbackDeliveryProofs` proves for every set of handlers, workers, receipts and
events, and every lease and backoff:

- `DeliveryInvariant`: `Spec => []DeliveryInv`. A row that a thread holds is
  leased to this thread alone and has not been sent; a copy in a session says
  what its row says as long as the version is the same; the row a thread is about
  to write is the next version of the one it read. The property that matters,
  `SentOnce`, speaks of rows only; it lasts because of what the copies may say.
- `EventWithReceipt` (`OneEventPerReceipt`, `OneReceiptPerIdentity`) and
  `LeasedToOne` (`SingleLease`, `SentOnce`) follow from it.

The same module sorts the steps of `FeedbackDelivery` (a row is queued,
taken, sent, settled, or nothing the ledger sees changes; `StepKinds`) and proves
from that `BackoffLasts`, the property `BackoffRespected`, and
`DeliveryRefinement`: `Spec => LedgerSpec`, where a row is mapped to its stage and
the numbers of its failures and sends. The cap of the backoff is at most 8, as in the
code (`MaxExponent`), so that its powers can be written out (`PowersOfTwo`).

`CollectionCampaignProofs` and `HandlingChainProofs` prove for every set of
requests, campaigns, points, suggestions, advisors and keys, and every quota:

- `CampaignInvariant`: `Spec => []CampaignInv`, with `IntakesAreSound`
  (`BoundOnce`), `DailyQuotaHolds` (`QuotaPerUTCDay`), `IntakesAreJustified`
  (`IntakeJustified`, `CampaignCovered`) and `CampaignStages` (`OneStageAtATime`).
- `ChainInvariant`: `Spec => []ChainInv`, with `QuotaHolds` (`PendingWithinQuota`),
  `OutcomesRest` (`PlansJustified`, `ConversionsJustified`) and `DecisionsStand`
  (`DecisionsFinal`).

Both arguments are the same. A request relies on what it read before its
transaction (`SessionSound`). Of the row it is about to update, only the version it
compares tells whether this is still true. Of other rows it relies on facts that
every step keeps: an opened campaign, an active point, an accepted review, a
completed plan. `TablesGrow` says what a step may do to the tables, every action
is shown to keep to it, and each property is kept by whatever keeps to it.
The quotas rest on the triggers alone, not on what the service counted.

`RecordStoreProofs` proves for every set of threads and references, every number
of days, operations, faults and losses and every size of the files:

- `StoreInvariant`: `Spec => []StoreInv`, whose parts each serve a property.
- `StoreTyped` (`TypeOK`), `IntakesStayIntact` (`IntakesIntact`) and
  `NothingReportedMissing` (`NoFalseMissing`) rest on the lock (`LockInv`: one
  session has the connection, the lock is held by it or by the rebuild, and
  without a holder the view is the index), on the foreign keys in both views
  (`IntakeInv`) and on files that only grow (`ManifestInv`).
- `ReplayIsInOrder` (`ReplayOrder`). That commits and lines have the same order
  is not inductive: a line is written before its commit, in a file that may be
  yesterday's. `FreshInv` and `ApartInv` say that what a transaction still has to
  write is nowhere yet and that no two write the same; `OnceInv` that a row has one
  place and no file a date to come; `OrderInv` that whatever is under way stands
  behind every committed row of its suggestion. A registration is filed under the
  day it was read, which may be over by then; its key is new, so nothing comes
  before it.
- `CommittedIsOnShards` (`CommittedOnShards`): `LostInv` keeps room in the bound for
  a row whose line was spoiled before it is committed.
- `RebuildIsFaithful` (`RebuildKeepsLatest`): `ReadInv` says that what was read has
  places in order, that all of it stands before the files still to be read, and that
  a rebuild replaces the rows by the last of each key.
- `RetiredRulesStayRetired` (`RetiredStayRetired`): `RetireInv` follows the entry of
  the audit from the transaction that supersedes the rule to the shards, to what
  the rebuild has read or has still to read, and to the rebuilt rules.

The replay needs no induction over the lines: `Latest` is a set, and that each key
has a last line follows from the order of the natural numbers being well-founded.

`SuggestionListsProofs` proves for every set of importers, all files and every size
of pages:

- `ListsInvariant`: `Spec => []ListsInv`, with `ListsTyped` (`TypeOK`).
- `ReferencesRegisteredOnce` (`RegisteredOnce`) and `SummariesAreTruthful`
  (`SummariesTruthful`). While an import is under way its two counts add up to the
  rows dealt with, and its successes are at most the rows dealt with that exist.
- `DetailsCover` (`DetailCovers`): the entries "escalate" of an audit are as many as
  the escalations, which are as many as the level; what a reader has copied is
  covered by the row now, and what it copies later covers what it has.
- `SweepsCollect` (`SweepCollects`): what is stale and listed before the offset has
  been collected. Every row has a time of its own (`TimeInv`), and a row that imports
  add, in front or in between, only pushes others back: in a list that loses none the
  rank of a row only grows, so between two pages none slips back over the offset.
  The page that ends a list has fewer rows than the page size, so the ranks in the
  list end with it.
  `SweepPageSize <= PageCap`, part of `ConstantsAssumption`, is used here: with a
  larger page size every full page would look like the last.

Only model-checked: liveness (`EscalatedUnlessBlocked`, `SettledUnlessOrphaned`,
`ShutdownCompletes`), which is out of reach of the prover; and the sequential
properties of the further configurations, which the code does not have in general.
Every other property of a passing run is stated by a theorem.

## What the runs found

The findings of `PROJECT.json` are violation runs: rows of suggestions are
overwritten without a version, though README.md:45 promises one; suggestions
older than the newest rule are rerouted for ever; and `rebuild-index`, which
deletes no rule and inserts every rule again, fails on every index that holds one.
The further configurations show more: one overdue returned suggestion stops all
escalation; after a restart no password works; the worker disturbs work that
began after its reload; leased feedback is lost when its worker dies; two
definitions of a day disagree about a point's capacity; campaigns, suggestions and
plans are checked outside the transaction that relies on them; a task that times
out leaves no record; the process exits before it has stopped; a rebuild beside a
running server drops what was committed meanwhile, brings back what was rolled
back, leaves escalated suggestions without a current referral and says nothing of
damaged lines; an export reports more rows than it writes.

## Not modelled

- Opening and migrating the index (`index/schema.go`), which ends before anything
  else begins; the text form of times there: comparing them as strings is wrong
  within a second when trailing zeros are dropped; the clocks here are integers.
- Diagnose, the backlog and the remaining lists (each a single read), the retry of
  a failure (it sets a status and runs nothing), arguments and output of the
  command line tool, HTTP routing and decoding, configuration, logging: no state
  of their own and no interleaving the modules do not have already.
- Failures and batches on the shards: rows a rebuild copies like escalations.
- Faults of the disk under SQLite. Writes of the session file and of a shard may
  fail, the index may be lost as a whole.
- In `CreateCampaign` the code is looked up before it is trimmed; here it is one
  value.

## Plan

1. `SuggestionRouting` and its abstraction `ReferralLedger`: the core, where four
   kinds of actor write the same rows. Done, with proofs.
2. `FeedbackDelivery`: the two leased queues, and their abstraction
   `DeliveryLedger`. Done.
3. `CollectionCampaign` and `HandlingChain`. Done.
4. `BackgroundTasks` and `AuthSessions`. Done.
5. `RecordStore`: appends before the commit, rollback, rotation, torn lines, a
   rebuild by another process, reconcile. `SuggestionLists`: imports, pages, exports
   and details. Done.
6. Proofs: the inductive invariants of all eight components with what follows from
   them, and the refinements of `ReferralLedger` and `DeliveryLedger`. Done. To
   come: that a suggestion is escalated one level at a time and the steps of its
   life cycle, as action properties; which of the sequential properties hold for one
   thread.

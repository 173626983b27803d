--------------------------- MODULE BackgroundTasks ---------------------------
(***************************************************************************)
(* The loops that run in the background - the scheduler's escalation and   *)
(* reconciliation, the worker's re-evaluation - and the shutdown of the    *)
(* process (internal/scheduler, internal/worker/worker.go,                 *)
(* cmd/civicbridge/main.go).                                               *)
(*                                                                         *)
(* A loop waits for a tick, runs its task under a timeout and waits again. *)
(* The scheduler retries a task that fails, with a backoff that doubles,   *)
(* and records a permanent failure in the end; the worker does not retry.  *)
(* What a task does is modelled in SuggestionRouting; here it succeeds or  *)
(* fails.                                                                  *)
(*                                                                         *)
(* On a signal one goroutine stops the parts in order, while main, whose   *)
(* ListenAndServe has returned, exits without waiting for it.              *)
(***************************************************************************)
EXTENDS Integers, FiniteSets

CONSTANTS
  Task,         \* tasks of the scheduler
  Worker,       \* the re-evaluation worker
  MaxRetries,   \* attempts before a failure is permanent
  BaseBackoff,  \* wait after the first failure
  TaskTimeout,  \* time a task has, with its retries
  MaxFailures,  \* bound: failures of a task on record
  MaxTime       \* bound: the last instant of the clock

ASSUME ConstantsAssumption ==
  /\ Worker \notin Task
  /\ MaxRetries \in Nat \ {0}
  /\ BaseBackoff \in Nat \ {0}
  /\ TaskTimeout \in Nat
  /\ MaxFailures \in Nat /\ MaxTime \in Nat

Loop == Task \cup {Worker}

VARIABLES
  now,        \* the clock
  ticks,      \* loops whose ticker channel holds a tick
  loop,       \* what each loop is doing
  cancelled,  \* loops whose context is cancelled
  failures,   \* how many failures of each task are on record
  shutdown,   \* how far the shutdown goroutine has come
  store,      \* the store is open or closed
  process     \* main is serving or has exited

loops == <<ticks, loop, failures>>

rest == <<cancelled, shutdown, store, process>>

vars == <<now, loops, rest>>

LoopState ==
  [pc: {"waiting", "running", "backing_off", "recording", "exited"},
   attempts: 0..MaxRetries, deadline: Nat, wake: Int]

Stage == {"no_signal", "http", "scheduler", "scheduler_waits",
          "worker", "worker_waits", "store", "done"}

Pc(x, pc) == loop[x].pc = pc

\* The context of the running task is cancelled or its time is up.
Done(x) == x \in cancelled \/ loop[x].deadline <= now

\* The loop goes back to its select.
Waiting == [pc |-> "waiting", attempts |-> 0, deadline |-> 0, wake |-> 0]

Goes(x, state) == loop' = [loop EXCEPT ![x] = state]

\* A mutation of Backoff: every wait is the same.
ConstantBackoff(attempt) == BaseBackoff

\* calculateBackoff: doubled with every attempt, at most ten times.
Backoff(attempt) ==
  BaseBackoff * 2^(IF attempt > 11 THEN 10 ELSE attempt - 1)

\* A mutation of Exhausted: one attempt too many.
ExhaustedLater(attempts) == attempts > MaxRetries

Exhausted(attempts) == attempts >= MaxRetries

-----------------------------------------------------------------------------
Init ==
  /\ now = 0
  /\ ticks = {}
  /\ loop = [x \in Loop |-> Waiting]
  /\ cancelled = {}
  /\ failures = [x \in Task |-> 0]
  /\ shutdown = "no_signal"
  /\ store = "open"
  /\ process = "serving"

TimePasses ==
  /\ now < MaxTime
  /\ now' = now + 1
  /\ UNCHANGED <<loops, rest>>

\* A ticker whose channel is full drops the tick.
Tick(x) ==
  /\ ticks' = ticks \cup {x}
  /\ UNCHANGED <<now, loop, failures, rest>>

\* The select takes a tick, also one that is ready together with ctx.Done.
StartTask(x) ==
  /\ Pc(x, "waiting") /\ x \in ticks
  /\ x \in Task => failures[x] < MaxFailures
  /\ ticks' = ticks \ {x}
  /\ Goes(x, [pc |-> "running", attempts |-> 0,
              deadline |-> now + TaskTimeout, wake |-> 0])
  /\ UNCHANGED <<now, failures, rest>>

\* A mutation of ExitLoop: a tick that is waiting is served first.
ExitWhenIdle(x) ==
  /\ Pc(x, "waiting") /\ x \in cancelled /\ x \notin ticks
  /\ Goes(x, [Waiting EXCEPT !.pc = "exited"])
  /\ UNCHANGED <<now, ticks, failures, rest>>

\* The select takes ctx.Done.
ExitLoop(x) ==
  /\ Pc(x, "waiting") /\ x \in cancelled
  /\ Goes(x, [Waiting EXCEPT !.pc = "exited"])
  /\ UNCHANGED <<now, ticks, failures, rest>>

\* Every query of a task fails once its context is done.
TaskSucceeds(x) ==
  /\ Pc(x, "running") /\ ~Done(x) /\ store = "open"
  /\ Goes(x, Waiting)
  /\ UNCHANGED <<now, ticks, failures, rest>>

\* A failing task is recorded after MaxRetries attempts and backs off before.
TaskFails(x) ==
  LET attempts == loop[x].attempts + 1 IN
  /\ x \in Task /\ Pc(x, "running")
  /\ Goes(x, [loop[x] EXCEPT
                !.attempts = attempts,
                !.pc = IF Exhausted(attempts) THEN "recording"
                       ELSE "backing_off",
                !.wake = IF Exhausted(attempts) THEN @
                         ELSE now + Backoff(attempts)])
  /\ UNCHANGED <<now, ticks, failures, rest>>

\* The worker counts a failed sweep and waits for the next tick.
SweepFails ==
  /\ Pc(Worker, "running")
  /\ Goes(Worker, Waiting)
  /\ UNCHANGED <<now, ticks, failures, rest>>

Retry(x) ==
  /\ Pc(x, "backing_off") /\ loop[x].wake <= now
  /\ Goes(x, [loop[x] EXCEPT !.pc = "running", !.wake = 0])
  /\ UNCHANGED <<now, ticks, failures, rest>>

\* The select of the backoff takes ctx.Done.
GiveUp(x) ==
  /\ Pc(x, "backing_off") /\ Done(x)
  /\ Goes(x, Waiting)
  /\ UNCHANGED <<now, ticks, failures, rest>>

\* recordTaskFailure: the transaction is begun under the task's own context, so
\* it fails when the task's time is up. Faults of the disk are left out.
RecordFailure(x) ==
  /\ Pc(x, "recording") /\ ~Done(x) /\ store = "open"
  /\ failures' = [failures EXCEPT ![x] = @ + 1]
  /\ Goes(x, Waiting)
  /\ UNCHANGED <<now, ticks, rest>>

RecordFailureFails(x) ==
  /\ Pc(x, "recording") /\ (Done(x) \/ store = "closed")
  /\ Goes(x, Waiting)
  /\ UNCHANGED <<now, ticks, failures, rest>>

(***************************************************************************)
(* Shutdown                                                                *)
(***************************************************************************)
\* The shutdown goroutine takes its next step.
Advances(from, to) == shutdown = from /\ shutdown' = to

Signal ==
  /\ Advances("no_signal", "http")
  /\ UNCHANGED <<now, loops, cancelled, store, process>>

\* httpSrv.Shutdown returns: the requests have ended or ShutdownTimeout is up.
\* Requests are not modelled, so this may be at any time.
HttpStopped ==
  /\ Advances("http", "scheduler")
  /\ UNCHANGED <<now, loops, cancelled, store, process>>

StopScheduler ==
  /\ Advances("scheduler", "scheduler_waits")
  /\ cancelled' = cancelled \cup Task
  /\ UNCHANGED <<now, loops, store, process>>

\* A mutation of SchedulerStopped: wg.Wait is left out.
SchedulerLeft ==
  /\ Advances("scheduler_waits", "worker")
  /\ UNCHANGED <<now, loops, cancelled, store, process>>

SchedulerStopped ==
  /\ Advances("scheduler_waits", "worker")
  /\ \A x \in Task : Pc(x, "exited")
  /\ UNCHANGED <<now, loops, cancelled, store, process>>

StopWorker ==
  /\ Advances("worker", "worker_waits")
  /\ cancelled' = cancelled \cup {Worker}
  /\ UNCHANGED <<now, loops, store, process>>

WorkerStopped ==
  /\ Advances("worker_waits", "store")
  /\ Pc(Worker, "exited")
  /\ UNCHANGED <<now, loops, cancelled, store, process>>

CloseStore ==
  /\ Advances("store", "done")
  /\ store' = "closed"
  /\ UNCHANGED <<now, loops, cancelled, process>>

\* ListenAndServe returns as soon as the server is told to shut down.
MainExits ==
  /\ shutdown # "no_signal"
  /\ process' = "exited"
  /\ UNCHANGED <<now, loops, cancelled, shutdown, store>>

-----------------------------------------------------------------------------
LoopSteps(x) ==
  \/ StartTask(x) \/ ExitLoop(x) \/ TaskSucceeds(x)
  \/ x = Worker /\ SweepFails
  \/ x \in Task /\ \/ TaskFails(x) \/ Retry(x) \/ GiveUp(x)
                   \/ RecordFailure(x) \/ RecordFailureFails(x)

ShutdownSteps ==
  \/ HttpStopped \/ StopScheduler \/ SchedulerStopped
  \/ StopWorker \/ WorkerStopped \/ CloseStore

Next ==
  /\ process = "serving"
  /\ \/ TimePasses
     \/ \E x \in Loop : Tick(x) \/ LoopSteps(x)
     \/ Signal \/ ShutdownSteps
     \/ MainExits

Spec == Init /\ [][Next]_vars

(***************************************************************************)
(* The Go scheduler runs every goroutine that can go on: the loops, whose  *)
(* select picks ctx.Done sooner or later though a tick is ready too, and   *)
(* the shutdown goroutine.                                                 *)
(***************************************************************************)
Serving == process = "serving"

FairSpec ==
  /\ Spec
  /\ \A x \in Loop :
       /\ WF_vars(Serving /\ LoopSteps(x))
       /\ SF_vars(Serving /\ ExitLoop(x))
  /\ WF_vars(Serving /\ ShutdownSteps)

(***************************************************************************)
(* Properties                                                              *)
(***************************************************************************)
\* The loops, the shutdown goroutine and the records are of their types.
TypeOK ==
  /\ now \in 0..MaxTime
  /\ ticks \subseteq Loop
  /\ loop \in [Loop -> LoopState]
  /\ cancelled \subseteq Loop
  /\ failures \in [Task -> Nat]
  /\ shutdown \in Stage
  /\ store \in {"open", "closed"}
  /\ process \in {"serving", "exited"}

\* When the store is closed in order no loop runs a task any more, so no task
\* ever fails because the shutdown was faster than it.
ClosedWhenIdle == store = "closed" => \A x \in Loop : Pc(x, "exited")

\* The inductive invariant: a task that is tried again has an attempt left, and
\* what the shutdown goroutine has waited for stays as it is.
TasksInv ==
  /\ TypeOK
  /\ \A x \in Loop :
       loop[x].pc \in {"running", "backing_off"} => loop[x].attempts < MaxRetries
  /\ shutdown \in {"worker", "worker_waits", "store", "done"} =>
       \A x \in Task : Pc(x, "exited")
  /\ shutdown \in {"store", "done"} => Pc(Worker, "exited")
  /\ store = "closed" => shutdown = "done"

Elapsed(x) == now + TaskTimeout - loop[x].deadline

\* The sum of Backoff(1), ..., Backoff(n).
Waited(n) == BaseBackoff * (IF n <= 10 THEN 2^n - 1 ELSE (n - 9) * 2^10 - 1)

\* A failure goes on record once, and only of a task that failed exactly
\* MaxRetries times with every doubled wait in between, and within its timeout.
RecordedWhenExhausted ==
  [][\A x \in Task :
       failures'[x] # failures[x] =>
         /\ failures'[x] = failures[x] + 1
         /\ loop[x].attempts = MaxRetries
         /\ Elapsed(x) >= Waited(MaxRetries - 1)
         /\ Elapsed(x) < TaskTimeout]_vars

\* Once the signal has come the shutdown goroutine gets to its end, unless main
\* has exited: no loop keeps Stop waiting for ever.
ShutdownCompletes == shutdown = "http" ~> (shutdown = "done" \/ ~Serving)

\* A task that fails for good is on record: the loop never goes back to waiting
\* from a backoff or a last attempt without a record (README.md:23, the
\* scheduler's backoff and permanent failures), while it is not being stopped.
FailureRecorded ==
  [][\A x \in Task :
       /\ loop[x].pc \in {"backing_off", "recording"}
       /\ loop'[x].pc = "waiting"
       /\ x \notin cancelled
       => failures'[x] = failures[x] + 1]_vars

\* The process exits when everything has been stopped (README.md:13, graceful
\* shutdown).
ExitsGracefully == process = "exited" => shutdown = "done"

=============================================================================

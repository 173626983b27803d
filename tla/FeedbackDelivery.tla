--------------------------- MODULE FeedbackDelivery ---------------------------
(***************************************************************************)
(* Feedback to citizens (internal/service/civic_service.go:490-634).  When *)
(* the outcome of a suggestion has been published, QueueFeedback inserts a *)
(* receipt and an outbox event in one transaction.  Workers claim rows of  *)
(* either table under a lease, send, and report the outcome.  Every update *)
(* of a row compares the version that was read (UpdateFeedback,            *)
(* UpdateOutbox).                                                          *)
(*                                                                         *)
(* The two tables are worked in the same way, so both are a queue of rows  *)
(* here; what differs is named in Waiting, Leased, Succeeded and Failed.   *)
(* The workers are not in the repository: they call Claim, send what they  *)
(* got, and call Complete once for each row, as the tests do.              *)
(***************************************************************************)
EXTENDS Integers, Sequences, FiniteSets

CONSTANTS
  Identity,       \* citizen and channel: who is told, how
  Handler,        \* threads that serve requests
  FeedbackWorker, \* callers of ClaimFeedback and CompleteFeedback
  OutboxWorker,   \* callers of ClaimOutbox and CompleteOutbox
  ClaimLimit,     \* the limit a worker passes to Claim
  LeaseTime,      \* the lease a worker asks for
  MaxAttempts,    \* the maxAttempts a worker passes to Complete
  BaseBackoff,    \* the backoff a worker passes to Complete
  GivenUpBackoff, \* the day CompleteOutbox waits after maxAttempts
  MaxExponent,    \* the cap on the exponent of the backoff, 8 in the code
  Horizon,        \* bound: later instants are not told apart
  MaxFailures,    \* bound: how often the sending of one row fails
  MaxCrashes      \* bound: threads that die or are cut short

Worker == FeedbackWorker \cup OutboxWorker

Thread == Handler \cup Worker

Queue == {"feedback", "outbox"}

Serves(t) == IF t \in FeedbackWorker THEN "feedback" ELSE "outbox"

ASSUME ConstantsAssumption ==
  /\ Handler \cap Worker = {} /\ FeedbackWorker \cap OutboxWorker = {}
  /\ ClaimLimit \in Nat \ {0}
  /\ LeaseTime \in Nat
  /\ MaxAttempts \in Nat \ {0}
  /\ BaseBackoff \in Nat
  /\ GivenUpBackoff \in Nat
  /\ MaxExponent \in 0..8
  /\ Horizon \in Nat
  /\ MaxFailures \in Nat
  /\ MaxCrashes \in Nat

VARIABLES
  now,        \* the injected clock
  published,  \* is the conversion of the suggestion published?
  queue,      \* tables feedback_receipts and outbox_events, by row number
  sent,       \* how often each row was sent with success
  session,    \* what each thread is doing and what it has read
  crashes     \* how many threads were cut short

vars == <<now, published, queue, sent, session, crashes>>

NoLease == -1

\* The statuses the CHECK of a table allows ("acknowledged" is never used).
Status(q) ==
  IF q = "feedback"
  THEN {"queued", "delivering", "delivered", "permanent_failed"}
  ELSE {"pending", "processing", "published", "failed"}

\* A receipt is about an identity, an event about the receipt of that number.
Row(q) ==
  [subject: IF q = "feedback" THEN Identity ELSE Nat, status: Status(q),
   attempt: Nat, at: Nat, lease: Nat \cup {NoLease}, version: Nat]

Waiting(q) == IF q = "feedback" THEN {"queued"} ELSE {"pending", "failed"}

Leased(q) == IF q = "feedback" THEN "delivering" ELSE "processing"

Settled(q) ==
  IF q = "feedback" THEN {"delivered", "permanent_failed"} ELSE {"published"}

Snapshot(q) == [id: Nat, row: Row(q)]

Idle == [pc |-> "idle"]

Request == {Idle} \cup [pc: {"queue"}, identity: Identity, at: Nat]

Delivery(q) ==
  {Idle}
    \cup [pc: {"claim"}, rows: SUBSET Snapshot(q), at: Nat, held: SUBSET Nat]
    \cup [pc: {"holding"}, held: SUBSET Nat]
    \cup [pc: {"sent"}, held: SUBSET Nat, id: Nat, ok: BOOLEAN]
    \cup [pc: {"settle"}, held: SUBSET Nat, id: Nat, row: Row(q)]

\* The rows of its queue a worker has claimed and not completed yet.
HeldBy(s) ==
  IF s.pc \in {"claim", "holding"} THEN s.held
  ELSE IF s.pc \in {"sent", "settle"} THEN s.held \cup {s.id} ELSE {}

Holds(t) == HeldBy(session[t])

Pc(t, pc) == session[t].pc = pc

Continue(t, s) == session' = [session EXCEPT ![t] = s]

Holding(held) == IF held = {} THEN Idle ELSE [pc |-> "holding", held |-> held]

\* An instant that lies ahead, as far as it is told apart.
After(time, wait) == IF time + wait > Horizon THEN Horizon ELSE time + wait

NewRow(subject, status, at) ==
  [subject |-> subject, status |-> status, attempt |-> 0, at |-> at,
   lease |-> NoLease, version |-> 1]

-----------------------------------------------------------------------------
Init ==
  /\ now = 0
  /\ published = FALSE
  /\ queue = [q \in Queue |-> <<>>]
  /\ sent = [q \in Queue |-> <<>>]
  /\ session = [t \in Thread |-> Idle]
  /\ crashes = 0

Tick ==
  /\ now < Horizon
  /\ now' = now + 1
  /\ UNCHANGED <<published, queue, sent, session, crashes>>

\* VerifyConversion publishes the outcome, once and for all.
Publish ==
  /\ ~published
  /\ published' = TRUE
  /\ UNCHANGED <<now, queue, sent, session, crashes>>

(***************************************************************************)
(* QueueFeedback: the identity is looked up first, and an existing receipt *)
(* returned; then UNIQUE(suggestion_id, citizen_hash, channel) decides.    *)
(***************************************************************************)
QueueRead(t, identity) ==
  /\ t \in Handler
  /\ Pc(t, "idle")
  /\ \A k \in DOMAIN queue["feedback"] :
       queue["feedback"][k].subject # identity
  /\ published
  /\ Continue(t, [pc |-> "queue", identity |-> identity, at |-> now])
  /\ UNCHANGED <<now, published, queue, sent, crashes>>

IsNew(identity) ==
  \A k \in DOMAIN queue["feedback"] : queue["feedback"][k].subject # identity

\* A mutation of Enqueue: the receipt is rolled back and the event is not.
EnqueueEventFirst(identity, at) ==
  LET event == NewRow(Len(queue["feedback"]) + 1, "pending", at) IN
  IF IsNew(identity)
  THEN /\ queue' = [queue EXCEPT
            !["feedback"] = Append(@, NewRow(identity, "queued", at)),
            !["outbox"] = Append(@, event)]
       /\ sent' = [q \in Queue |-> Append(sent[q], 0)]
  ELSE /\ queue' = [queue EXCEPT !["outbox"] = Append(@, event)]
       /\ sent' = [sent EXCEPT !["outbox"] = Append(@, 0)]

\* The receipt, the event that refers to it and an audit entry, or nothing.
Enqueue(identity, at) ==
  IF IsNew(identity)
  THEN /\ queue' = [queue EXCEPT
            !["feedback"] = Append(@, NewRow(identity, "queued", at)),
            !["outbox"] = Append(@, NewRow(Len(queue["feedback"]) + 1,
                                           "pending", at))]
       /\ sent' = [q \in Queue |-> Append(sent[q], 0)]
  ELSE UNCHANGED <<queue, sent>>

QueueCommit(t) ==
  /\ Pc(t, "queue")
  /\ Enqueue(session[t].identity, session[t].at)
  /\ Continue(t, Idle)
  /\ UNCHANGED <<now, published, crashes>>

(***************************************************************************)
(* ClaimFeedback and ClaimOutbox: the rows that are ready are listed, the  *)
(* earliest first; then each is leased in a transaction of its own, and    *)
(* left out when its version is no longer the one that was listed.         *)
(***************************************************************************)
\* ListReadyFeedback and ListReadyOutbox, without the limit.
Ready(q) ==
  {k \in DOMAIN queue[q] :
     /\ queue[q][k].status \in Waiting(q)
     /\ queue[q][k].at <= now
     /\ queue[q][k].lease = NoLease \/ queue[q][k].lease < now}

FirstOf(ready, q) ==
  {ids \in SUBSET ready :
     /\ Cardinality(ids) =
          IF Cardinality(ready) < ClaimLimit THEN Cardinality(ready)
                                             ELSE ClaimLimit
     /\ \A k \in ids, l \in ready \ ids : queue[q][k].at <= queue[q][l].at}

ClaimList(t) ==
  LET q == Serves(t) IN
  /\ t \in Worker
  /\ Pc(t, "idle")
  /\ Ready(q) # {}
  /\ \E ids \in FirstOf(Ready(q), q) :
       Continue(t, [pc |-> "claim", at |-> now, held |-> {},
                    rows |-> {[id |-> k, row |-> queue[q][k]] : k \in ids}])
  /\ UNCHANGED <<now, published, queue, sent, crashes>>

\* A mutation of Current: nothing is compared, WHERE id=? alone.
AnyVersion(q, id, version) == TRUE

\* The WHERE clause of UpdateFeedback and UpdateOutbox.
Current(q, id, version) == queue[q][id].version = version

Lease(q, row, at) ==
  [row EXCEPT !.status = Leased(q), !.lease = After(at, LeaseTime),
              !.version = @ + 1]

ClaimNext(t) ==
  LET s == session[t]
      q == Serves(t)
  IN  /\ Pc(t, "claim")
      /\ \E e \in s.rows :
           LET rest == s.rows \ {e}
               won  == Current(q, e.id, e.row.version)
               held == IF won THEN s.held \cup {e.id} ELSE s.held
           IN  /\ \A f \in rest : e.row.at <= f.row.at
               /\ queue' = IF won THEN [queue EXCEPT
                                          ![q][e.id] = Lease(q, e.row, s.at)]
                                  ELSE queue
               /\ Continue(t, IF rest = {} THEN Holding(held)
                              ELSE [s EXCEPT !.rows = rest, !.held = held])
      /\ UNCHANGED <<now, published, sent, crashes>>

\* A cancelled context or a failed statement ends the loop of Claim; the rows
\* leased so far are returned with the error.
ClaimCutShort(t) ==
  /\ Pc(t, "claim")
  /\ crashes < MaxCrashes
  /\ crashes' = crashes + 1
  /\ Continue(t, Holding(session[t].held))
  /\ UNCHANGED <<now, published, queue, sent>>

(***************************************************************************)
(* The worker sends a row it holds, then calls CompleteFeedback or         *)
(* CompleteOutbox with the outcome.                                        *)
(***************************************************************************)
Send(t) ==
  LET s == session[t]
      q == Serves(t)
  IN  /\ Pc(t, "holding")
      /\ \E k \in s.held, ok \in BOOLEAN :
           /\ ok \/ queue[q][k].attempt < MaxFailures
           /\ sent' = IF ok THEN [sent EXCEPT ![q][k] = @ + 1] ELSE sent
           /\ Continue(t, [pc |-> "sent", held |-> s.held \ {k}, id |-> k,
                           ok |-> ok])
      /\ UNCHANGED <<now, published, queue, crashes>>

Backoff(attempt) ==
  BaseBackoff * 2^(IF attempt - 1 < MaxExponent THEN attempt - 1
                                                ELSE MaxExponent)

Succeeded(q, row) ==
  [row EXCEPT !.status = IF q = "feedback" THEN "delivered" ELSE "published",
              !.lease = NoLease, !.version = @ + 1]

\* A mutation of GivesUp: one attempt more than maxAttempts.
GivesUpLater(attempt) == attempt > MaxAttempts

GivesUp(attempt) == attempt >= MaxAttempts

\* A mutation of Retried: the row waits for its retry still leased.
RetriedAsLeased(q) == Leased(q)

Retried(q) == IF q = "feedback" THEN "queued" ELSE "failed"

\* A receipt is given up after maxAttempts, an event is tried for ever.
Failed(q, row) ==
  LET attempt == row.attempt + 1
      failed  == [row EXCEPT !.attempt = attempt, !.lease = NoLease,
                             !.version = @ + 1]
      wait    == IF GivesUp(attempt) THEN GivenUpBackoff ELSE Backoff(attempt)
  IN  IF q = "feedback" /\ GivesUp(attempt)
      THEN [failed EXCEPT !.status = "permanent_failed"]
      ELSE [failed EXCEPT !.status = Retried(q), !.at = After(now, wait)]

\* The row is read; one that is not leased is refused.
CompleteRead(t) ==
  LET s   == session[t]
      q   == Serves(t)
      row == queue[q][s.id]
  IN  /\ Pc(t, "sent")
      /\ Continue(t, IF row.status # Leased(q) THEN Holding(s.held)
                     ELSE [pc |-> "settle", held |-> s.held, id |-> s.id,
                           row |-> IF s.ok THEN Succeeded(q, row)
                                           ELSE Failed(q, row)])
      /\ UNCHANGED <<now, published, queue, sent, crashes>>

CompleteCommit(t) ==
  LET s == session[t]
      q == Serves(t)
  IN  /\ Pc(t, "settle")
      /\ queue' = IF Current(q, s.id, s.row.version - 1)
                  THEN [queue EXCEPT ![q][s.id] = s.row] ELSE queue
      /\ Continue(t, Holding(s.held))
      /\ UNCHANGED <<now, published, sent, crashes>>

\* A thread dies, or its operation fails for good, before its next step.
Crash(t) ==
  /\ ~Pc(t, "idle")
  /\ crashes < MaxCrashes
  /\ crashes' = crashes + 1
  /\ Continue(t, Idle)
  /\ UNCHANGED <<now, published, queue, sent>>

-----------------------------------------------------------------------------
Work(t) ==
  \/ ClaimList(t)
  \/ ClaimNext(t)
  \/ Send(t)
  \/ CompleteRead(t)
  \/ CompleteCommit(t)

Next ==
  \/ Tick
  \/ Publish
  \/ \E t \in Thread :
       \/ \E identity \in Identity : QueueRead(t, identity)
       \/ QueueCommit(t)
       \/ Work(t)
       \/ ClaimCutShort(t)
       \/ Crash(t)

Spec == Init /\ [][Next]_vars

\* Time passes, and workers keep polling and finish what they do.
FairSpec == Spec /\ WF_vars(Tick) /\ \A t \in Worker : WF_vars(Work(t))

(***************************************************************************)
(* Safety                                                                  *)
(***************************************************************************)
\* The tables and the sessions hold what their columns and locals can hold.
TypeOK ==
  /\ now \in 0..Horizon
  /\ published \in BOOLEAN
  /\ DOMAIN queue = Queue /\ DOMAIN sent = Queue
  /\ \A q \in Queue :
       /\ queue[q] \in Seq(Row(q))
       /\ sent[q] \in Seq(Nat)
       /\ Len(sent[q]) = Len(queue[q])
  /\ DOMAIN session = Thread
  /\ \A t \in Handler : session[t] \in Request
  /\ \A t \in Worker : session[t] \in Delivery(Serves(t))
  /\ crashes \in Nat

\* Two requests for one citizen and channel, however they overlap, leave one
\* receipt.
OneReceiptPerIdentity ==
  \A k, l \in DOMAIN queue["feedback"] :
    queue["feedback"][k].subject = queue["feedback"][l].subject => k = l

\* Every receipt has exactly one event, and there is no event without its
\* receipt, also when a transaction is rolled back: "feedback records and outbox
\* events are stored in the same transaction" (README.md:45).
OneEventPerReceipt ==
  /\ \A k \in DOMAIN queue["feedback"] :
       \E e \in DOMAIN queue["outbox"] :
         \A f \in DOMAIN queue["outbox"] :
           queue["outbox"][f].subject = k <=> f = e
  /\ \A e \in DOMAIN queue["outbox"] :
       queue["outbox"][e].subject \in DOMAIN queue["feedback"]

\* No two workers hold the same row, and a row that is held is leased: what
\* "concurrent claims grant a single lease" means
\* (service/civic_service_test.go:240).
SingleLease ==
  \A t \in Worker : \A k \in Holds(t) :
    /\ queue[Serves(t)][k].status = Leased(Serves(t))
    /\ \A u \in Worker \ {t} : Serves(u) = Serves(t) => k \notin Holds(u)

\* Nothing is sent twice, whoever crashed, was late or lost a race.
SentOnce == \A q \in Queue : \A k \in DOMAIN sent[q] : sent[q][k] <= 1

\* A receipt is given up exactly when maxAttempts attempts have failed, and a
\* row that was sent is never counted as failed.
GivenUpAtTheLimit ==
  \A k \in DOMAIN queue["feedback"] :
    LET row == queue["feedback"][k] IN
    /\ row.attempt <= MaxAttempts
    /\ row.status = "permanent_failed" <=> row.attempt = MaxAttempts
    /\ row.status = "permanent_failed" => sent["feedback"][k] = 0

\* What a worker may rely on: it has not sent what it still holds, the row it is
\* about to write is the next version of the stored one, and a listed row is the
\* stored one as long as the versions agree.
SessionSound(q, s) ==
  /\ s.pc = "claim" =>
       /\ s.at <= now
       /\ \A e \in s.rows :
            /\ e.id \in DOMAIN queue[q] \ s.held
            /\ \A f \in s.rows : f.id = e.id => f = e
            /\ e.row.status \in Waiting(q)
            /\ e.row.at <= s.at
            /\ e.row.version <= queue[q][e.id].version
            /\ e.row.version = queue[q][e.id].version =>
                 e.row = queue[q][e.id]
  /\ \A k \in HeldBy(s) : k \in DOMAIN queue[q]
  /\ s.pc \in {"claim", "holding", "sent", "settle"} =>
       \A k \in s.held : sent[q][k] = 0
  /\ s.pc = "sent" =>
       /\ s.id \notin s.held
       /\ sent[q][s.id] = IF s.ok THEN 1 ELSE 0
  /\ s.pc = "settle" =>
       /\ s.id \notin s.held
       /\ s.row.version = queue[q][s.id].version + 1
       /\ s.row.subject = queue[q][s.id].subject
       /\ s.row.status # Leased(q)
       /\ s.row.status \in Waiting(q) \cup {"permanent_failed"} <=>
            sent[q][s.id] = 0
       /\ s.row.attempt = queue[q][s.id].attempt + 1 - sent[q][s.id]
       /\ q = "feedback" =>
            /\ s.row.attempt <= MaxAttempts
            /\ s.row.status = "permanent_failed" <=>
                 s.row.attempt = MaxAttempts

\* The inductive invariant: besides what the parts say, nothing that waits has
\* been sent.
DeliveryInv ==
  /\ TypeOK
  /\ OneReceiptPerIdentity
  /\ OneEventPerReceipt
  /\ SingleLease
  /\ SentOnce
  /\ GivenUpAtTheLimit
  /\ \A q \in Queue : \A k \in DOMAIN queue[q] :
       queue[q][k].status \in Waiting(q) => sent[q][k] = 0
  /\ \A t \in Worker : SessionSound(Serves(t), session[t])

(***************************************************************************)
(* The tables implement the ledger of DeliveryLedger                       *)
(***************************************************************************)
\* What a status says of a row, by whatever name its table has for it.
Stage(q, row) ==
  IF row.status \in Waiting(q) THEN "waiting"
  ELSE IF row.status = Leased(q) THEN "taken" ELSE "settled"

Ledger == INSTANCE DeliveryLedger WITH
  state <- [q \in Queue |->
              [k \in DOMAIN queue[q] |-> Stage(q, queue[q][k])]],
  tries <- [q \in Queue |-> [k \in DOMAIN queue[q] |-> queue[q][k].attempt]]

\* Whatever the workers do, crash at or come too late for, a receipt and its
\* event are issued together, each is taken by one worker at a time, sent once at
\* most, counted as failed only when it was not sent, and left alone once settled.
LedgerSpec == Ledger!Spec

(***************************************************************************)
(* Action properties                                                       *)
(***************************************************************************)
\* A row whose sending failed is not leased again before its backoff is over,
\* not even by a worker that listed it before the failure.
BackoffRespected ==
  [][\A q \in Queue : \A k \in DOMAIN queue[q] :
       queue[q][k].status # Leased(q) /\ queue'[q][k].status = Leased(q)
         => queue[q][k].at <= now]_vars

(***************************************************************************)
(* Liveness                                                                *)
(***************************************************************************)
RowNumber == 1..Cardinality(Identity)

IsWaiting(q, k) ==
  k \in DOMAIN queue[q] /\ queue[q][k].status \in Waiting(q)

IsSettled(q, k) ==
  k \in DOMAIN queue[q] /\ queue[q][k].status \in Settled(q)

\* A row whose worker has died with the lease.
IsOrphaned(q, k) ==
  /\ k \in DOMAIN queue[q]
  /\ queue[q][k].status = Leased(q)
  /\ queue[q][k].lease # NoLease
  /\ \A t \in Worker : Serves(t) = q => k \notin Holds(t)

\* A row that waits is settled, unless its worker dies with the lease.
SettledUnlessOrphaned ==
  \A q \in Queue, k \in RowNumber :
    IsWaiting(q, k) ~> (IsSettled(q, k) \/ IsOrphaned(q, k))

\* A row that waits is settled: events for "reliable delivery" (README.md:42),
\* receipts with "lease, retry and permanent failure" (README.md:41).
EventuallySettled ==
  \A q \in Queue, k \in RowNumber : IsWaiting(q, k) ~> IsSettled(q, k)

=============================================================================

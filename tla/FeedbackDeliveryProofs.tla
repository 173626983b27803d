------------------------ MODULE FeedbackDeliveryProofs ------------------------
(***************************************************************************)
(* The invariants of FeedbackDelivery, and that its tables implement       *)
(* DeliveryLedger.                                                         *)
(***************************************************************************)
EXTENDS FeedbackDelivery, SequenceTheorems, TLAPS

(***************************************************************************)
(* Rows and sessions                                                       *)
(***************************************************************************)
LEMMA Queues ==
  /\ \A q \in Queue : q = "feedback" \/ q = "outbox"
  /\ \A t \in Worker : Serves(t) \in Queue
  /\ \A q \in Queue : Leased(q) \in Status(q) /\ Waiting(q) \subseteq Status(q)
  /\ \A q \in Queue : Leased(q) \notin Waiting(q) \cup {"permanent_failed"}
  /\ \A q \in Queue : "permanent_failed" \notin Waiting(q)
BY DEF Queue, Serves, Leased, Status, Waiting

LEMMA RowFields ==
  ASSUME NEW q \in Queue, NEW row \in Row(q)
  PROVE  /\ row.subject \in IF q = "feedback" THEN Identity ELSE Nat
         /\ row.status \in Status(q)
         /\ row.attempt \in Nat
         /\ row.at \in Nat
         /\ row.lease \in Nat \cup {NoLease}
         /\ row.version \in Nat
BY DEF Row

LEMMA AfterType ==
  ASSUME NEW time \in Nat, NEW wait \in Nat
  PROVE  After(time, wait) \in Nat
BY ConstantsAssumption DEF ConstantsAssumption, After

\* The provers know the powers of numbers that are written out.
LEMMA PowersOfTwo == \A n \in 0..8 : 2^n \in Nat
<1>1. /\ 2^0 \in Nat /\ 2^1 \in Nat /\ 2^2 \in Nat /\ 2^3 \in Nat /\ 2^4 \in Nat
      /\ 2^5 \in Nat /\ 2^6 \in Nat /\ 2^7 \in Nat /\ 2^8 \in Nat
  OBVIOUS
<1>2. \A n \in 0..8 : \/ n = 0 \/ n = 1 \/ n = 2 \/ n = 3 \/ n = 4
                       \/ n = 5 \/ n = 6 \/ n = 7 \/ n = 8
  OBVIOUS
<1>. QED
  BY <1>1, <1>2, Zenon

LEMMA BackoffType ==
  ASSUME NEW attempt \in Nat \ {0}
  PROVE  Backoff(attempt) \in Nat
<1>. DEFINE n == IF attempt - 1 < MaxExponent THEN attempt - 1
                                              ELSE MaxExponent
<1>1. n \in 0..MaxExponent
  BY ConstantsAssumption DEF ConstantsAssumption
<1>2. 2^n \in Nat
  <2>1. n \in 0..8
    BY <1>1, ConstantsAssumption DEF ConstantsAssumption
  <2>. HIDE DEF n
  <2>. QED
    BY <2>1, PowersOfTwo
<1>3. BaseBackoff \in Nat
  BY ConstantsAssumption DEF ConstantsAssumption
<1>. HIDE DEF n
<1>4. BaseBackoff * 2^n \in Nat
  BY <1>2, <1>3
<1>. QED
  BY <1>4 DEF Backoff, n

LEMMA NewRowType ==
  ASSUME NEW q \in Queue, NEW status \in Status(q), NEW at \in Nat,
         NEW subject \in IF q = "feedback" THEN Identity ELSE Nat
  PROVE  NewRow(subject, status, at) \in Row(q)
BY DEF NewRow, Row

\* Changing one column of a row gives a row.
LEMMA ColumnChanged ==
  ASSUME NEW q \in Queue, NEW row \in Row(q)
  PROVE  /\ \A x \in Status(q) : [row EXCEPT !.status = x] \in Row(q)
         /\ \A x \in Nat : [row EXCEPT !.attempt = x] \in Row(q)
         /\ \A x \in Nat : [row EXCEPT !.at = x] \in Row(q)
         /\ \A x \in Nat \cup {NoLease} : [row EXCEPT !.lease = x] \in Row(q)
         /\ \A x \in Nat : [row EXCEPT !.version = x] \in Row(q)
<1>. DEFINE Subject == IF q = "feedback" THEN Identity ELSE Nat
            Statuses == Status(q)
            End == Nat \cup {NoLease}
            R == [subject: Subject, status: Statuses, attempt: Nat, at: Nat,
                  lease: End, version: Nat]
<1>1. Row(q) = R
  BY DEF Row
<1>2. row \in R
  BY <1>1
<1>. HIDE DEF Subject, Statuses, End
<1>3. /\ \A x \in Statuses : [row EXCEPT !.status = x] \in R
      /\ \A x \in Nat : [row EXCEPT !.attempt = x] \in R
      /\ \A x \in Nat : [row EXCEPT !.at = x] \in R
      /\ \A x \in End : [row EXCEPT !.lease = x] \in R
      /\ \A x \in Nat : [row EXCEPT !.version = x] \in R
  BY ONLY <1>2
<1>. QED
  BY <1>1, <1>3 DEF Statuses, End

\* So does an update that ends the lease or begins one.
LEMMA RowUpdated ==
  ASSUME NEW q \in Queue, NEW row \in Row(q), NEW status \in Status(q),
         NEW lease \in Nat \cup {NoLease}, NEW version \in Nat
  PROVE  [row EXCEPT !.status = status, !.lease = lease, !.version = version]
           \in Row(q)
<1>. DEFINE r1 == [row EXCEPT !.status = status]
            r2 == [r1 EXCEPT !.lease = lease]
            r3 == [r2 EXCEPT !.version = version]
<1>1. r1 \in Row(q)
  BY ColumnChanged
<1>. HIDE DEF r1
<1>2. r2 \in Row(q)
  BY <1>1, ColumnChanged
<1>. HIDE DEF r2
<1>3. r3 \in Row(q)
  BY <1>2, ColumnChanged
<1>. QED
  BY <1>3, Zenon DEF r1, r2, r3

LEMMA LeaseFields ==
  ASSUME NEW q \in Queue, NEW row \in Row(q), NEW at \in Nat
  PROVE  /\ Lease(q, row, at) \in Row(q)
         /\ Lease(q, row, at).status = Leased(q)
         /\ Lease(q, row, at).subject = row.subject
         /\ Lease(q, row, at).attempt = row.attempt
         /\ Lease(q, row, at).version = row.version + 1
<1>1. Leased(q) \in Status(q)
  BY Queues
<1>2. After(at, LeaseTime) \in Nat
  BY AfterType, ConstantsAssumption DEF ConstantsAssumption
<1>3. row.version + 1 \in Nat
  BY RowFields
<1>4. Lease(q, row, at) \in Row(q)
  BY <1>1, <1>2, <1>3, RowUpdated DEF Lease
<1>. QED
  BY <1>4 DEF Lease, Row

LEMMA SucceededFields ==
  ASSUME NEW q \in Queue, NEW row \in Row(q)
  PROVE  /\ Succeeded(q, row) \in Row(q)
         /\ Succeeded(q, row).status \notin
              Waiting(q) \cup {Leased(q), "permanent_failed"}
         /\ Succeeded(q, row).subject = row.subject
         /\ Succeeded(q, row).attempt = row.attempt
         /\ Succeeded(q, row).version = row.version + 1
<1>. DEFINE status == IF q = "feedback" THEN "delivered" ELSE "published"
<1>1. /\ status \in Status(q)
      /\ status \notin Waiting(q) \cup {Leased(q), "permanent_failed"}
  BY DEF Queue, Status, Waiting, Leased
<1>2. Succeeded(q, row) = [row EXCEPT !.status = status, !.lease = NoLease,
                                      !.version = row.version + 1]
  BY DEF Succeeded
<1>3. row.version + 1 \in Nat
  BY RowFields
<1>. HIDE DEF status
<1>4. Succeeded(q, row) \in Row(q)
  <2>1. NoLease \in Nat \cup {NoLease}
    OBVIOUS
  <2>2. [row EXCEPT !.status = status, !.lease = NoLease,
                    !.version = row.version + 1] \in Row(q)
    BY <1>1, <1>3, <2>1, RowUpdated
  <2>. QED
    BY <1>2, <2>2, Zenon
<1>5. /\ Succeeded(q, row).status = status
      /\ Succeeded(q, row).subject = row.subject
      /\ Succeeded(q, row).attempt = row.attempt
      /\ Succeeded(q, row).version = row.version + 1
  BY <1>2 DEF Row
<1>. QED
  BY <1>1, <1>4, <1>5

LEMMA FailedFields ==
  ASSUME NEW q \in Queue, NEW row \in Row(q), now \in Nat
  PROVE  /\ Failed(q, row) \in Row(q)
         /\ Failed(q, row).status =
              IF q = "feedback" /\ row.attempt + 1 >= MaxAttempts
              THEN "permanent_failed" ELSE Retried(q)
         /\ Failed(q, row).subject = row.subject
         /\ Failed(q, row).attempt = row.attempt + 1
         /\ Failed(q, row).version = row.version + 1
<1>. DEFINE attempt == row.attempt + 1
            wait == IF GivesUp(attempt) THEN GivenUpBackoff
                                        ELSE Backoff(attempt)
            later == After(now, wait)
            r1 == [row EXCEPT !.attempt = attempt]
            r2 == [r1 EXCEPT !.lease = NoLease]
            failed == [r2 EXCEPT !.version = row.version + 1]
<1>1. attempt \in Nat \ {0} /\ row.version + 1 \in Nat
  BY RowFields
<1>2. later \in Nat
  <2>1. GivenUpBackoff \in Nat
    BY ConstantsAssumption DEF ConstantsAssumption
  <2>2. Backoff(attempt) \in Nat
    BY <1>1, BackoffType
  <2>3. wait \in Nat
    BY <2>1, <2>2
  <2>. QED
    BY <2>3, AfterType
<1>3. /\ failed \in Row(q)
      /\ failed.attempt = attempt
      /\ failed.version = row.version + 1
      /\ failed.subject = row.subject
  <2>. HIDE DEF attempt
  <2>1. /\ r1 \in Row(q) /\ r1.attempt = attempt
        /\ r1.version = row.version /\ r1.subject = row.subject
    BY <1>1, ColumnChanged DEF Row
  <2>. HIDE DEF r1
  <2>2. /\ r2 \in Row(q) /\ r2.attempt = attempt
        /\ r2.version = row.version /\ r2.subject = row.subject
    BY <2>1, ColumnChanged DEF Row
  <2>. HIDE DEF r2
  <2>. QED
    BY <1>1, <2>2, ColumnChanged DEF Row
<1>4. failed = [row EXCEPT !.attempt = attempt, !.lease = NoLease,
                           !.version = @ + 1]
  <2>1. r2.version = row.version
    BY <1>1 DEF Row
  <2>. QED
    BY <2>1
<1>5. Failed(q, row) =
        IF q = "feedback" /\ GivesUp(attempt)
        THEN [failed EXCEPT !.status = "permanent_failed"]
        ELSE [failed EXCEPT !.status = Retried(q), !.at = later]
  BY <1>4, Zenon DEF Failed
<1>6. GivesUp(attempt) <=> attempt >= MaxAttempts
  BY DEF GivesUp
<1>. HIDE DEF failed, later
<1>7. CASE q = "feedback" /\ GivesUp(attempt)
  <2>1. "permanent_failed" \in Status(q)
    BY <1>7 DEF Status
  <2>. QED
    BY <1>3, <1>5, <1>6, <1>7, <2>1, ColumnChanged DEF Row
<1>8. CASE ~(q = "feedback" /\ GivesUp(attempt))
  <2>. DEFINE r3 == [failed EXCEPT !.status = Retried(q)]
  <2>1. Retried(q) \in Status(q)
    BY DEF Queue, Retried, Status
  <2>2. /\ r3 \in Row(q) /\ r3.status = Retried(q)
        /\ r3.attempt = attempt /\ r3.version = row.version + 1
        /\ r3.subject = row.subject
    BY <1>3, <2>1, ColumnChanged DEF Row
  <2>3. Failed(q, row) = [r3 EXCEPT !.at = later]
    BY <1>5, <1>8, Zenon
  <2>. HIDE DEF r3
  <2>. QED
    BY <1>2, <1>6, <1>8, <2>2, <2>3, ColumnChanged DEF Row
<1>. QED
  BY <1>7, <1>8

\* What a worker can be doing, with the types of its locals.
LEMMA DeliveryKinds ==
  ASSUME NEW q \in Queue, NEW s \in Delivery(q)
  PROVE  /\ s.pc \in {"idle", "claim", "holding", "sent", "settle"}
         /\ s.pc = "idle" => s = Idle
         /\ s.pc = "claim" =>
              s \in [pc: {"claim"}, rows: SUBSET Snapshot(q), at: Nat,
                     held: SUBSET Nat]
         /\ s.pc = "holding" => s \in [pc: {"holding"}, held: SUBSET Nat]
         /\ s.pc = "sent" =>
              s \in [pc: {"sent"}, held: SUBSET Nat, id: Nat, ok: BOOLEAN]
         /\ s.pc = "settle" =>
              s \in [pc: {"settle"}, held: SUBSET Nat, id: Nat, row: Row(q)]
BY DEF Delivery, Idle

LEMMA HoldingFacts ==
  ASSUME NEW q \in Queue, NEW held \in SUBSET Nat
  PROVE  /\ Holding(held) \in Delivery(q)
         /\ HeldBy(Holding(held)) = held
         /\ Holding(held).pc \in {"idle", "holding"}
         /\ Holding(held).pc = "holding" => Holding(held).held = held
<1>1. CASE held = {}
  BY <1>1 DEF Holding, Delivery, Idle, HeldBy
<1>2. CASE held # {}
  BY <1>2 DEF Holding, Delivery, Idle, HeldBy
<1>. QED
  BY <1>1, <1>2


(***************************************************************************)
(* The tables and the sessions                                             *)
(***************************************************************************)
LEMMA TableTypes ==
  ASSUME TypeOK, NEW q \in Queue
  PROVE  /\ queue[q] \in Seq(Row(q)) /\ sent[q] \in Seq(Nat)
         /\ Len(queue[q]) \in Nat /\ Len(sent[q]) = Len(queue[q])
         /\ DOMAIN queue[q] = 1..Len(queue[q])
         /\ DOMAIN sent[q] = 1..Len(queue[q])
         /\ \A k \in DOMAIN queue[q] :
              k \in Nat /\ queue[q][k] \in Row(q) /\ sent[q][k] \in Nat
<1>1. /\ queue[q] \in Seq(Row(q)) /\ sent[q] \in Seq(Nat)
      /\ Len(sent[q]) = Len(queue[q])
  BY DEF TypeOK
<1>. DEFINE R == Row(q)
            table == queue[q]
            counts == sent[q]
<1>. HIDE DEF R, table, counts
<1>2. ASSUME table \in Seq(R), counts \in Seq(Nat), Len(counts) = Len(table)
      PROVE  /\ Len(table) \in Nat
             /\ DOMAIN table = 1..Len(table)
             /\ DOMAIN counts = 1..Len(table)
             /\ \A k \in DOMAIN table :
                  k \in Nat /\ table[k] \in R /\ counts[k] \in Nat
  BY ONLY <1>2
<1>. QED
  BY <1>1, <1>2 DEF R, table, counts

LEMMA WorkerTypes ==
  ASSUME TypeOK, NEW t \in Worker
  PROVE  /\ Serves(t) \in Queue
         /\ session[t] \in Delivery(Serves(t))
         /\ t \in Thread /\ t \notin Handler
BY Queues, ConstantsAssumption DEF ConstantsAssumption, TypeOK, Thread

\* An update of one row leaves the others alone.
Writes(q, k, row) == queue' = [queue EXCEPT ![q][k] = row]

Counts(q, k, n) == sent' = [sent EXCEPT ![q][k] = n]

LEMMA RowWritten ==
  ASSUME TypeOK, NEW q \in Queue, NEW k \in DOMAIN queue[q],
         NEW row \in Row(q), Writes(q, k, row)
  PROVE  /\ DOMAIN queue' = Queue
         /\ \A p \in Queue : /\ queue'[p] \in Seq(Row(p))
                             /\ Len(queue'[p]) = Len(queue[p])
                             /\ DOMAIN queue'[p] = DOMAIN queue[p]
         /\ queue'[q][k] = row
         /\ \A p \in Queue : \A l \in DOMAIN queue[p] :
              p # q \/ l # k => queue'[p][l] = queue[p][l]
<1>. DEFINE table == queue[q]
            new == [table EXCEPT ![k] = row]
            R == Row(q)
<1>1. /\ DOMAIN queue' = Queue /\ queue'[q] = new
      /\ \A p \in Queue \ {q} : queue'[p] = queue[p]
  BY DEF TypeOK, Writes
<1>2. table \in Seq(R) /\ k \in 1..Len(table)
  BY TableTypes
<1>3. /\ new \in Seq(R) /\ Len(new) = Len(table) /\ DOMAIN new = DOMAIN table
      /\ new[k] = row /\ \A l \in DOMAIN table : l # k => new[l] = table[l]
  <2>. HIDE DEF table, R
  <2>1. row \in R
    BY DEF R
  <2>2. /\ new \in Seq(R) /\ Len(new) = Len(table)
        /\ \A l \in 1..Len(table) :
             new[l] = IF l = k THEN row ELSE table[l]
    BY <1>2, <2>1, ExceptSeq
  <2>3. DOMAIN table = 1..Len(table) /\ DOMAIN new = DOMAIN table
    BY <1>2
  <2>. QED
    BY <1>2, <2>2, <2>3
<1>4. \A p \in Queue \ {q} : queue[p] \in Seq(Row(p))
  BY DEF TypeOK
<1>. QED
  BY <1>1, <1>3, <1>4

LEMMA SentAgain ==
  ASSUME TypeOK, NEW q \in Queue, NEW k \in DOMAIN queue[q], NEW n \in Nat,
         Counts(q, k, n)
  PROVE  /\ DOMAIN sent' = Queue
         /\ \A p \in Queue : /\ sent'[p] \in Seq(Nat)
                             /\ Len(sent'[p]) = Len(sent[p])
         /\ sent'[q][k] = n
         /\ \A p \in Queue : \A l \in DOMAIN queue[p] :
              p # q \/ l # k => sent'[p][l] = sent[p][l]
<1>. DEFINE counts == sent[q]
            new == [counts EXCEPT ![k] = n]
<1>1. /\ DOMAIN sent' = Queue /\ sent'[q] = new
      /\ \A p \in Queue \ {q} : sent'[p] = sent[p]
  BY DEF TypeOK, Counts
<1>2. counts \in Seq(Nat) /\ k \in 1..Len(counts)
      /\ DOMAIN queue[q] = 1..Len(counts)
  BY TableTypes
<1>3. /\ new \in Seq(Nat) /\ Len(new) = Len(counts)
      /\ new[k] = n /\ \A l \in 1..Len(counts) : l # k => new[l] = counts[l]
  <2>. HIDE DEF counts
  <2>1. /\ new \in Seq(Nat) /\ Len(new) = Len(counts)
        /\ \A l \in 1..Len(counts) :
             new[l] = IF l = k THEN n ELSE counts[l]
    BY <1>2, ExceptSeq
  <2>. QED
    BY <1>2, <2>1
<1>4. \A p \in Queue \ {q} : sent[p] \in Seq(Nat)
  BY DEF TypeOK
<1>. QED
  BY <1>1, <1>2, <1>3, <1>4

\* What types need of a step in which one thread goes on.
LEMMA TypeStep ==
  ASSUME TypeOK, NEW t \in Thread, NEW s, Continue(t, s),
         t \in Handler => s \in Request,
         t \in Worker => s \in Delivery(Serves(t)),
         now' = now, published' = published, crashes' \in Nat,
         DOMAIN queue' = Queue, DOMAIN sent' = Queue,
         \A q \in Queue : /\ queue'[q] \in Seq(Row(q))
                          /\ sent'[q] \in Seq(Nat)
                          /\ Len(sent'[q]) = Len(queue'[q])
  PROVE  /\ TypeOK'
         /\ session'[t] = s
         /\ \A u \in Thread \ {t} : session'[u] = session[u]
<1>1. /\ DOMAIN session' = Thread /\ session'[t] = s
      /\ \A u \in Thread \ {t} : session'[u] = session[u]
  BY DEF TypeOK, Continue
<1>2. \A u \in Handler : session'[u] \in Request
  BY <1>1 DEF TypeOK, Thread
<1>3. \A u \in Worker : session'[u] \in Delivery(Serves(u))
  BY <1>1 DEF TypeOK, Thread
<1>4. now' \in 0..Horizon /\ published' \in BOOLEAN
  BY DEF TypeOK
<1>. QED
  BY <1>1, <1>2, <1>3, <1>4 DEF TypeOK

-----------------------------------------------------------------------------
(***************************************************************************)
(* The invariant, by its parts                                             *)
(***************************************************************************)
\* What DeliveryInv says of one row.
RowSound(q, k) ==
  /\ sent[q][k] <= 1
  /\ queue[q][k].status \in Waiting(q) \cup {"permanent_failed"} =>
       sent[q][k] = 0
  /\ q = "feedback" =>
       /\ queue[q][k].attempt <= MaxAttempts
       /\ queue[q][k].status = "permanent_failed" <=>
            queue[q][k].attempt = MaxAttempts

LEMMA RowParts ==
  ASSUME DeliveryInv, NEW q \in Queue, NEW k \in DOMAIN queue[q]
  PROVE  RowSound(q, k)
<1>1. TypeOK /\ SentOnce /\ GivenUpAtTheLimit
      /\ (queue[q][k].status \in Waiting(q) => sent[q][k] = 0)
  BY DEF DeliveryInv
<1>2. sent[q][k] <= 1
  BY <1>1, TableTypes DEF SentOnce
<1>3. q = "outbox" => queue[q][k].status # "permanent_failed"
  <2>1. queue[q][k] \in Row(q)
    BY <1>1, TableTypes
  <2>2. queue[q][k].status \in Status(q)
    BY <2>1, RowFields
  <2>. QED
    BY <2>2 DEF Status
<1>. QED
  BY <1>1, <1>2, <1>3, Queues DEF GivenUpAtTheLimit, RowSound

LEMMA Assembled ==
  ASSUME TypeOK', OneReceiptPerIdentity', OneEventPerReceipt', SingleLease',
         \A q \in Queue : \A k \in DOMAIN queue'[q] : RowSound(q, k)',
         \A t \in Worker : SessionSound(Serves(t), session[t])'
  PROVE  DeliveryInv'
<1>1. SentOnce'
  <2>1. \A q \in Queue : DOMAIN sent'[q] = DOMAIN queue'[q]
    BY DEF TypeOK
  <2>. QED
    BY <2>1 DEF SentOnce, RowSound
<1>2. GivenUpAtTheLimit'
  BY DEF GivenUpAtTheLimit, RowSound, Queue
<1>3. \A q \in Queue : \A k \in DOMAIN queue'[q] :
        queue'[q][k].status \in Waiting(q) => sent'[q][k] = 0
  BY DEF RowSound
<1>. QED
  BY <1>1, <1>2, <1>3 DEF DeliveryInv

\* What a worker relies on lasts while the rows it holds are left alone and the
\* others only grow in version.
LEMMA SoundKept ==
  ASSUME TypeOK, TypeOK', NEW q \in Queue, NEW x \in Delivery(q),
         SessionSound(q, x), now <= now',
         DOMAIN queue[q] \subseteq DOMAIN queue'[q],
         \A k \in HeldBy(x) : /\ queue'[q][k] = queue[q][k]
                              /\ sent'[q][k] = sent[q][k],
         \A k \in DOMAIN queue[q] :
           \/ queue'[q][k] = queue[q][k]
           \/ queue'[q][k].version > queue[q][k].version
  PROVE  SessionSound(q, x)'
<1>1. now \in Int /\ now' \in Int
  BY ConstantsAssumption DEF TypeOK, ConstantsAssumption
<1>2. \A k \in HeldBy(x) : k \in DOMAIN queue'[q]
  BY DEF SessionSound
<1>3. CASE x.pc = "claim"
  <2>1. PICK y \in [pc: {"claim"}, rows: SUBSET Snapshot(q), at: Nat,
                    held: SUBSET Nat] : y = x
    BY <1>3, DeliveryKinds
  <2>2. y.at \in Nat /\ y.rows \subseteq Snapshot(q) /\ HeldBy(y) = y.held
    BY <1>3, <2>1 DEF HeldBy
  <2>3. ASSUME NEW e \in y.rows
        PROVE  /\ e.id \in DOMAIN queue'[q] \ y.held
               /\ e.row.version <= queue'[q][e.id].version
               /\ e.row.version = queue'[q][e.id].version =>
                    e.row = queue'[q][e.id]
    <3>1. /\ e.id \in DOMAIN queue[q] \ y.held
          /\ e.row.version <= queue[q][e.id].version
          /\ e.row.version = queue[q][e.id].version =>
               e.row = queue[q][e.id]
      BY <1>3, <2>1 DEF SessionSound
    <3>2. e \in Snapshot(q)
      BY <2>2
    <3>3. e.row \in Row(q)
      BY <3>2 DEF Snapshot
    <3>4. e.row.version \in Nat
      BY <3>3, RowFields
    <3>5. queue[q][e.id].version \in Nat
      BY <3>1, TableTypes, RowFields
    <3>6. queue'[q][e.id].version \in Nat
      <4>1. queue'[q] \in Seq(Row(q)) /\ e.id \in DOMAIN queue'[q]
        BY <3>1 DEF TypeOK
      <4>2. queue'[q][e.id] \in Row(q)
        BY <4>1
      <4>. QED
        BY <4>2, RowFields
    <3>. QED
      BY <3>1, <3>4, <3>5, <3>6
  <2>4. y.at <= now'
    BY <1>1, <1>3, <2>1, <2>2 DEF SessionSound
  <2>5. \A k \in y.held : sent'[q][k] = 0
    BY <1>3, <2>1, <2>2 DEF SessionSound
  <2>. QED
    BY <1>2, <1>3, <2>1, <2>3, <2>4, <2>5 DEF SessionSound
<1>4. CASE x.pc # "claim"
  <2>1. x.pc \in {"holding", "sent", "settle"} =>
          \A k \in x.held : sent'[q][k] = 0
    BY DEF SessionSound, HeldBy
  <2>2. x.pc \in {"sent", "settle"} =>
          /\ queue'[q][x.id] = queue[q][x.id]
          /\ sent'[q][x.id] = sent[q][x.id]
    BY DEF HeldBy
  <2>. QED
    BY <1>2, <1>4, <2>1, <2>2 DEF SessionSound
<1>. QED
  BY <1>3, <1>4

(***************************************************************************)
(* A step that changes at most one row                                     *)
(***************************************************************************)
OnlyRow(q, k) ==
  /\ now' = now
  /\ \A p \in Queue : DOMAIN queue'[p] = DOMAIN queue[p]
  /\ \A p \in Queue : \A l \in DOMAIN queue[p] :
       p # q \/ l # k => /\ queue'[p][l] = queue[p][l]
                         /\ sent'[p][l] = sent[p][l]
  /\ queue'[q][k].subject = queue[q][k].subject
  /\ \/ queue'[q][k] = queue[q][k]
     \/ queue'[q][k].version > queue[q][k].version

\* Receipts stay with their identities and events with their receipts.
LEMMA SubjectsKept ==
  ASSUME TypeOK, OneReceiptPerIdentity, OneEventPerReceipt,
         \A p \in Queue : DOMAIN queue'[p] = DOMAIN queue[p],
         \A p \in Queue : \A l \in DOMAIN queue[p] :
           queue'[p][l].subject = queue[p][l].subject
  PROVE  OneReceiptPerIdentity' /\ OneEventPerReceipt'
<1>. "feedback" \in Queue /\ "outbox" \in Queue
  BY DEF Queue
<1>1. OneReceiptPerIdentity'
  BY DEF OneReceiptPerIdentity
<1>2. OneEventPerReceipt'
  <2>1. ASSUME NEW k \in DOMAIN queue'["feedback"]
        PROVE  \E e \in DOMAIN queue'["outbox"] :
                 \A f \in DOMAIN queue'["outbox"] :
                   queue'["outbox"][f].subject = k <=> f = e
    <3>1. PICK e \in DOMAIN queue["outbox"] :
            \A f \in DOMAIN queue["outbox"] :
              queue["outbox"][f].subject = k <=> f = e
      BY <2>1 DEF OneEventPerReceipt
    <3>2. \A f \in DOMAIN queue'["outbox"] :
            queue'["outbox"][f].subject = k <=> f = e
      BY <3>1
    <3>. QED
      BY <3>1, <3>2
  <2>2. \A e \in DOMAIN queue'["outbox"] :
          queue'["outbox"][e].subject \in DOMAIN queue'["feedback"]
    BY DEF OneEventPerReceipt
  <2>. QED
    BY <2>1, <2>2 DEF OneEventPerReceipt
<1>. QED
  BY <1>1, <1>2

\* One worker goes on and changes a row that no other worker holds.
LEMMA RowStep ==
  ASSUME DeliveryInv, TypeOK', NEW t \in Worker, NEW q \in Queue,
         q = Serves(t), NEW k \in DOMAIN queue[q], OnlyRow(q, k),
         RowSound(q, k)', NEW s \in Delivery(q), session'[t] = s,
         \A u \in Thread \ {t} : session'[u] = session[u],
         SessionSound(q, s)',
         HeldBy(s) \subseteq Holds(t) \cup {k},
         k \in HeldBy(s) => queue'[q][k].status = Leased(q),
         \A u \in Worker \ {t} : Serves(u) = q => k \notin Holds(u)
  PROVE  DeliveryInv'
<1>0. TypeOK /\ SingleLease
  BY DEF DeliveryInv
<1>1. OneReceiptPerIdentity' /\ OneEventPerReceipt'
  <2>1. \A p \in Queue : \A l \in DOMAIN queue[p] :
          queue'[p][l].subject = queue[p][l].subject
    BY DEF OnlyRow
  <2>. QED
    BY <1>0, <2>1, SubjectsKept DEF DeliveryInv, OnlyRow
<1>2. ASSUME NEW p \in Queue, NEW l \in DOMAIN queue'[p]
      PROVE  RowSound(p, l)'
  <2>1. l \in DOMAIN queue[p]
    BY DEF OnlyRow
  <2>2. CASE p # q \/ l # k
    <3>1. queue'[p][l] = queue[p][l] /\ sent'[p][l] = sent[p][l]
      BY <2>1, <2>2 DEF OnlyRow
    <3>2. RowSound(p, l)
      BY <2>1, RowParts
    <3>. QED
      BY <3>1, <3>2 DEF RowSound
  <2>. QED
    BY <2>2
<1>3. \A u \in Worker \ {t} : session'[u] = session[u] /\ Holds(u)' = Holds(u)
  BY DEF Holds, Thread
<1>4. Holds(t)' = HeldBy(s)
  BY DEF Holds
<1>5. \A u \in Worker : \A l \in Holds(u) :
        l \in DOMAIN queue[Serves(u)] /\ queue[Serves(u)][l].status
                                            = Leased(Serves(u))
  BY <1>0 DEF DeliveryInv, SessionSound, SingleLease, Holds
<1>6. SingleLease'
  <2>1. ASSUME NEW u \in Worker, NEW l \in Holds(u)'
        PROVE  queue'[Serves(u)][l].status = Leased(Serves(u))
    <3>1. CASE u = t
      BY <1>0, <1>4, <1>5, <2>1, <3>1, WorkerTypes DEF OnlyRow
    <3>2. CASE u # t
      <4>1. Serves(u) \in Queue /\ l \in Holds(u)
        BY <1>0, <1>3, <2>1, <3>2, WorkerTypes
      <4>2. Serves(u) # q \/ l # k
        BY <3>2, <4>1
      <4>. QED
        BY <1>5, <4>1, <4>2 DEF OnlyRow
    <3>. QED
      BY <3>1, <3>2
  <2>2. ASSUME NEW u \in Worker, NEW l \in Holds(u)', NEW v \in Worker \ {u},
               Serves(v) = Serves(u)
        PROVE  l \notin Holds(v)'
    <3>1. CASE u = t
      BY <1>0, <1>3, <1>4, <2>2, <3>1 DEF SingleLease
    <3>2. CASE v = t
      BY <1>0, <1>3, <1>4, <2>2, <3>2 DEF SingleLease
    <3>3. CASE u # t /\ v # t
      BY <1>0, <1>3, <2>2, <3>3 DEF SingleLease
    <3>. QED
      BY <3>1, <3>2, <3>3
  <2>. QED
    BY <2>1, <2>2 DEF SingleLease
<1>7. ASSUME NEW u \in Worker
      PROVE  SessionSound(Serves(u), session[u])'
  <2>1. CASE u = t
    BY <2>1
  <2>2. CASE u # t
    <3>. DEFINE p == Serves(u)
    <3>1. p \in Queue /\ session[u] \in Delivery(p) /\ session'[u] = session[u]
      BY <1>0, <1>3, <2>2, WorkerTypes
    <3>2. PICK x \in Delivery(p) : x = session[u]
      BY <3>1
    <3>3. SessionSound(p, x) /\ HeldBy(x) = Holds(u)
      BY <3>2 DEF DeliveryInv, Holds
    <3>4. \A l \in HeldBy(x) : /\ queue'[p][l] = queue[p][l]
                               /\ sent'[p][l] = sent[p][l]
      BY <1>5, <2>2, <3>1, <3>3 DEF OnlyRow
    <3>5. /\ \A l \in DOMAIN queue[p] :
               \/ queue'[p][l] = queue[p][l]
               \/ queue'[p][l].version > queue[p][l].version
          /\ DOMAIN queue[p] \subseteq DOMAIN queue'[p]
          /\ now <= now'
      BY <1>0, <3>1, ConstantsAssumption
         DEF OnlyRow, TypeOK, ConstantsAssumption
    <3>. HIDE DEF p
    <3>6. SessionSound(p, x)'
      BY <1>0, <3>1, <3>3, <3>4, <3>5, SoundKept
    <3>. QED
      BY <3>1, <3>2, <3>6 DEF p
  <2>. QED
    BY <2>1, <2>2
<1>. QED
  BY <1>1, <1>2, <1>6, <1>7, Assembled

\* Time passes, or one thread goes on, and the tables stay as they are.
LEMMA TablesStay ==
  ASSUME DeliveryInv, TypeOK', now <= now', UNCHANGED <<queue, sent>>,
         \A u \in Worker :
           \/ session'[u] = session[u]
           \/ /\ SessionSound(Serves(u), session[u])'
              /\ Holds(u)' \subseteq Holds(u)
  PROVE  DeliveryInv'
<1>0. TypeOK /\ SingleLease
  BY DEF DeliveryInv
<1>1. OneReceiptPerIdentity' /\ OneEventPerReceipt'
  BY DEF DeliveryInv, OneReceiptPerIdentity, OneEventPerReceipt
<1>2. ASSUME NEW p \in Queue, NEW l \in DOMAIN queue'[p]
      PROVE  RowSound(p, l)'
  <2>1. RowSound(p, l)
    BY RowParts
  <2>. QED
    BY <2>1 DEF RowSound
<1>3. \A u \in Worker : Holds(u)' \subseteq Holds(u)
  BY DEF Holds
<1>4. SingleLease'
  BY <1>0, <1>3 DEF SingleLease
<1>5. ASSUME NEW u \in Worker
      PROVE  SessionSound(Serves(u), session[u])'
  <2>1. CASE session'[u] = session[u]
    <3>. DEFINE p == Serves(u)
    <3>1. p \in Queue /\ session[u] \in Delivery(p)
      BY <1>0, WorkerTypes
    <3>2. PICK x \in Delivery(p) : x = session[u]
      BY <3>1
    <3>3. SessionSound(p, x)
      BY <3>2 DEF DeliveryInv
    <3>. HIDE DEF p
    <3>4. SessionSound(p, x)'
      BY <1>0, <3>1, <3>3, SoundKept
    <3>. QED
      BY <2>1, <3>2, <3>4 DEF p
  <2>. QED
    BY <2>1
<1>. QED
  BY <1>1, <1>2, <1>4, <1>5, Assembled

-----------------------------------------------------------------------------
(***************************************************************************)
(* The actions                                                             *)
(***************************************************************************)
LEMMA DeliveryInit == Init => DeliveryInv
<1>. SUFFICES ASSUME Init PROVE DeliveryInv
  OBVIOUS
<1>1. TypeOK
  <2>1. \A q \in Queue : /\ queue[q] = <<>> /\ sent[q] = <<>>
                         /\ queue[q] \in Seq(Row(q)) /\ sent[q] \in Seq(Nat)
                         /\ Len(sent[q]) = Len(queue[q])
    BY DEF Init
  <2>2. \A t \in Worker : session[t] \in Delivery(Serves(t))
    BY DEF Init, Delivery, Thread
  <2>3. \A t \in Handler : session[t] \in Request
    BY DEF Init, Request, Thread
  <2>4. now \in 0..Horizon /\ crashes \in Nat
    BY ConstantsAssumption DEF Init, ConstantsAssumption
  <2>5. /\ published \in BOOLEAN
        /\ DOMAIN queue = Queue /\ DOMAIN sent = Queue
        /\ DOMAIN session = Thread
    BY DEF Init
  <2>. QED
    BY <2>1, <2>2, <2>3, <2>4, <2>5 DEF TypeOK
<1>2. \A q \in Queue : DOMAIN queue[q] = {} /\ DOMAIN sent[q] = {}
  BY DEF Init
<1>3. \A t \in Worker : session[t] = Idle
  BY DEF Init, Thread
<1>4. "feedback" \in Queue /\ "outbox" \in Queue
  BY DEF Queue
<1>5. \A t \in Worker : Holds(t) = {}
  BY <1>3 DEF Holds, HeldBy, Idle
<1>6. \A t \in Worker : SessionSound(Serves(t), session[t])
  BY <1>3, <1>5 DEF SessionSound, Holds, Idle
<1>. QED
  BY <1>1, <1>2, <1>4, <1>5, <1>6
     DEF DeliveryInv, OneReceiptPerIdentity, OneEventPerReceipt, SingleLease,
         SentOnce, GivenUpAtTheLimit

LEMMA ThreadKinds ==
  ASSUME TypeOK, NEW t \in Thread
  PROVE  /\ session[t].pc \in {"claim", "holding", "sent", "settle"} =>
              t \in Worker
         /\ session[t].pc = "queue" =>
              /\ t \in Handler
              /\ session[t] \in [pc: {"queue"}, identity: Identity, at: Nat]
<1>1. CASE t \in Handler
  BY <1>1 DEF TypeOK, Request, Idle
<1>2. CASE t \in Worker
  <2>1. session[t].pc \in {"idle", "claim", "holding", "sent", "settle"}
    BY <1>2, WorkerTypes, DeliveryKinds
  <2>. QED
    BY <1>2, <2>1
<1>. QED
  BY <1>1, <1>2 DEF Thread

\* A thread that goes on without touching the tables.
LEMMA TypeAlone ==
  ASSUME TypeOK, NEW t \in Thread, NEW s, Continue(t, s),
         t \in Handler => s \in Request,
         t \in Worker => s \in Delivery(Serves(t)),
         now' = now, published' = published, crashes' \in Nat,
         UNCHANGED <<queue, sent>>
  PROVE  /\ TypeOK'
         /\ session'[t] = s
         /\ \A u \in Thread \ {t} : session'[u] = session[u]
<1>1. /\ DOMAIN queue' = Queue /\ DOMAIN sent' = Queue
      /\ \A q \in Queue : /\ queue'[q] \in Seq(Row(q))
                          /\ sent'[q] \in Seq(Nat)
                          /\ Len(sent'[q]) = Len(queue'[q])
  BY DEF TypeOK
<1>. QED
  BY <1>1, TypeStep

LEMMA TimeStep ==
  ASSUME DeliveryInv, Tick \/ Publish
  PROVE  DeliveryInv'
<1>1. TypeOK
  BY DEF DeliveryInv
<1>2. now' \in 0..Horizon /\ now <= now'
  BY <1>1, ConstantsAssumption
     DEF Tick, Publish, TypeOK, ConstantsAssumption
<1>4. published' \in BOOLEAN /\ UNCHANGED <<queue, sent, session, crashes>>
  BY <1>1 DEF Tick, Publish, TypeOK
<1>3. TypeOK'
  BY <1>1, <1>2, <1>4 DEF TypeOK
<1>. QED
  BY <1>2, <1>3, <1>4, TablesStay

LEMMA QueueReadStep ==
  ASSUME DeliveryInv, NEW t \in Thread, NEW identity \in Identity,
         QueueRead(t, identity)
  PROVE  DeliveryInv'
<1>1. TypeOK /\ t \in Handler /\ now \in Nat
  BY DEF DeliveryInv, QueueRead, TypeOK
<1>. DEFINE s == [pc |-> "queue", identity |-> identity, at |-> now]
<1>2. s \in Request
  BY <1>1 DEF Request
<1>3. /\ Continue(t, s) /\ now' = now /\ published' = published
      /\ crashes' \in Nat /\ UNCHANGED <<queue, sent>>
  BY <1>1 DEF QueueRead, TypeOK
<1>4. t \notin Worker
  BY <1>1, WorkerTypes
<1>. HIDE DEF s
<1>5. TypeOK' /\ \A u \in Worker : session'[u] = session[u]
  BY <1>1, <1>2, <1>3, <1>4, TypeAlone DEF Thread
<1>. QED
  BY <1>1, <1>3, <1>5, TablesStay

LEMMA CrashStep ==
  ASSUME DeliveryInv, NEW t \in Thread, Crash(t)
  PROVE  DeliveryInv'
<1>1. TypeOK /\ now \in Nat
  BY DEF DeliveryInv, TypeOK
<1>2. /\ Continue(t, Idle) /\ now' = now /\ published' = published
      /\ crashes' \in Nat /\ UNCHANGED <<queue, sent>>
  BY <1>1 DEF Crash, TypeOK
<1>3. Idle \in Request /\ Idle \in Delivery(Serves(t))
  BY DEF Request, Delivery
<1>4. /\ TypeOK' /\ session'[t] = Idle
      /\ \A u \in Thread \ {t} : session'[u] = session[u]
  BY <1>1, <1>2, <1>3, TypeAlone
<1>5. HeldBy(Idle) = {} /\ SessionSound(Serves(t), Idle)'
  BY DEF HeldBy, Idle, SessionSound
<1>6. Holds(t)' = {}
  BY <1>4, <1>5 DEF Holds
<1>. QED
  BY <1>1, <1>2, <1>4, <1>5, <1>6, TablesStay DEF Thread

LEMMA ClaimListStep ==
  ASSUME DeliveryInv, NEW t \in Thread, ClaimList(t)
  PROVE  DeliveryInv'
<1>. DEFINE q == Serves(t)
<1>1. TypeOK /\ t \in Worker /\ now \in Nat /\ q \in Queue
  BY WorkerTypes DEF DeliveryInv, ClaimList, TypeOK
<1>2. PICK ids \in FirstOf(Ready(q), q) :
        Continue(t, [pc |-> "claim", at |-> now, held |-> {},
                     rows |-> {[id |-> k, row |-> queue[q][k]] : k \in ids}])
  BY DEF ClaimList
<1>. DEFINE rows == {[id |-> k, row |-> queue[q][k]] : k \in ids}
            s == [pc |-> "claim", at |-> now, held |-> {}, rows |-> rows]
<1>3. ids \subseteq Ready(q)
  BY DEF FirstOf
<1>4. \A e \in rows :
        /\ e \in Snapshot(q) /\ e.id \in Ready(q)
        /\ e.row = queue[q][e.id]
  BY <1>1, <1>3, TableTypes DEF Snapshot, Ready
<1>. HIDE DEF rows
<1>5. s \in Delivery(q)
  BY <1>1, <1>4 DEF Delivery
<1>6. /\ Continue(t, s) /\ now' = now /\ published' = published
      /\ crashes' \in Nat /\ UNCHANGED <<queue, sent>>
  BY <1>1, <1>2 DEF ClaimList, TypeOK, rows
<1>7. PICK x \in Delivery(q) : x = s
  BY <1>5
<1>8. /\ x.pc = "claim" /\ x.at = now /\ x.rows = rows /\ x.held = {}
      /\ HeldBy(x) = {} /\ Continue(t, x)
  BY <1>6, <1>7 DEF HeldBy
<1>. HIDE DEF s
<1>9. /\ TypeOK' /\ session'[t] = x
      /\ \A u \in Thread \ {t} : session'[u] = session[u]
  <2>. HIDE DEF q
  <2>. QED
    BY <1>1, <1>6, <1>8, TypeAlone, WorkerTypes DEF q
<1>10. SessionSound(q, x)'
  <2>1. ASSUME NEW e \in x.rows
        PROVE  /\ e.id \in DOMAIN queue'[q]
               /\ \A f \in x.rows : f.id = e.id => f = e
               /\ e.row.status \in Waiting(q) /\ e.row.at <= now
               /\ e.row.version <= queue'[q][e.id].version
               /\ e.row = queue'[q][e.id]
    <3>1. e \in Snapshot(q) /\ e.row = queue'[q][e.id]
          /\ e.id \in Ready(q)
      BY <1>4, <1>6, <1>8
    <3>2. e.row.version \in Nat
      BY <1>1, <3>1, RowFields DEF Snapshot
    <3>3. \A f \in x.rows : f.id = e.id => f = e
      BY <1>4, <1>8, <3>1 DEF Snapshot
    <3>4. e.row.version <= queue'[q][e.id].version
      BY <3>1, <3>2
    <3>. QED
      BY <1>6, <3>1, <3>3, <3>4 DEF Ready
  <2>2. x.at <= now'
    BY <1>1, <1>6, <1>8
  <2>. QED
    BY <1>1, <1>6, <1>8, <2>1, <2>2 DEF SessionSound
<1>11. Holds(t)' = {}
  BY <1>8, <1>9 DEF Holds
<1>. QED
  BY <1>1, <1>6, <1>9, <1>10, <1>11, TablesStay DEF Thread

\* What is held is leased, once, and has not been sent by anyone else.
LEMMA HeldRow ==
  ASSUME DeliveryInv, NEW t \in Worker, NEW q \in Queue, q = Serves(t),
         NEW k \in Holds(t)
  PROVE  /\ k \in DOMAIN queue[q] /\ k \in Nat /\ queue[q][k] \in Row(q)
         /\ queue[q][k].status = Leased(q)
         /\ \A u \in Worker \ {t} : Serves(u) = q => k \notin Holds(u)
<1>1. k \in DOMAIN queue[q]
  BY DEF DeliveryInv, SessionSound, Holds
<1>. QED
  BY <1>1, TableTypes DEF DeliveryInv, SingleLease

LEMMA HoldingSound ==
  ASSUME NEW q \in Queue, NEW held \in SUBSET Nat,
         \A k \in held : k \in DOMAIN queue'[q] /\ sent'[q][k] = 0
  PROVE  SessionSound(q, Holding(held))'
<1>1. PICK z \in Delivery(q) : z = Holding(held)
  BY HoldingFacts
<1>2. /\ HeldBy(z) = held /\ z.pc \in {"idle", "holding"}
      /\ z.pc = "holding" => z.held = held
  BY <1>1, HoldingFacts
<1>3. SessionSound(q, z)'
  BY <1>2 DEF SessionSound
<1>. QED
  BY <1>1, <1>3

LEMMA ClaimCutShortStep ==
  ASSUME DeliveryInv, NEW t \in Thread, ClaimCutShort(t)
  PROVE  DeliveryInv'
<1>. DEFINE q == Serves(t)
<1>1. TypeOK /\ t \in Worker /\ q \in Queue /\ session[t] \in Delivery(q)
      /\ session[t].pc = "claim"
  BY ThreadKinds, WorkerTypes DEF DeliveryInv, ClaimCutShort, Pc
<1>2. PICK x \in [pc: {"claim"}, rows: SUBSET Snapshot(q), at: Nat,
                  held: SUBSET Nat] : x = session[t]
  BY <1>1, DeliveryKinds
<1>3. PICK held \in SUBSET Nat : held = x.held
  BY <1>2
<1>4. Holds(t) = held
  BY <1>2, <1>3 DEF Holds, HeldBy
<1>5. /\ Continue(t, Holding(held)) /\ now' = now /\ published' = published
      /\ crashes' \in Nat /\ UNCHANGED <<queue, sent>>
  BY <1>1, <1>2, <1>3 DEF ClaimCutShort, TypeOK
<1>6. Holding(held) \in Delivery(q) /\ HeldBy(Holding(held)) = held
  BY <1>1, HoldingFacts
<1>7. /\ TypeOK' /\ session'[t] = Holding(held)
      /\ \A u \in Thread \ {t} : session'[u] = session[u]
  <2>. HIDE DEF q
  <2>. QED
    BY <1>1, <1>5, <1>6, TypeAlone, WorkerTypes DEF q
<1>8. \A k \in held : k \in DOMAIN queue[q] /\ sent[q][k] = 0
  <2>1. SessionSound(q, x)
    BY <1>1, <1>2 DEF DeliveryInv
  <2>2. HeldBy(x) = held
    BY <1>2, <1>4 DEF Holds
  <2>. QED
    BY <1>3, <2>1, <2>2 DEF SessionSound
<1>9. SessionSound(q, session[t])'
  BY <1>1, <1>5, <1>7, <1>8, HoldingSound
<1>10. Holds(t)' = held
  BY <1>6, <1>7 DEF Holds
<1>11. now <= now'
  BY <1>1, <1>5, ConstantsAssumption DEF TypeOK, ConstantsAssumption
<1>. QED
  BY <1>4, <1>5, <1>7, <1>9, <1>10, <1>11, TablesStay DEF Thread

LEMMA SendStep ==
  ASSUME DeliveryInv, NEW t \in Thread, NEW q, q = Serves(t), Send(t)
  PROVE  DeliveryInv'
<1>1. TypeOK /\ t \in Worker /\ q \in Queue /\ session[t] \in Delivery(q)
      /\ session[t].pc = "holding"
  BY ThreadKinds, WorkerTypes DEF DeliveryInv, Send, Pc
<1>2. PICK x \in [pc: {"holding"}, held: SUBSET Nat] : x = session[t]
  BY <1>1, DeliveryKinds
<1>3. PICK k \in x.held, ok \in BOOLEAN :
        /\ sent' = IF ok THEN [sent EXCEPT ![q][k] = @ + 1] ELSE sent
        /\ Continue(t, [pc |-> "sent", held |-> x.held \ {k}, id |-> k,
                        ok |-> ok])
  BY <1>2 DEF Send
<1>4. Holds(t) = x.held /\ HeldBy(x) = x.held /\ SessionSound(q, x)
  BY <1>1, <1>2 DEF Holds, HeldBy, DeliveryInv
<1>5. /\ k \in DOMAIN queue[q] /\ k \in Nat /\ queue[q][k] \in Row(q)
      /\ queue[q][k].status = Leased(q)
      /\ \A u \in Worker \ {t} : Serves(u) = q => k \notin Holds(u)
  BY <1>1, <1>4, HeldRow
<1>6. sent[q][k] = 0
  BY <1>2, <1>4 DEF SessionSound
<1>7. PICK z \in [pc: {"sent"}, held: SUBSET Nat, id: Nat, ok: BOOLEAN] :
        z = [pc |-> "sent", held |-> x.held \ {k}, id |-> k, ok |-> ok]
  BY <1>2, <1>5
<1>8. /\ z.pc = "sent" /\ z.held = x.held \ {k} /\ z.id = k /\ z.ok = ok
      /\ HeldBy(z) = x.held /\ z \in Delivery(q) /\ Continue(t, z)
  BY <1>3, <1>7 DEF HeldBy, Delivery
<1>9. /\ now' = now /\ published' = published /\ crashes' \in Nat
      /\ queue' = queue
  BY <1>1 DEF Send, TypeOK
<1>10. PICK n \in {0, 1} : n = IF ok THEN 1 ELSE 0
  OBVIOUS
<1>11. /\ DOMAIN sent' = Queue
       /\ \A p \in Queue : /\ sent'[p] \in Seq(Nat)
                           /\ Len(sent'[p]) = Len(sent[p])
       /\ sent'[q][k] = n
       /\ \A p \in Queue : \A l \in DOMAIN queue[p] :
            p # q \/ l # k => sent'[p][l] = sent[p][l]
  <2>1. CASE ok
    <3>1. Counts(q, k, n)
      BY <1>3, <1>6, <1>10, <2>1 DEF Counts
    <3>. QED
      BY <1>1, <1>5, <1>10, <3>1, SentAgain
  <2>2. CASE ~ok
    <3>1. sent' = sent /\ n = 0
      BY <1>3, <1>10, <2>2
    <3>. QED
      BY <1>1, <1>6, <3>1 DEF TypeOK
  <2>. QED
    BY <2>1, <2>2
<1>12. /\ TypeOK' /\ session'[t] = z
       /\ \A u \in Thread \ {t} : session'[u] = session[u]
  <2>1. /\ DOMAIN queue' = Queue
        /\ \A p \in Queue : /\ queue'[p] \in Seq(Row(p))
                            /\ Len(sent'[p]) = Len(queue'[p])
    BY <1>1, <1>9, <1>11 DEF TypeOK
  <2>. QED
    BY <1>1, <1>8, <1>9, <1>11, <2>1, TypeStep, WorkerTypes
<1>13. OnlyRow(q, k)
  BY <1>9, <1>11 DEF OnlyRow
<1>14. RowSound(q, k)'
  <2>1. RowSound(q, k)
    BY <1>1, <1>5, RowParts
  <2>2. Leased(q) \notin Waiting(q) \cup {"permanent_failed"}
    BY <1>1, Queues
  <2>. QED
    BY <1>5, <1>9, <1>11, <2>1, <2>2 DEF RowSound
<1>15. SessionSound(q, z)'
  <2>1. \A l \in x.held : l \in DOMAIN queue'[q]
    BY <1>4, <1>9 DEF SessionSound
  <2>2. \A l \in x.held \ {k} : sent'[q][l] = 0
    BY <1>1, <1>2, <1>4, <1>11 DEF SessionSound
  <2>. QED
    BY <1>8, <1>10, <1>11, <2>1, <2>2 DEF SessionSound
<1>. QED
  BY <1>1, <1>4, <1>5, <1>8, <1>9, <1>12, <1>13, <1>14, <1>15, RowStep

\* What CompleteRead computes may be written over the row it has read.
LEMMA Outcome ==
  ASSUME DeliveryInv, NEW q \in Queue, NEW k \in DOMAIN queue[q],
         NEW ok \in BOOLEAN, queue[q][k].status = Leased(q),
         sent[q][k] = IF ok THEN 1 ELSE 0,
         NEW new \in Row(q),
         new = IF ok THEN Succeeded(q, queue[q][k]) ELSE Failed(q, queue[q][k])
  PROVE  /\ new.version = queue[q][k].version + 1
         /\ new.subject = queue[q][k].subject
         /\ new.status # Leased(q)
         /\ new.status \in Waiting(q) \cup {"permanent_failed"} <=>
              sent[q][k] = 0
         /\ new.attempt = queue[q][k].attempt + 1 - sent[q][k]
         /\ q = "feedback" =>
              /\ new.attempt <= MaxAttempts
              /\ new.status = "permanent_failed" <=> new.attempt = MaxAttempts
<1>1. TypeOK /\ now \in Nat /\ RowSound(q, k)
  BY RowParts DEF DeliveryInv, TypeOK
<1>2. PICK row \in Row(q) : row = queue[q][k]
  BY <1>1, TableTypes
<1>3. Leased(q) \notin Waiting(q) \cup {"permanent_failed"}
  BY Queues
<1>4. q = "feedback" => row.attempt < MaxAttempts
  BY <1>1, <1>2, <1>3, RowFields, ConstantsAssumption
     DEF RowSound, ConstantsAssumption
<1>5. CASE ok
  <2>1. /\ new.status \notin Waiting(q) \cup {Leased(q), "permanent_failed"}
        /\ new.subject = row.subject
        /\ new.attempt = row.attempt
        /\ new.version = row.version + 1
    BY <1>2, <1>5, SucceededFields
  <2>2. sent[q][k] = 1 /\ row.attempt \in Nat
    BY <1>5, RowFields
  <2>3. new.attempt = row.attempt + 1 - sent[q][k]
    BY <2>1, <2>2
  <2>4. q = "feedback" =>
          /\ new.attempt <= MaxAttempts
          /\ new.status = "permanent_failed" <=> new.attempt = MaxAttempts
    BY <1>4, <2>1, <2>2, ConstantsAssumption DEF ConstantsAssumption
  <2>5. new.status \in Waiting(q) \cup {"permanent_failed"} <=>
          sent[q][k] = 0
    BY <2>1, <2>2
  <2>. QED
    BY <1>2, <2>1, <2>3, <2>4, <2>5
<1>6. CASE ~ok
  <2>1. /\ new.status = IF q = "feedback" /\ row.attempt + 1 >= MaxAttempts
                        THEN "permanent_failed" ELSE Retried(q)
        /\ new.subject = row.subject
        /\ new.attempt = row.attempt + 1
        /\ new.version = row.version + 1
    BY <1>1, <1>2, <1>6, FailedFields
  <2>2. /\ Retried(q) \notin {Leased(q), "permanent_failed"}
        /\ Retried(q) \in Waiting(q)
    BY DEF Queue, Retried, Leased, Waiting
  <2>3. new.status # Leased(q)
    BY <1>3, <2>1, <2>2
  <2>4. q = "feedback" =>
          /\ new.attempt <= MaxAttempts
          /\ new.status = "permanent_failed" <=> new.attempt = MaxAttempts
    BY <1>4, <2>1, <2>2, RowFields, ConstantsAssumption
       DEF ConstantsAssumption
  <2>5. sent[q][k] = 0 /\ new.attempt = row.attempt + 1 - sent[q][k]
    BY <1>6, <2>1, RowFields
  <2>6. new.status \in Waiting(q) \cup {"permanent_failed"} <=>
          sent[q][k] = 0
    BY <2>1, <2>2, <2>5
  <2>. QED
    BY <1>2, <2>1, <2>3, <2>4, <2>5, <2>6
<1>. QED
  BY <1>5, <1>6

LEMMA CompleteReadStep ==
  ASSUME DeliveryInv, NEW t \in Thread, NEW q, q = Serves(t), CompleteRead(t)
  PROVE  DeliveryInv'
<1>1. TypeOK /\ t \in Worker /\ q \in Queue /\ session[t] \in Delivery(q)
      /\ session[t].pc = "sent"
  BY ThreadKinds, WorkerTypes DEF DeliveryInv, CompleteRead, Pc
<1>2. PICK x \in [pc: {"sent"}, held: SUBSET Nat, id: Nat, ok: BOOLEAN] :
        x = session[t]
  BY <1>1, DeliveryKinds
<1>3. PICK k \in Nat : k = x.id
  BY <1>2
<1>4. Holds(t) = x.held \cup {k} /\ HeldBy(x) = x.held \cup {k}
      /\ SessionSound(q, x)
  BY <1>1, <1>2, <1>3 DEF Holds, HeldBy, DeliveryInv
<1>5. /\ k \in DOMAIN queue[q] /\ queue[q][k] \in Row(q)
      /\ queue[q][k].status = Leased(q)
  BY <1>1, <1>4, HeldRow
<1>6. k \notin x.held /\ sent[q][k] = IF x.ok THEN 1 ELSE 0
  BY <1>2, <1>3, <1>4 DEF SessionSound
<1>7. PICK new \in Row(q) :
        new = IF x.ok THEN Succeeded(q, queue[q][k])
                      ELSE Failed(q, queue[q][k])
  <2>1. now \in Nat
    BY <1>1 DEF TypeOK
  <2>. QED
    BY <1>1, <1>5, <2>1, SucceededFields, FailedFields
<1>8. PICK z \in [pc: {"settle"}, held: SUBSET Nat, id: Nat, row: Row(q)] :
        z = [pc |-> "settle", held |-> x.held, id |-> k, row |-> new]
  BY <1>2, <1>3, <1>7
<1>9. /\ z.pc = "settle" /\ z.held = x.held /\ z.id = k /\ z.row = new
      /\ HeldBy(z) = x.held \cup {k} /\ z \in Delivery(q)
  BY <1>8 DEF HeldBy, Delivery
<1>10. Continue(t, z)
  BY <1>1, <1>2, <1>3, <1>5, <1>7, <1>8 DEF CompleteRead
<1>11. /\ now' = now /\ published' = published /\ crashes' \in Nat
       /\ UNCHANGED <<queue, sent>>
  BY <1>1 DEF CompleteRead, TypeOK
<1>12. /\ TypeOK' /\ session'[t] = z
       /\ \A u \in Thread \ {t} : session'[u] = session[u]
  BY <1>1, <1>9, <1>10, <1>11, TypeAlone, WorkerTypes
<1>13. SessionSound(q, z)'
  <2>1. /\ new.version = queue[q][k].version + 1
        /\ new.subject = queue[q][k].subject
        /\ new.status # Leased(q)
        /\ new.status \in Waiting(q) \cup {"permanent_failed"} <=>
             sent[q][k] = 0
        /\ new.attempt = queue[q][k].attempt + 1 - sent[q][k]
        /\ q = "feedback" =>
             /\ new.attempt <= MaxAttempts
             /\ new.status = "permanent_failed" <=> new.attempt = MaxAttempts
    <3>1. PICK ok \in BOOLEAN : ok = x.ok
      BY <1>2
    <3>. QED
      BY <1>1, <1>5, <1>6, <1>7, <3>1, Outcome
  <2>2. \A l \in HeldBy(z) : l \in DOMAIN queue'[q]
    BY <1>4, <1>9, <1>11 DEF SessionSound
  <2>3. \A l \in z.held : sent'[q][l] = 0
    BY <1>2, <1>4, <1>9, <1>11 DEF SessionSound
  <2>. QED
    BY <1>6, <1>9, <1>11, <2>1, <2>2, <2>3 DEF SessionSound
<1>14. Holds(t)' = Holds(t)
  BY <1>4, <1>9, <1>12 DEF Holds
<1>15. now <= now'
  BY <1>1, <1>11, ConstantsAssumption DEF TypeOK, ConstantsAssumption
<1>. QED
  BY <1>11, <1>12, <1>13, <1>14, <1>15, TablesStay DEF Thread

LEMMA CompleteCommitStep ==
  ASSUME DeliveryInv, NEW t \in Thread, NEW q, q = Serves(t),
         CompleteCommit(t)
  PROVE  DeliveryInv'
<1>1. TypeOK /\ t \in Worker /\ q \in Queue /\ session[t] \in Delivery(q)
      /\ session[t].pc = "settle"
  BY ThreadKinds, WorkerTypes DEF DeliveryInv, CompleteCommit, Pc
<1>2. PICK x \in [pc: {"settle"}, held: SUBSET Nat, id: Nat, row: Row(q)] :
        x = session[t]
  BY <1>1, DeliveryKinds
<1>3. PICK k \in Nat, new \in Row(q), held \in SUBSET Nat :
        k = x.id /\ new = x.row /\ held = x.held
  BY <1>2
<1>4. Holds(t) = held \cup {k} /\ HeldBy(x) = held \cup {k}
      /\ SessionSound(q, x)
  BY <1>1, <1>2, <1>3 DEF Holds, HeldBy, DeliveryInv
<1>5. /\ k \in DOMAIN queue[q] /\ queue[q][k] \in Row(q)
      /\ queue[q][k].status = Leased(q)
      /\ \A u \in Worker \ {t} : Serves(u) = q => k \notin Holds(u)
  BY <1>1, <1>4, HeldRow
<1>6. /\ k \notin held
      /\ new.version = queue[q][k].version + 1
      /\ new.subject = queue[q][k].subject
      /\ new.status \in Waiting(q) \cup {"permanent_failed"} =>
           sent[q][k] = 0
      /\ q = "feedback" =>
           /\ new.attempt <= MaxAttempts
           /\ new.status = "permanent_failed" <=> new.attempt = MaxAttempts
      /\ \A l \in held : sent[q][l] = 0 /\ l \in DOMAIN queue[q]
  BY <1>2, <1>3, <1>4 DEF SessionSound
<1>7. queue[q][k].version \in Nat /\ new.version > queue[q][k].version
  BY <1>1, <1>5, <1>6, RowFields
<1>8. Writes(q, k, new)
  <2>1. Current(q, k, new.version - 1)
    BY <1>6, <1>7 DEF Current
  <2>. QED
    BY <1>2, <1>3, <2>1 DEF CompleteCommit, Writes
<1>9. /\ Continue(t, Holding(held)) /\ now' = now /\ published' = published
      /\ crashes' \in Nat /\ sent' = sent
  BY <1>1, <1>2, <1>3 DEF CompleteCommit, TypeOK
<1>10. /\ DOMAIN queue' = Queue
       /\ \A p \in Queue : /\ queue'[p] \in Seq(Row(p))
                           /\ Len(queue'[p]) = Len(queue[p])
                           /\ DOMAIN queue'[p] = DOMAIN queue[p]
       /\ queue'[q][k] = new
       /\ \A p \in Queue : \A l \in DOMAIN queue[p] :
            p # q \/ l # k => queue'[p][l] = queue[p][l]
  BY <1>1, <1>5, <1>8, RowWritten
<1>11. PICK z \in Delivery(q) : z = Holding(held)
  BY <1>1, HoldingFacts
<1>12. HeldBy(z) = held
  BY <1>1, <1>11, HoldingFacts
<1>13. /\ TypeOK' /\ session'[t] = z
       /\ \A u \in Thread \ {t} : session'[u] = session[u]
  <2>1. /\ DOMAIN sent' = Queue
        /\ \A p \in Queue : /\ sent'[p] \in Seq(Nat)
                            /\ Len(sent'[p]) = Len(queue'[p])
    BY <1>1, <1>9, <1>10 DEF TypeOK
  <2>. QED
    BY <1>1, <1>9, <1>10, <1>11, <2>1, TypeStep, WorkerTypes
<1>14. OnlyRow(q, k)
  BY <1>6, <1>7, <1>9, <1>10 DEF OnlyRow
<1>15. RowSound(q, k)'
  <2>1. RowSound(q, k)
    BY <1>1, <1>5, RowParts
  <2>. QED
    BY <1>6, <1>9, <1>10, <2>1 DEF RowSound
<1>16. SessionSound(q, z)'
  <2>1. \A l \in held : l \in DOMAIN queue'[q] /\ sent'[q][l] = 0
    BY <1>1, <1>6, <1>9, <1>10
  <2>2. SessionSound(q, Holding(held))'
    BY <1>1, <2>1, HoldingSound
  <2>. QED
    BY <1>11, <2>2
<1>. QED
  BY <1>1, <1>4, <1>5, <1>6, <1>12, <1>13, <1>14, <1>15, <1>16, RowStep

Claim(q) ==
  [pc: {"claim"}, rows: SUBSET Snapshot(q), at: Nat, held: SUBSET Nat]

\* What a worker does after it has tried to lease a row.
AfterClaim(x, rest, held) ==
  IF rest = {} THEN Holding(held) ELSE [x EXCEPT !.rows = rest, !.held = held]

LEMMA ClaimGoesOn ==
  ASSUME NEW q \in Queue, NEW x \in Claim(q), NEW rest \in SUBSET Snapshot(q),
         NEW held \in SUBSET Nat
  PROVE  LET z == AfterClaim(x, rest, held) IN
         /\ z \in Delivery(q) /\ HeldBy(z) = held
         /\ z.pc \in {"idle", "holding", "claim"}
         /\ z.pc = "holding" => z.held = held
         /\ z.pc = "claim" => /\ z.at = x.at
                              /\ z.rows = rest /\ z.held = held
<1>1. CASE rest = {}
  BY <1>1, HoldingFacts DEF AfterClaim
<1>2. CASE rest # {}
  <2>. DEFINE y == [x EXCEPT !.rows = rest]
              z == [y EXCEPT !.held = held]
  <2>1. y \in Claim(q) /\ y.rows = rest /\ y.at = x.at
    BY DEF Claim
  <2>2. AfterClaim(x, rest, held) = z
    BY <1>2, Zenon DEF AfterClaim
  <2>. HIDE DEF y
  <2>3. z \in Claim(q) /\ z.rows = rest /\ z.at = x.at /\ z.held = held
    BY <2>1 DEF Claim
  <2>. HIDE DEF z
  <2>4. z.pc = "claim" /\ HeldBy(z) = held /\ z \in Delivery(q)
    BY <2>3 DEF Claim, HeldBy, Delivery
  <2>. QED
    BY <2>2, <2>3, <2>4
<1>. QED
  BY <1>1, <1>2

\* What is left of a claim is as sound as it was, once the row tried first is
\* out of it.
LEMMA ClaimKept ==
  ASSUME TypeOK', NEW q \in Queue, NEW x \in Claim(q), SessionSound(q, x),
         NEW e \in x.rows, NEW held \in SUBSET Nat,
         now' = now, DOMAIN queue'[q] = DOMAIN queue[q], sent' = sent,
         \A k \in DOMAIN queue[q] : k # e.id => queue'[q][k] = queue[q][k],
         held \subseteq x.held \cup {e.id},
         \/ queue' = queue /\ held = x.held
         \/ \A f \in x.rows : f.id = e.id => f = e,
         \A k \in held : k \in DOMAIN queue[q] /\ sent[q][k] = 0
  PROVE  SessionSound(q, AfterClaim(x, x.rows \ {e}, held))'
<1>1. x.rows \ {e} \in SUBSET Snapshot(q) /\ x.pc = "claim"
  BY DEF Claim
<1>2. PICK rest \in SUBSET Snapshot(q) : rest = x.rows \ {e}
  BY <1>1
<1>3. PICK z \in Delivery(q) : z = AfterClaim(x, rest, held)
  BY ClaimGoesOn
<1>4. /\ HeldBy(z) = held
      /\ z.pc \in {"idle", "holding", "claim"}
      /\ z.pc = "holding" => z.held = held
      /\ z.pc = "claim" => z.at = x.at /\ z.rows = rest /\ z.held = held
  BY <1>3, ClaimGoesOn
<1>5. \A k \in HeldBy(z) : k \in DOMAIN queue'[q] /\ sent'[q][k] = 0
  BY <1>4
<1>6. ASSUME z.pc = "claim", NEW f \in z.rows
      PROVE  /\ f.id \in DOMAIN queue'[q] \ z.held
             /\ \A g \in z.rows : g.id = f.id => g = f
             /\ f.row.status \in Waiting(q)
             /\ f.row.at <= z.at
             /\ f.row.version <= queue'[q][f.id].version
             /\ f.row.version = queue'[q][f.id].version =>
                  f.row = queue'[q][f.id]
  <2>1. f \in x.rows /\ f # e /\ z.rows \subseteq x.rows
    BY <1>2, <1>4, <1>6
  <2>2. /\ f.id \in DOMAIN queue[q] \ x.held
        /\ \A g \in x.rows : g.id = f.id => g = f
        /\ f.row.status \in Waiting(q)
        /\ f.row.at <= x.at
        /\ f.row.version <= queue[q][f.id].version
        /\ f.row.version = queue[q][f.id].version => f.row = queue[q][f.id]
    BY <1>1, <2>1 DEF SessionSound
  <2>3. f.id # e.id
    BY <2>1, <2>2
  <2>. QED
    BY <1>4, <1>6, <2>1, <2>2, <2>3
<1>7. z.pc = "claim" => z.at <= now'
  BY <1>1, <1>4 DEF SessionSound
<1>8. SessionSound(q, z)'
  BY <1>4, <1>5, <1>6, <1>7 DEF SessionSound
<1>. QED
  BY <1>2, <1>3, <1>8

LEMMA ClaimNextStep ==
  ASSUME DeliveryInv, NEW t \in Thread, NEW q, q = Serves(t), ClaimNext(t)
  PROVE  DeliveryInv'
<1>1. TypeOK /\ t \in Worker /\ q \in Queue /\ session[t] \in Delivery(q)
      /\ session[t].pc = "claim"
  BY ThreadKinds, WorkerTypes DEF DeliveryInv, ClaimNext, Pc
<1>2. PICK x \in Claim(q) : x = session[t]
  BY <1>1, DeliveryKinds DEF Claim
<1>3. PICK e \in x.rows :
        LET won  == Current(q, e.id, e.row.version)
            held == IF won THEN x.held \cup {e.id} ELSE x.held
        IN  /\ queue' = IF won THEN [queue EXCEPT
                                       ![q][e.id] = Lease(q, e.row, x.at)]
                        ELSE queue
            /\ Continue(t, AfterClaim(x, x.rows \ {e}, held))
  BY <1>2 DEF ClaimNext, AfterClaim
<1>4. /\ e \in Snapshot(q) /\ x.at \in Nat /\ x.held \in SUBSET Nat
      /\ x.pc = "claim" /\ x.rows \ {e} \in SUBSET Snapshot(q)
  BY DEF Claim
<1>5. PICK k \in Nat, row \in Row(q) : k = e.id /\ row = e.row
  BY <1>4 DEF Snapshot
<1>6. Holds(t) = x.held /\ HeldBy(x) = x.held /\ SessionSound(q, x)
  BY <1>1, <1>2, <1>4 DEF Holds, HeldBy, DeliveryInv
<1>7. /\ k \in DOMAIN queue[q] \ x.held
      /\ \A f \in x.rows : f.id = k => f = e
      /\ row.status \in Waiting(q)
      /\ row.version = queue[q][k].version => row = queue[q][k]
      /\ \A l \in x.held : l \in DOMAIN queue[q] /\ sent[q][l] = 0
  BY <1>4, <1>5, <1>6 DEF SessionSound
<1>8. /\ now' = now /\ published' = published /\ crashes' \in Nat
      /\ sent' = sent
  BY <1>1 DEF ClaimNext, TypeOK
<1>9. CASE ~Current(q, k, row.version)
  <2>1. queue' = queue /\ Continue(t, AfterClaim(x, x.rows \ {e}, x.held))
    BY <1>3, <1>5, <1>9
  <2>2. PICK z \in Delivery(q) : z = AfterClaim(x, x.rows \ {e}, x.held)
    BY <1>1, <1>4, ClaimGoesOn
  <2>3. HeldBy(z) = x.held
    BY <1>1, <1>4, <2>2, ClaimGoesOn
  <2>4. /\ TypeOK' /\ session'[t] = z
        /\ \A u \in Thread \ {t} : session'[u] = session[u]
    BY <1>1, <1>8, <2>1, <2>2, TypeAlone, WorkerTypes
  <2>5. SessionSound(q, z)'
    BY <1>1, <1>4, <1>5, <1>6, <1>7, <1>8, <2>1, <2>2, <2>4, ClaimKept
  <2>6. Holds(t)' = Holds(t)
    BY <1>6, <2>3, <2>4 DEF Holds
  <2>7. now <= now'
    BY <1>1, <1>8, ConstantsAssumption DEF TypeOK, ConstantsAssumption
  <2>. QED
    BY <1>8, <2>1, <2>4, <2>5, <2>6, <2>7, TablesStay DEF Thread
<1>10. CASE Current(q, k, row.version)
  <2>. DEFINE held == x.held \cup {k}
  <2>1. PICK new \in Row(q) : new = Lease(q, row, x.at)
    BY <1>1, <1>4, LeaseFields
  <2>2. /\ new.status = Leased(q) /\ new.subject = row.subject
        /\ new.attempt = row.attempt /\ new.version = row.version + 1
    BY <1>1, <1>4, <2>1, LeaseFields
  <2>3. Writes(q, k, new) /\ Continue(t, AfterClaim(x, x.rows \ {e}, held))
    BY <1>3, <1>5, <1>10, <2>1 DEF Writes
  <2>4. row = queue[q][k]
    BY <1>7, <1>10 DEF Current
  <2>5. RowSound(q, k)
    BY <1>1, <1>7, RowParts
  <2>6. sent[q][k] = 0
    BY <1>7, <2>4, <2>5 DEF RowSound
  <2>7. PICK z \in Delivery(q) : z = AfterClaim(x, x.rows \ {e}, held)
    BY <1>1, <1>4, ClaimGoesOn
  <2>8. HeldBy(z) = held
    BY <1>1, <1>4, <2>7, ClaimGoesOn
  <2>9. /\ DOMAIN queue' = Queue
        /\ \A p \in Queue : /\ queue'[p] \in Seq(Row(p))
                            /\ Len(queue'[p]) = Len(queue[p])
                            /\ DOMAIN queue'[p] = DOMAIN queue[p]
        /\ queue'[q][k] = new
        /\ \A p \in Queue : \A l \in DOMAIN queue[p] :
             p # q \/ l # k => queue'[p][l] = queue[p][l]
    BY <1>1, <1>7, <2>3, RowWritten
  <2>10. /\ TypeOK' /\ session'[t] = z
         /\ \A u \in Thread \ {t} : session'[u] = session[u]
    <3>1. /\ DOMAIN sent' = Queue
          /\ \A p \in Queue : /\ sent'[p] \in Seq(Nat)
                              /\ Len(sent'[p]) = Len(queue'[p])
      BY <1>1, <1>8, <2>9 DEF TypeOK
    <3>2. Continue(t, z)
      BY <2>3, <2>7
    <3>. QED
      BY <1>1, <1>8, <2>9, <3>1, <3>2, TypeStep, WorkerTypes
  <2>11. OnlyRow(q, k)
    BY <1>1, <1>8, <2>2, <2>4, <2>9, RowFields DEF OnlyRow
  <2>12. RowSound(q, k)'
    <3>1. row.status # "permanent_failed" /\ Leased(q) # "permanent_failed"
          /\ Leased(q) \notin Waiting(q)
      BY <1>1, <1>7, Queues
    <3>. QED
      BY <1>8, <2>2, <2>4, <2>5, <2>9, <3>1 DEF RowSound
  <2>13. SessionSound(q, z)'
    <3>1. \A l \in held : l \in DOMAIN queue[q] /\ sent[q][l] = 0
      BY <1>7, <2>6
    <3>. QED
      BY <1>1, <1>4, <1>5, <1>6, <1>7, <1>8, <2>7, <2>9, <2>10, <3>1, ClaimKept
  <2>14. \A u \in Worker \ {t} : Serves(u) = q => k \notin Holds(u)
    <3>1. queue[q][k].status # Leased(q)
      BY <1>1, <1>7, <2>4, Queues
    <3>. QED
      BY <1>1, <3>1, HeldRow
  <2>. QED
    BY <1>1, <1>6, <1>7, <2>2, <2>8, <2>9, <2>10, <2>11, <2>12, <2>13, <2>14,
       RowStep
<1>. QED
  BY <1>9, <1>10

\* The receipt and its event, as Enqueue inserts them.
NewIn(q, identity, at) ==
  IF q = "feedback" THEN NewRow(identity, "queued", at)
  ELSE NewRow(Len(queue["feedback"]) + 1, "pending", at)

LEMMA Enqueued ==
  ASSUME TypeOK, NEW identity \in Identity, NEW at \in Nat,
         IsNew(identity), Enqueue(identity, at)
  PROVE  /\ DOMAIN queue' = Queue /\ DOMAIN sent' = Queue
         /\ \A q \in Queue :
              LET n == Len(queue[q]) + 1 IN
              /\ n \notin DOMAIN queue[q]
              /\ queue'[q] = Append(queue[q], NewIn(q, identity, at))
              /\ sent'[q] = Append(sent[q], 0)
              /\ NewIn(q, identity, at) \in Row(q)
              /\ queue'[q] \in Seq(Row(q)) /\ sent'[q] \in Seq(Nat)
              /\ Len(queue'[q]) = n /\ Len(sent'[q]) = n
              /\ DOMAIN queue'[q] = DOMAIN queue[q] \cup {n}
              /\ queue'[q][n] = NewIn(q, identity, at) /\ sent'[q][n] = 0
              /\ \A k \in DOMAIN queue[q] : /\ queue'[q][k] = queue[q][k]
                                            /\ sent'[q][k] = sent[q][k]
<1>1. "feedback" \in Queue /\ "outbox" \in Queue
      /\ \A q \in Queue : q = "feedback" \/ q = "outbox"
  BY DEF Queue
<1>2. /\ queue' = [queue EXCEPT
            !["feedback"] = Append(@, NewRow(identity, "queued", at)),
            !["outbox"] = Append(@, NewRow(Len(queue["feedback"]) + 1,
                                           "pending", at))]
      /\ sent' = [q \in Queue |-> Append(sent[q], 0)]
  BY DEF Enqueue
<1>3. /\ DOMAIN queue' = Queue /\ DOMAIN sent' = Queue
      /\ \A q \in Queue : /\ queue'[q] = Append(queue[q],
                                                NewIn(q, identity, at))
                          /\ sent'[q] = Append(sent[q], 0)
  BY <1>1, <1>2 DEF TypeOK, NewIn
<1>4. ASSUME NEW q \in Queue
      PROVE  NewIn(q, identity, at) \in Row(q)
  <2>1. Len(queue["feedback"]) + 1 \in Nat
    BY <1>1, TableTypes
  <2>2. "queued" \in Status("feedback") /\ "pending" \in Status("outbox")
    BY DEF Status
  <2>3. CASE q = "feedback"
    BY <2>2, <2>3, NewRowType DEF NewIn
  <2>4. CASE q = "outbox"
    BY <2>1, <2>2, <2>4, NewRowType DEF NewIn
  <2>. QED
    BY <1>1, <2>3, <2>4
<1>5. ASSUME NEW q \in Queue
      PROVE  LET n == Len(queue[q]) + 1 IN
             /\ n \notin DOMAIN queue[q]
             /\ queue'[q] \in Seq(Row(q)) /\ sent'[q] \in Seq(Nat)
             /\ Len(queue'[q]) = n /\ Len(sent'[q]) = n
             /\ DOMAIN queue'[q] = DOMAIN queue[q] \cup {n}
             /\ queue'[q][n] = NewIn(q, identity, at) /\ sent'[q][n] = 0
             /\ \A k \in DOMAIN queue[q] : /\ queue'[q][k] = queue[q][k]
                                           /\ sent'[q][k] = sent[q][k]
  <2>. DEFINE table == queue[q]
              counts == sent[q]
              row == NewIn(q, identity, at)
              R == Row(q)
  <2>1. /\ table \in Seq(R) /\ counts \in Seq(Nat) /\ row \in R
        /\ Len(counts) = Len(table) /\ Len(table) \in Nat
        /\ DOMAIN table = 1..Len(table)
    BY <1>4, TableTypes
  <2>2. queue'[q] = Append(table, row) /\ sent'[q] = Append(counts, 0)
    BY <1>3
  <2>. HIDE DEF table, counts, row, R
  <2>3. /\ Append(table, row) \in Seq(R)
        /\ Len(Append(table, row)) = Len(table) + 1
        /\ \A k \in 1..Len(table) : Append(table, row)[k] = table[k]
        /\ Append(table, row)[Len(table) + 1] = row
    BY <2>1, AppendProperties
  <2>4. /\ Append(counts, 0) \in Seq(Nat)
        /\ Len(Append(counts, 0)) = Len(counts) + 1
        /\ \A k \in 1..Len(counts) : Append(counts, 0)[k] = counts[k]
        /\ Append(counts, 0)[Len(counts) + 1] = 0
    BY <2>1, AppendProperties
  <2>5. DOMAIN Append(table, row) = 1..(Len(table) + 1)
    BY <2>3
  <2>. QED
    BY <2>1, <2>2, <2>3, <2>4, <2>5 DEF table, counts, row, R
<1>. QED
  BY <1>3, <1>4, <1>5

LEMMA QueueCommitStep ==
  ASSUME DeliveryInv, NEW t \in Thread, QueueCommit(t)
  PROVE  DeliveryInv'
<1>1. TypeOK /\ t \in Handler /\ t \notin Worker
      /\ session[t] \in [pc: {"queue"}, identity: Identity, at: Nat]
  BY ThreadKinds, WorkerTypes DEF DeliveryInv, QueueCommit, Pc
<1>2. PICK identity \in Identity, at \in Nat :
        identity = session[t].identity /\ at = session[t].at
  BY <1>1
<1>3. /\ Enqueue(identity, at) /\ Continue(t, Idle) /\ now' = now
      /\ published' = published /\ crashes' \in Nat
  BY <1>1, <1>2 DEF QueueCommit, TypeOK
<1>4. Idle \in Request
  BY DEF Request
<1>5. now <= now'
  BY <1>1, <1>3, ConstantsAssumption DEF TypeOK, ConstantsAssumption
<1>6. CASE ~IsNew(identity)
  <2>1. UNCHANGED <<queue, sent>>
    BY <1>3, <1>6 DEF Enqueue
  <2>2. TypeOK' /\ \A u \in Worker : session'[u] = session[u]
    BY <1>1, <1>3, <1>4, <2>1, TypeAlone DEF Thread
  <2>. QED
    BY <1>5, <2>1, <2>2, TablesStay
<1>7. CASE IsNew(identity)
  <2>. DEFINE n(q) == Len(queue[q]) + 1
              new(q) == NewIn(q, identity, at)
  <2>1. /\ DOMAIN queue' = Queue /\ DOMAIN sent' = Queue
        /\ \A q \in Queue :
             /\ n(q) \notin DOMAIN queue[q]
             /\ queue'[q] \in Seq(Row(q)) /\ sent'[q] \in Seq(Nat)
             /\ Len(queue'[q]) = n(q) /\ Len(sent'[q]) = n(q)
             /\ DOMAIN queue'[q] = DOMAIN queue[q] \cup {n(q)}
             /\ queue'[q][n(q)] = new(q) /\ sent'[q][n(q)] = 0
             /\ \A k \in DOMAIN queue[q] : /\ queue'[q][k] = queue[q][k]
                                           /\ sent'[q][k] = sent[q][k]
    BY <1>1, <1>3, <1>7, Enqueued
  <2>2. TypeOK' /\ \A u \in Worker : session'[u] = session[u]
    BY <1>1, <1>3, <1>4, <2>1, TypeStep DEF Thread
  <2>3. /\ new("feedback").subject = identity
        /\ new("outbox").subject = n("feedback")
        /\ \A q \in Queue : /\ new(q).attempt = 0
                            /\ new(q).status \in Waiting(q)
                            /\ new(q).status # "permanent_failed"
    BY DEF NewIn, NewRow, Waiting, Queue
  <2>4. "feedback" \in Queue /\ "outbox" \in Queue
    BY DEF Queue
  <2>. HIDE DEF n, new
  <2>5. OneReceiptPerIdentity'
    <3>1. /\ DOMAIN queue'["feedback"] =
               DOMAIN queue["feedback"] \cup {n("feedback")}
          /\ queue'["feedback"][n("feedback")].subject = identity
          /\ \A k \in DOMAIN queue["feedback"] :
               /\ queue'["feedback"][k] = queue["feedback"][k]
               /\ queue["feedback"][k].subject # identity
      BY <1>7, <2>1, <2>3, <2>4 DEF IsNew
    <3>. QED
      BY <3>1 DEF DeliveryInv, OneReceiptPerIdentity
  <2>6. OneEventPerReceipt'
    <3>. DEFINE r == n("feedback")
                e == n("outbox")
                old == queue["outbox"]
                events == queue'["outbox"]
    <3>1. /\ DOMAIN queue'["feedback"] = DOMAIN queue["feedback"] \cup {r}
          /\ r \notin DOMAIN queue["feedback"]
          /\ DOMAIN events = DOMAIN old \cup {e} /\ e \notin DOMAIN old
          /\ events[e].subject = r
          /\ \A f \in DOMAIN old : events[f] = old[f]
      BY <2>1, <2>3, <2>4
    <3>2. \A f \in DOMAIN old : old[f].subject \in DOMAIN queue["feedback"]
      BY DEF DeliveryInv, OneEventPerReceipt
    <3>3. ASSUME NEW k \in DOMAIN queue["feedback"]
          PROVE  \E d \in DOMAIN events :
                   \A f \in DOMAIN events : events[f].subject = k <=> f = d
      <4>1. PICK d \in DOMAIN old :
              \A f \in DOMAIN old : old[f].subject = k <=> f = d
        BY <3>3 DEF DeliveryInv, OneEventPerReceipt
      <4>2. \A f \in DOMAIN events : events[f].subject = k <=> f = d
        BY <3>1, <4>1
      <4>. QED
        BY <3>1, <4>1, <4>2
    <3>4. \A f \in DOMAIN events : events[f].subject = r <=> f = e
      BY <3>1, <3>2
    <3>5. \A f \in DOMAIN events : events[f].subject \in DOMAIN queue'["feedback"]
      BY <3>1, <3>2
    <3>. QED
      BY <3>1, <3>3, <3>4, <3>5 DEF OneEventPerReceipt
  <2>7. ASSUME NEW q \in Queue, NEW k \in DOMAIN queue'[q]
        PROVE  RowSound(q, k)'
    <3>1. CASE k = n(q)
      BY <2>1, <2>3, <3>1, ConstantsAssumption
         DEF RowSound, ConstantsAssumption
    <3>2. CASE k # n(q)
      <4>1. k \in DOMAIN queue[q]
        BY <2>1, <3>2
      <4>2. RowSound(q, k)
        BY <4>1, RowParts
      <4>. QED
        BY <2>1, <4>1, <4>2 DEF RowSound
    <3>. QED
      BY <3>1, <3>2
  <2>8. \A u \in Worker : Holds(u)' = Holds(u)
    BY <2>2 DEF Holds
  <2>9. \A u \in Worker : \A k \in Holds(u) :
          /\ Serves(u) \in Queue
          /\ k \in DOMAIN queue[Serves(u)]
    BY <1>1, WorkerTypes, HeldRow
  <2>10. SingleLease'
    BY <2>1, <2>8, <2>9 DEF DeliveryInv, SingleLease
  <2>11. ASSUME NEW u \in Worker
         PROVE  SessionSound(Serves(u), session[u])'
    <3>. DEFINE p == Serves(u)
    <3>1. p \in Queue /\ session[u] \in Delivery(p)
      BY <1>1, WorkerTypes
    <3>2. PICK x \in Delivery(p) : x = session[u]
      BY <3>1
    <3>3. SessionSound(p, x) /\ HeldBy(x) = Holds(u)
      BY <3>2 DEF DeliveryInv, Holds
    <3>4. \A k \in HeldBy(x) : /\ queue'[p][k] = queue[p][k]
                               /\ sent'[p][k] = sent[p][k]
      BY <2>1, <2>9, <3>1, <3>3
    <3>5. /\ \A k \in DOMAIN queue[p] : queue'[p][k] = queue[p][k]
          /\ DOMAIN queue[p] \subseteq DOMAIN queue'[p]
      BY <2>1, <3>1
    <3>. HIDE DEF p
    <3>6. SessionSound(p, x)'
      BY <1>1, <1>5, <2>2, <3>1, <3>3, <3>4, <3>5, SoundKept
    <3>. QED
      BY <2>2, <3>2, <3>6 DEF p
  <2>. QED
    BY <2>2, <2>5, <2>6, <2>7, <2>10, <2>11, Assembled
<1>. QED
  BY <1>6, <1>7

LEMMA DeliveryStep == DeliveryInv /\ [Next]_vars => DeliveryInv'
<1>. SUFFICES ASSUME DeliveryInv, [Next]_vars PROVE DeliveryInv'
  OBVIOUS
<1>1. CASE UNCHANGED vars
  <2>1. UNCHANGED <<now, published, queue, sent, session, crashes>>
    BY <1>1 DEF vars
  <2>2. TypeOK' /\ now <= now'
    BY <2>1, ConstantsAssumption
       DEF DeliveryInv, TypeOK, ConstantsAssumption
  <2>. QED
    BY <2>1, <2>2, TablesStay
<1>2. CASE Tick \/ Publish
  BY <1>2, TimeStep
<1>3. ASSUME NEW t \in Thread,
             \/ \E identity \in Identity : QueueRead(t, identity)
             \/ QueueCommit(t) \/ Work(t) \/ ClaimCutShort(t) \/ Crash(t)
      PROVE  DeliveryInv'
  BY <1>3, QueueReadStep, QueueCommitStep, ClaimListStep, ClaimNextStep,
     SendStep, CompleteReadStep, CompleteCommitStep, ClaimCutShortStep,
     CrashStep DEF Work
<1>. QED
  BY <1>1, <1>2, <1>3 DEF Next

\* Receipts and events, the workers that hold them and the copies they have
\* read explain each other, for any number of workers, requests and crashes.
THEOREM DeliveryInvariant == Spec => []DeliveryInv
  BY DeliveryInit, DeliveryStep, PTL DEF Spec

\* Every receipt has one event and one identity, also when requests overlap.
THEOREM EventWithReceipt ==
  Spec => [](OneEventPerReceipt /\ OneReceiptPerIdentity)
<1>1. DeliveryInv => OneEventPerReceipt /\ OneReceiptPerIdentity
  BY DEF DeliveryInv
<1>. QED
  BY <1>1, DeliveryInvariant, PTL

\* At no time do two workers hold one row, and nothing is sent twice.
THEOREM LeasedToOne == Spec => [](SingleLease /\ SentOnce)
<1>1. DeliveryInv => SingleLease /\ SentOnce
  BY DEF DeliveryInv
<1>. QED
  BY <1>1, DeliveryInvariant, PTL

-----------------------------------------------------------------------------
(***************************************************************************)
(* What the steps do to the tables; from it, that a retry waits for its    *)
(* backoff, and that the tables implement DeliveryLedger.                  *)
(***************************************************************************)

TakesRow(q, k) ==
  /\ queue[q][k].status \in Waiting(q)
  /\ queue[q][k].at <= now
  /\ sent' = sent
  /\ \E new \in Row(q) : /\ Writes(q, k, new)
                         /\ new.status = Leased(q)
                         /\ new.attempt = queue[q][k].attempt

SendsRow(q, k) ==
  /\ queue[q][k].status = Leased(q)
  /\ sent[q][k] = 0
  /\ queue' = queue
  /\ Counts(q, k, 1)

SettlesRow(q, k) ==
  /\ queue[q][k].status = Leased(q)
  /\ sent' = sent
  /\ \E new \in Row(q) :
       /\ Writes(q, k, new)
       /\ new.status # Leased(q)
       /\ new.status \in Waiting(q) \cup {"permanent_failed"} <=>
            sent[q][k] = 0
       /\ new.attempt = queue[q][k].attempt + 1 - sent[q][k]
       /\ q = "feedback" => (new.status = "permanent_failed" <=>
                               new.attempt = MaxAttempts)

LEMMA ClaimTakes ==
  ASSUME DeliveryInv, NEW t \in Thread, NEW q, q = Serves(t), ClaimNext(t)
  PROVE  /\ q \in Queue
         /\ \/ UNCHANGED <<queue, sent>>
            \/ \E k \in DOMAIN queue[q] : TakesRow(q, k)
<1>1. TypeOK /\ t \in Worker /\ q \in Queue /\ session[t] \in Delivery(q)
      /\ session[t].pc = "claim"
  BY ThreadKinds, WorkerTypes DEF DeliveryInv, ClaimNext, Pc
<1>2. PICK x \in Claim(q) : x = session[t]
  BY <1>1, DeliveryKinds DEF Claim
<1>3. PICK e \in x.rows :
        queue' = IF Current(q, e.id, e.row.version)
                 THEN [queue EXCEPT ![q][e.id] = Lease(q, e.row, x.at)]
                 ELSE queue
  BY <1>2 DEF ClaimNext
<1>4. e \in Snapshot(q) /\ x.at \in Nat /\ x.pc = "claim"
  BY DEF Claim
<1>5. PICK k \in Nat, row \in Row(q) : k = e.id /\ row = e.row
  BY <1>4 DEF Snapshot
<1>6. SessionSound(q, x)
  BY <1>1, <1>2 DEF DeliveryInv
<1>7. /\ k \in DOMAIN queue[q]
      /\ row.status \in Waiting(q)
      /\ row.at <= x.at /\ x.at <= now
      /\ row.version = queue[q][k].version => row = queue[q][k]
  BY <1>4, <1>5, <1>6 DEF SessionSound
<1>8. sent' = sent
  BY DEF ClaimNext
<1>9. CASE Current(q, k, row.version)
  <2>1. PICK new \in Row(q) : new = Lease(q, row, x.at)
    BY <1>1, <1>4, LeaseFields
  <2>2. new.status = Leased(q) /\ new.attempt = row.attempt
    BY <1>1, <1>4, <2>1, LeaseFields
  <2>3. Writes(q, k, new)
    BY <1>3, <1>5, <1>9, <2>1 DEF Writes
  <2>4. row = queue[q][k]
    BY <1>7, <1>9 DEF Current
  <2>5. row.at <= now
    <3>1. now \in Nat /\ row.at \in Nat
      BY <1>1, RowFields DEF TypeOK
    <3>. QED
      BY <1>4, <1>7, <3>1
  <2>6. TakesRow(q, k)
    BY <1>7, <1>8, <2>2, <2>3, <2>4, <2>5 DEF TakesRow
  <2>. QED
    BY <1>1, <1>7, <2>6
<1>10. CASE ~Current(q, k, row.version)
  BY <1>1, <1>3, <1>5, <1>8, <1>10
<1>. QED
  BY <1>9, <1>10

LEMMA SendSends ==
  ASSUME DeliveryInv, NEW t \in Thread, NEW q, q = Serves(t), Send(t)
  PROVE  /\ q \in Queue
         /\ \/ UNCHANGED <<queue, sent>>
            \/ \E k \in DOMAIN queue[q] : SendsRow(q, k)
<1>1. TypeOK /\ t \in Worker /\ q \in Queue /\ session[t] \in Delivery(q)
      /\ session[t].pc = "holding"
  BY ThreadKinds, WorkerTypes DEF DeliveryInv, Send, Pc
<1>2. PICK x \in [pc: {"holding"}, held: SUBSET Nat] : x = session[t]
  BY <1>1, DeliveryKinds
<1>3. PICK k \in x.held, ok \in BOOLEAN :
        sent' = IF ok THEN [sent EXCEPT ![q][k] = @ + 1] ELSE sent
  BY <1>2 DEF Send
<1>4. Holds(t) = x.held /\ SessionSound(q, x)
  BY <1>1, <1>2 DEF Holds, HeldBy, DeliveryInv
<1>5. k \in DOMAIN queue[q] /\ queue[q][k].status = Leased(q)
  BY <1>1, <1>4, HeldRow
<1>6. sent[q][k] = 0 /\ queue' = queue
  BY <1>2, <1>4 DEF SessionSound, Send
<1>7. CASE ok
  <2>1. Counts(q, k, 1)
    BY <1>3, <1>6, <1>7 DEF Counts
  <2>. QED
    BY <1>1, <1>5, <1>6, <2>1 DEF SendsRow
<1>8. CASE ~ok
  BY <1>1, <1>3, <1>6, <1>8
<1>. QED
  BY <1>7, <1>8

LEMMA CompleteSettles ==
  ASSUME DeliveryInv, NEW t \in Thread, NEW q, q = Serves(t),
         CompleteCommit(t)
  PROVE  q \in Queue /\ \E k \in DOMAIN queue[q] : SettlesRow(q, k)
<1>1. TypeOK /\ t \in Worker /\ q \in Queue /\ session[t] \in Delivery(q)
      /\ session[t].pc = "settle"
  BY ThreadKinds, WorkerTypes DEF DeliveryInv, CompleteCommit, Pc
<1>2. PICK x \in [pc: {"settle"}, held: SUBSET Nat, id: Nat, row: Row(q)] :
        x = session[t]
  BY <1>1, DeliveryKinds
<1>3. PICK k \in Nat, new \in Row(q) : k = x.id /\ new = x.row
  BY <1>2
<1>4. k \in Holds(t) /\ SessionSound(q, x)
  BY <1>1, <1>2, <1>3 DEF Holds, HeldBy, DeliveryInv
<1>5. /\ k \in DOMAIN queue[q] /\ queue[q][k] \in Row(q)
      /\ queue[q][k].status = Leased(q)
  BY <1>1, <1>4, HeldRow
<1>6. /\ new.version = queue[q][k].version + 1
      /\ new.status # Leased(q)
      /\ new.status \in Waiting(q) \cup {"permanent_failed"} <=>
           sent[q][k] = 0
      /\ new.attempt = queue[q][k].attempt + 1 - sent[q][k]
      /\ q = "feedback" => (new.status = "permanent_failed" <=>
                              new.attempt = MaxAttempts)
  BY <1>2, <1>3, <1>4 DEF SessionSound
<1>7. Writes(q, k, new)
  <2>1. queue[q][k].version \in Nat
    BY <1>1, <1>5, RowFields
  <2>2. Current(q, k, new.version - 1)
    BY <1>6, <2>1 DEF Current
  <2>. QED
    BY <1>2, <1>3, <2>2 DEF CompleteCommit, Writes
<1>8. sent' = sent
  BY DEF CompleteCommit
<1>9. SettlesRow(q, k)
  BY <1>5, <1>6, <1>7, <1>8 DEF SettlesRow
<1>. QED
  BY <1>1, <1>5, <1>9

Enqueues ==
  \E identity \in Identity, at \in Nat :
    IsNew(identity) /\ Enqueue(identity, at)

LEMMA QueueEnqueues ==
  ASSUME DeliveryInv, NEW t \in Thread, QueueCommit(t)
  PROVE  UNCHANGED <<queue, sent>> \/ Enqueues
<1>1. session[t] \in [pc: {"queue"}, identity: Identity, at: Nat]
  BY ThreadKinds DEF DeliveryInv, QueueCommit, Pc
<1>2. PICK identity \in Identity, at \in Nat :
        identity = session[t].identity /\ at = session[t].at
  BY <1>1
<1>3. Enqueue(identity, at)
  BY <1>2 DEF QueueCommit
<1>4. CASE IsNew(identity)
  BY <1>3, <1>4 DEF Enqueues
<1>5. CASE ~IsNew(identity)
  BY <1>3, <1>5 DEF Enqueue
<1>. QED
  BY <1>4, <1>5

\* All that a step does to the tables.
LEMMA StepKinds ==
  ASSUME DeliveryInv, [Next]_vars
  PROVE  \/ UNCHANGED <<queue, sent>>
         \/ Enqueues
         \/ \E q \in Queue : \E k \in DOMAIN queue[q] :
              TakesRow(q, k) \/ SendsRow(q, k) \/ SettlesRow(q, k)
<1>1. CASE UNCHANGED vars \/ Tick \/ Publish
  BY <1>1 DEF vars, Tick, Publish
<1>2. ASSUME NEW t \in Thread,
             \/ \E identity \in Identity : QueueRead(t, identity)
             \/ ClaimList(t) \/ CompleteRead(t)
             \/ ClaimCutShort(t) \/ Crash(t)
      PROVE  UNCHANGED <<queue, sent>>
  BY <1>2 DEF QueueRead, ClaimList, CompleteRead, ClaimCutShort, Crash
<1>3. ASSUME NEW t \in Thread, QueueCommit(t)
      PROVE  UNCHANGED <<queue, sent>> \/ Enqueues
  BY <1>3, QueueEnqueues
<1>4. ASSUME NEW t \in Thread, ClaimNext(t) \/ Send(t) \/ CompleteCommit(t)
      PROVE  \/ UNCHANGED <<queue, sent>>
             \/ \E q \in Queue : \E k \in DOMAIN queue[q] :
                  TakesRow(q, k) \/ SendsRow(q, k) \/ SettlesRow(q, k)
  <2>1. PICK q : q = Serves(t)
    OBVIOUS
  <2>2. CASE ClaimNext(t)
    BY <2>1, <2>2, ClaimTakes
  <2>3. CASE Send(t)
    BY <2>1, <2>3, SendSends
  <2>4. CASE CompleteCommit(t)
    BY <2>1, <2>4, CompleteSettles
  <2>. QED
    BY <1>4, <2>2, <2>3, <2>4
<1>. QED
  BY <1>1, <1>2, <1>3, <1>4 DEF Next, Work

\* Only a claim leases a row, and it has listed that row as it is stored.
THEOREM BackoffLasts == Spec => BackoffRespected
<1>. DEFINE Respects ==
       \A q \in Queue : \A k \in DOMAIN queue[q] :
         queue[q][k].status # Leased(q) /\ queue'[q][k].status = Leased(q)
           => queue[q][k].at <= now
<1>1. ASSUME DeliveryInv, [Next]_vars PROVE Respects
  <2>0. TypeOK
    BY <1>1 DEF DeliveryInv
  <2>1. CASE UNCHANGED <<queue, sent>>
    BY <2>1
  <2>2. CASE Enqueues
    <3>1. \A q \in Queue : \A k \in DOMAIN queue[q] :
            queue'[q][k] = queue[q][k]
      BY <2>0, <2>2, Enqueued DEF Enqueues
    <3>. QED
      BY <3>1
  <2>3. ASSUME NEW q \in Queue, NEW k \in DOMAIN queue[q],
               TakesRow(q, k) \/ SendsRow(q, k) \/ SettlesRow(q, k)
        PROVE  Respects
    <3>1. CASE SendsRow(q, k)
      BY <3>1 DEF SendsRow
    <3>2. ASSUME NEW new \in Row(q), Writes(q, k, new),
                 new.status # Leased(q) \/ queue[q][k].at <= now
          PROVE  Respects
      <4>1. /\ queue'[q][k] = new
            /\ \A p \in Queue : \A l \in DOMAIN queue[p] :
                 p # q \/ l # k => queue'[p][l] = queue[p][l]
        BY <2>0, <2>3, <3>2, RowWritten
      <4>. QED
        BY <3>2, <4>1
    <3>3. CASE TakesRow(q, k)
      BY <3>2, <3>3 DEF TakesRow
    <3>4. CASE SettlesRow(q, k)
      BY <3>2, <3>4 DEF SettlesRow
    <3>. QED
      BY <2>3, <3>1, <3>3, <3>4
  <2>. QED
    BY <1>1, <2>1, <2>2, <2>3, StepKinds
<1>. QED
  BY <1>1, DeliveryInvariant, PTL DEF Spec, BackoffRespected

-----------------------------------------------------------------------------
(***************************************************************************)
(* The refinement                                                          *)
(***************************************************************************)
States == [q \in Queue |-> [k \in DOMAIN queue[q] |-> Stage(q, queue[q][k])]]

Tries == [q \in Queue |-> [k \in DOMAIN queue[q] |-> queue[q][k].attempt]]

LEMMA LedgerNames ==
  /\ Ledger!Queue = Queue
  /\ Ledger!vars = <<States, Tries, sent>>
BY DEF Ledger!Queue, Queue, Ledger!vars, States, Tries

\* Writing a row moves its entry in the ledger and no other.
LEMMA EntryMoved ==
  ASSUME TypeOK, NEW q \in Queue, NEW k \in DOMAIN queue[q],
         NEW new \in Row(q), Writes(q, k, new)
  PROVE  /\ States[q][k] = Stage(q, queue[q][k])
         /\ Tries[q][k] = queue[q][k].attempt
         /\ k \in DOMAIN States[q]
         /\ States' = [States EXCEPT ![q][k] = Stage(q, new)]
         /\ Tries' = [Tries EXCEPT ![q][k] = new.attempt]
         /\ new.attempt = queue[q][k].attempt => Tries' = Tries
<1>1. /\ \A p \in Queue : DOMAIN queue'[p] = DOMAIN queue[p]
      /\ queue'[q][k] = new
      /\ \A p \in Queue : \A l \in DOMAIN queue[p] :
           p # q \/ l # k => queue'[p][l] = queue[p][l]
  BY RowWritten
<1>2. /\ States[q][k] = Stage(q, queue[q][k])
      /\ Tries[q][k] = queue[q][k].attempt
      /\ k \in DOMAIN States[q]
  BY DEF States, Tries
<1>3. ASSUME NEW p \in Queue, p # q
      PROVE  States'[p] = States[p] /\ Tries'[p] = Tries[p]
  BY <1>1, <1>3 DEF States, Tries
<1>4. States'[q] = [States[q] EXCEPT ![k] = Stage(q, new)]
  <2>1. \A l \in DOMAIN queue[q] :
          Stage(q, queue'[q][l]) =
            IF l = k THEN Stage(q, new) ELSE Stage(q, queue[q][l])
    BY <1>1
  <2>. QED
    BY <1>1, <2>1 DEF States
<1>5. Tries'[q] = [Tries[q] EXCEPT ![k] = new.attempt]
  <2>1. \A l \in DOMAIN queue[q] :
          queue'[q][l].attempt =
            IF l = k THEN new.attempt ELSE queue[q][l].attempt
    BY <1>1
  <2>. QED
    BY <1>1, <2>1 DEF Tries
<1>6. States' = [States EXCEPT ![q][k] = Stage(q, new)]
  BY <1>3, <1>4 DEF States
<1>7. Tries' = [Tries EXCEPT ![q][k] = new.attempt]
  BY <1>3, <1>5 DEF Tries
<1>8. ASSUME new.attempt = queue[q][k].attempt
      PROVE  Tries' = Tries
  <2>1. Tries'[q] = Tries[q]
    BY <1>1, <1>8 DEF Tries
  <2>. QED
    BY <1>3, <2>1 DEF Tries
<1>. QED
  BY <1>2, <1>6, <1>7, <1>8

LEMMA EntryAppended ==
  ASSUME NEW S, NEW old \in Seq(S), NEW entry \in S, NEW new,
         new \in [1..(Len(old) + 1) -> S],
         \A k \in 1..Len(old) : new[k] = old[k],
         new[Len(old) + 1] = entry
  PROVE  new = Append(old, entry)
<1>. DEFINE longer == Append(old, entry)
<1>1. /\ longer \in Seq(S)
      /\ Len(longer) = Len(old) + 1
      /\ \A k \in 1..Len(old) : longer[k] = old[k]
      /\ longer[Len(old) + 1] = entry
  BY AppendProperties
<1>2. longer \in [1..(Len(old) + 1) -> S]
  <2>. HIDE DEF longer
  <2>. QED
    BY <1>1, LenProperties
<1>3. Len(old) \in Nat
  OBVIOUS
<1>4. \A k \in 1..(Len(old) + 1) : k \in 1..Len(old) \/ k = Len(old) + 1
  BY <1>3
<1>. HIDE DEF longer
<1>5. \A k \in 1..(Len(old) + 1) : new[k] = longer[k]
  BY <1>1, <1>4
<1>6. new = longer
  BY <1>2, <1>5
<1>. QED
  BY <1>6 DEF longer

LEMMA EnqueueIssues ==
  ASSUME TypeOK, Enqueues
  PROVE  Ledger!Issue
<1>1. PICK identity \in Identity, at \in Nat :
        IsNew(identity) /\ Enqueue(identity, at)
  BY DEF Enqueues
<1>2. ASSUME NEW q \in Queue
      PROVE  /\ States'[q] = Append(States[q], "waiting")
             /\ Tries'[q] = Append(Tries[q], 0)
             /\ sent'[q] = Append(sent[q], 0)
  <2>. DEFINE n == Len(queue[q])
              row == NewIn(q, identity, at)
              Stages == {"waiting", "taken", "settled"}
  <2>1. /\ DOMAIN queue[q] = 1..n /\ n \in Nat
        /\ queue[q] \in Seq(Row(q))
    BY TableTypes
  <2>2. /\ sent'[q] = Append(sent[q], 0)
        /\ DOMAIN queue'[q] = (1..n) \cup {n + 1}
        /\ queue'[q] \in Seq(Row(q))
        /\ queue'[q][n + 1] = row
        /\ \A k \in 1..n : queue'[q][k] = queue[q][k]
    BY <1>1, <2>1, Enqueued
  <2>3. row.status \in Waiting(q) /\ row.attempt = 0
    BY DEF NewIn, NewRow, Waiting, Queue
  <2>4. Stage(q, row) = "waiting"
    BY <2>3 DEF Stage
  <2>5. \A x : Stage(q, x) \in Stages
    BY DEF Stage
  <2>6. /\ States[q] = [k \in 1..n |-> Stage(q, queue[q][k])]
        /\ Tries[q] = [k \in 1..n |-> queue[q][k].attempt]
        /\ States'[q] = [k \in 1..(n + 1) |-> Stage(q, queue'[q][k])]
        /\ Tries'[q] = [k \in 1..(n + 1) |-> queue'[q][k].attempt]
    <3>1. DOMAIN queue'[q] = 1..(n + 1)
      BY <2>1, <2>2
    <3>. QED
      BY <2>1, <3>1 DEF States, Tries
  <2>7. /\ \A k \in 1..n : queue[q][k].attempt \in Nat
        /\ \A k \in 1..(n + 1) : queue'[q][k].attempt \in Nat
    <3>1. \A k \in 1..n : queue[q][k].attempt \in Nat
      BY <2>1, TableTypes, RowFields
    <3>2. \A k \in 1..(n + 1) : k \in 1..n \/ k = n + 1
      BY <2>1
    <3>. QED
      BY SMTT(30), <2>2, <2>3, <3>1, <3>2
  <2>. HIDE DEF n, row, Stages
  <2>8. /\ States[q] \in Seq(Stages) /\ Len(States[q]) = n
        /\ Tries[q] \in Seq(Nat) /\ Len(Tries[q]) = n
    BY <2>1, <2>5, <2>6, <2>7 DEF n
  <2>9. /\ States'[q] \in [1..(n + 1) -> Stages]
        /\ Tries'[q] \in [1..(n + 1) -> Nat]
    BY <2>5, <2>6, <2>7
  <2>10. /\ \A k \in 1..n : /\ States'[q][k] = States[q][k]
                            /\ Tries'[q][k] = Tries[q][k]
         /\ States'[q][n + 1] = "waiting" /\ Tries'[q][n + 1] = 0
    <3>1. n + 1 \in 1..(n + 1) /\ 1..n \subseteq 1..(n + 1)
      BY <2>1 DEF n
    <3>2. \A k \in 1..n : /\ States'[q][k] = States[q][k]
                          /\ Tries'[q][k] = Tries[q][k]
      BY SMTT(30), <2>2, <2>6, <3>1
    <3>3. States'[q][n + 1] = "waiting" /\ Tries'[q][n + 1] = 0
      BY <2>2, <2>3, <2>4, <2>6, <3>1
    <3>. QED
      BY <3>2, <3>3
  <2>11. "waiting" \in Stages
    BY DEF Stages
  <2>12. States'[q] = Append(States[q], "waiting")
    BY <2>8, <2>9, <2>10, <2>11, EntryAppended
  <2>13. Tries'[q] = Append(Tries[q], 0)
    BY <2>8, <2>9, <2>10, EntryAppended
  <2>. QED
    BY <2>2, <2>12, <2>13
<1>3. sent' = [q \in Queue |-> Append(sent[q], 0)]
  BY <1>1 DEF Enqueue
<1>4. States' = [q \in Queue |-> Append(States[q], "waiting")]
  BY <1>2 DEF States
<1>5. Tries' = [q \in Queue |-> Append(Tries[q], 0)]
  BY <1>2 DEF Tries
<1>. QED
  BY <1>3, <1>4, <1>5, LedgerNames DEF Ledger!Issue, States, Tries

LEMMA RowMovesEntry ==
  ASSUME DeliveryInv, NEW q \in Queue, NEW k \in DOMAIN queue[q],
         TakesRow(q, k) \/ SendsRow(q, k) \/ SettlesRow(q, k)
  PROVE  Ledger!Next
<1>0. TypeOK /\ RowSound(q, k) /\ sent[q][k] \in Nat
  BY RowParts, TableTypes DEF DeliveryInv
<1>1. k \in DOMAIN States[q] /\ States[q][k] = Stage(q, queue[q][k])
      /\ Tries[q][k] = queue[q][k].attempt
  BY DEF States, Tries
<1>2. Leased(q) \notin Waiting(q) \cup {"permanent_failed"}
  BY Queues
<1>3. CASE TakesRow(q, k)
  <2>1. PICK new \in Row(q) : /\ Writes(q, k, new)
                              /\ new.status = Leased(q)
                              /\ new.attempt = queue[q][k].attempt
    BY <1>3 DEF TakesRow
  <2>2. Stage(q, queue[q][k]) = "waiting" /\ Stage(q, new) = "taken"
    BY <1>2, <1>3, <2>1 DEF Stage, TakesRow
  <2>3. /\ States' = [States EXCEPT ![q][k] = "taken"]
        /\ Tries' = Tries
    BY <1>0, <2>1, <2>2, EntryMoved
  <2>4. sent' = sent
    BY <1>3 DEF TakesRow
  <2>5. Ledger!Take(q, k)
    BY <1>1, <2>2, <2>3, <2>4
       DEF Ledger!Take, Ledger!Moves, States, Tries
  <2>. QED
    BY <1>1, <2>5, LedgerNames DEF Ledger!Next, States
<1>4. CASE SendsRow(q, k)
  <2>1. Stage(q, queue[q][k]) = "taken"
    BY <1>2, <1>4 DEF Stage, SendsRow
  <2>2. sent' = [sent EXCEPT ![q][k] = 1] /\ sent[q][k] = 0
    BY <1>4 DEF SendsRow, Counts
  <2>3. States' = States /\ Tries' = Tries
    BY <1>4 DEF SendsRow, States, Tries
  <2>4. Ledger!Deliver(q, k)
    BY <1>1, <2>1, <2>2, <2>3 DEF Ledger!Deliver, States, Tries
  <2>. QED
    BY <1>1, <2>4, LedgerNames DEF Ledger!Next, States
<1>5. CASE SettlesRow(q, k)
  <2>1. PICK new \in Row(q) :
          /\ Writes(q, k, new)
          /\ new.status # Leased(q)
          /\ new.status \in Waiting(q) \cup {"permanent_failed"} <=>
               sent[q][k] = 0
          /\ new.attempt = queue[q][k].attempt + 1 - sent[q][k]
          /\ q = "feedback" => (new.status = "permanent_failed" <=>
                                  new.attempt = MaxAttempts)
    BY <1>5 DEF SettlesRow
  <2>2. Stage(q, queue[q][k]) = "taken" /\ sent' = sent
    BY <1>2, <1>5 DEF Stage, SettlesRow
  <2>3. queue[q][k].attempt \in Nat
    BY <1>0, TableTypes, RowFields
  <2>4. CASE sent[q][k] = 1
    <3>1. Stage(q, new) = "settled"
      BY <2>1, <2>4 DEF Stage
    <3>2. new.attempt = queue[q][k].attempt
      BY <2>1, <2>3, <2>4
    <3>3. /\ States' = [States EXCEPT ![q][k] = "settled"]
          /\ Tries' = Tries
      BY <1>0, <2>1, <3>1, <3>2, EntryMoved
    <3>4. Ledger!Confirm(q, k)
      BY <1>1, <2>2, <2>4, <3>3
         DEF Ledger!Confirm, Ledger!Moves, States, Tries
    <3>. QED
      BY <1>1, <3>4, LedgerNames DEF Ledger!Next, States
  <2>5. CASE sent[q][k] = 0
    <3>. DEFINE to == IF q = "feedback" /\ Tries[q][k] + 1 = MaxAttempts
                      THEN "settled" ELSE "waiting"
    <3>1. new.attempt = Tries[q][k] + 1
      BY <1>1, <2>1, <2>3, <2>5
    <3>2. Stage(q, new) = to
      <4>1. new.status \in Waiting(q) \/ new.status = "permanent_failed"
        BY <2>1, <2>5
      <4>2. q = "feedback" \/ new.status # "permanent_failed"
        BY RowFields, Queues DEF Status
      <4>3. "permanent_failed" \notin Waiting(q)
        BY Queues
      <4>. QED
        BY <2>1, <3>1, <4>1, <4>2, <4>3 DEF Stage
    <3>3. /\ States' = [States EXCEPT ![q][k] = to]
          /\ Tries' = [Tries EXCEPT ![q][k] = @ + 1]
      <4>. HIDE DEF to
      <4>1. /\ States' = [States EXCEPT ![q][k] = Stage(q, new)]
            /\ Tries' = [Tries EXCEPT ![q][k] = new.attempt]
        BY <1>0, <2>1, EntryMoved
      <4>. QED
        BY <3>1, <3>2, <4>1
    <3>4. Ledger!Fail(q, k)
      BY <1>1, <2>2, <2>5, <3>3
         DEF Ledger!Fail, Ledger!Moves, States, Tries
    <3>. QED
      BY <1>1, <3>4, LedgerNames DEF Ledger!Next, States
  <2>. QED
    BY <1>0, <2>4, <2>5 DEF RowSound
<1>. QED
  BY <1>3, <1>4, <1>5

\* The tables implement the ledger: whatever the workers do, crash at or come
\* too late for, a receipt and its event are issued together, each is taken by
\* one worker at a time, sent at most once, counted as failed only when it was
\* not sent, and left alone once it is settled.
THEOREM DeliveryRefinement == Spec => LedgerSpec
<1>1. Init => Ledger!Init
  <2>. SUFFICES ASSUME Init PROVE Ledger!Init
    OBVIOUS
  <2>1. \A q \in Queue : queue[q] = <<>> /\ States[q] = <<>> /\ Tries[q] = <<>>
    BY DEF Init, States, Tries
  <2>2. /\ States = [q \in Queue |-> <<>>]
        /\ Tries = [q \in Queue |-> <<>>]
    BY <2>1 DEF States, Tries
  <2>. QED
    BY <2>2, LedgerNames DEF Init, Ledger!Init, States, Tries
<1>2. ASSUME DeliveryInv, [Next]_vars
      PROVE  Ledger!Next \/ UNCHANGED Ledger!vars
  <2>1. CASE UNCHANGED <<queue, sent>>
    BY <2>1 DEF Ledger!vars, Stage
  <2>2. CASE Enqueues
    BY <1>2, <2>2, EnqueueIssues DEF DeliveryInv, Ledger!Next
  <2>. QED
    BY <1>2, <2>1, <2>2, StepKinds, RowMovesEntry
<1>. QED
  BY <1>1, <1>2, DeliveryInvariant, PTL DEF Spec, LedgerSpec, Ledger!Spec

=============================================================================

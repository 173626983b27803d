---------------------------- MODULE DeliveryLedger ----------------------------
(***************************************************************************)
(* What the tables feedback_receipts and outbox_events promise, without    *)
(* workers, versions, leases and clocks: receipts and events come in       *)
(* pairs; each waits, is taken by one worker at a time, is sent at most    *)
(* once and only while it is taken, and stays as it is once it is settled. *)
(* A receipt is settled without being sent exactly when its last attempt   *)
(* has failed; an event is settled by being sent, and by nothing else.     *)
(***************************************************************************)
EXTENDS Naturals, Sequences

CONSTANT MaxAttempts  \* how often the sending of a receipt is tried

VARIABLES
  state,  \* of each receipt and of each event, by number
  tries,  \* how often its sending has failed
  sent    \* how often it was sent with success

vars == <<state, tries, sent>>

Queue == {"feedback", "outbox"}

Init ==
  /\ state = [q \in Queue |-> <<>>]
  /\ tries = [q \in Queue |-> <<>>]
  /\ sent = [q \in Queue |-> <<>>]

Issue ==
  /\ state' = [q \in Queue |-> Append(state[q], "waiting")]
  /\ tries' = [q \in Queue |-> Append(tries[q], 0)]
  /\ sent' = [q \in Queue |-> Append(sent[q], 0)]

Moves(q, k, from, to) ==
  /\ state[q][k] = from
  /\ state' = [state EXCEPT ![q][k] = to]

Take(q, k) == Moves(q, k, "waiting", "taken") /\ UNCHANGED <<tries, sent>>

Deliver(q, k) ==
  /\ state[q][k] = "taken"
  /\ sent[q][k] = 0
  /\ sent' = [sent EXCEPT ![q][k] = 1]
  /\ UNCHANGED <<state, tries>>

Confirm(q, k) ==
  /\ sent[q][k] = 1
  /\ Moves(q, k, "taken", "settled")
  /\ UNCHANGED <<tries, sent>>

\* The sending failed: the last attempt of a receipt settles it.
Fail(q, k) ==
  /\ sent[q][k] = 0
  /\ Moves(q, k, "taken",
           IF q = "feedback" /\ tries[q][k] + 1 = MaxAttempts
           THEN "settled" ELSE "waiting")
  /\ tries' = [tries EXCEPT ![q][k] = @ + 1]
  /\ UNCHANGED sent

Next ==
  \/ Issue
  \/ \E q \in Queue : \E k \in DOMAIN state[q] :
       Take(q, k) \/ Deliver(q, k) \/ Confirm(q, k) \/ Fail(q, k)

Spec == Init /\ [][Next]_vars

=============================================================================

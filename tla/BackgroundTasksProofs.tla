------------------------ MODULE BackgroundTasksProofs ------------------------
(***************************************************************************)
(* The store is closed when nothing runs any more, and a failure on record *)
(* went through every attempt and every wait, for any number of tasks,     *)
(* attempts, waits and timeouts.                                           *)
(***************************************************************************)
EXTENDS BackgroundTasks, TLAPS

\* The waits are numbers.
LEMMA BackoffType ==
  ASSUME NEW n \in 1..MaxRetries
  PROVE  Backoff(n) \in Int
<1>. DEFINE e == IF n > 11 THEN 10 ELSE n - 1
<1>1. e \in Nat
  BY ConstantsAssumption
<1>2. 2^e \in Int
  BY <1>1
<1>. HIDE DEF e
<1>3. BaseBackoff * 2^e \in Int
  BY <1>2, ConstantsAssumption
<1>. QED
  BY <1>3 DEF Backoff, e

LEMMA InitInv == Init => TasksInv
BY ConstantsAssumption
   DEF Init, TasksInv, TypeOK, Waiting, LoopState, Loop, Stage, Pc

\* A step of one loop that has not ended keeps the invariant: it does not come
\* near the shutdown, which waits for loops that have.
LEMMA LoopStep ==
  ASSUME TasksInv, NEW x \in Loop, NEW state \in LoopState, Goes(x, state),
         ~Pc(x, "exited"),
         state.pc \in {"running", "backing_off"} => state.attempts < MaxRetries,
         ticks' \subseteq Loop, failures' \in [Task -> Nat],
         UNCHANGED <<now, rest>>
  PROVE  TasksInv'
<1>1. loop' \in [Loop -> LoopState] /\ loop'[x] = state
      /\ \A y \in Loop \ {x} : loop'[y] = loop[y]
  BY DEF TasksInv, TypeOK, Goes
<1>2. TypeOK'
  BY <1>1 DEF TasksInv, TypeOK, rest
<1>3. \A y \in Loop : Pc(y, "exited") => Pc(y, "exited")'
  BY <1>1 DEF Pc
<1>4. \A y \in Loop :
        loop'[y].pc \in {"running", "backing_off"} => loop'[y].attempts < MaxRetries
  BY <1>1 DEF TasksInv
<1>. QED
  BY <1>2, <1>3, <1>4 DEF TasksInv, Loop, rest

\* One step for each action of a loop.
LEMMA LoopInv ==
  ASSUME TasksInv, NEW x \in Loop, LoopSteps(x)
  PROVE  TasksInv'
<1>. USE DEF Pc
<1>1. /\ now \in Nat /\ loop[x] \in LoopState
      /\ ticks \subseteq Loop /\ failures \in [Task -> Nat]
  BY ConstantsAssumption DEF TasksInv, TypeOK
<1>2. Waiting \in LoopState /\ [Waiting EXCEPT !.pc = "exited"] \in LoopState
      /\ Waiting.pc = "waiting" /\ [Waiting EXCEPT !.pc = "exited"].pc = "exited"
  BY ConstantsAssumption DEF Waiting, LoopState
<1>3. CASE StartTask(x)
  <2>. DEFINE state == [pc |-> "running", attempts |-> 0,
                        deadline |-> now + TaskTimeout, wake |-> 0]
  <2>1. state \in LoopState /\ state.attempts < MaxRetries
    BY <1>1, ConstantsAssumption DEF LoopState
  <2>2. Goes(x, state) /\ ~Pc(x, "exited") /\ ticks' \subseteq Loop
        /\ failures' \in [Task -> Nat] /\ UNCHANGED <<now, rest>>
    BY <1>1, <1>3 DEF StartTask
  <2>. HIDE DEF state
  <2>. QED
    BY <2>1, <2>2, LoopStep
<1>4. CASE ExitLoop(x)
  <2>. DEFINE state == [Waiting EXCEPT !.pc = "exited"]
  <2>1. Goes(x, state) /\ ~Pc(x, "exited") /\ ticks' \subseteq Loop
        /\ failures' \in [Task -> Nat] /\ UNCHANGED <<now, rest>>
    BY <1>1, <1>4 DEF ExitLoop
  <2>2. state \in LoopState /\ state.pc = "exited"
    BY <1>2
  <2>. HIDE DEF state
  <2>. QED
    BY <2>1, <2>2, LoopStep
<1>5. CASE \/ TaskSucceeds(x)
           \/ x = Worker /\ SweepFails
           \/ x \in Task /\ (GiveUp(x) \/ RecordFailure(x) \/ RecordFailureFails(x))
  <2>1. Goes(x, Waiting) /\ ~Pc(x, "exited") /\ ticks' \subseteq Loop
        /\ failures' \in [Task -> Nat] /\ UNCHANGED <<now, rest>>
    BY <1>1, <1>5
       DEF TaskSucceeds, SweepFails, GiveUp, RecordFailure, RecordFailureFails
  <2>. QED
    BY <1>2, <2>1, LoopStep
<1>6. CASE TaskFails(x)
  <2>. DEFINE attempts == loop[x].attempts + 1
              pc == IF Exhausted(attempts) THEN "recording" ELSE "backing_off"
              wake == IF Exhausted(attempts) THEN loop[x].wake
                      ELSE now + Backoff(attempts)
              state == [loop[x] EXCEPT !.attempts = attempts, !.pc = pc,
                                       !.wake = wake]
  <2>1. attempts \in 1..MaxRetries
    BY <1>1, <1>6, ConstantsAssumption DEF TaskFails, TasksInv, LoopState
  <2>2. Backoff(attempts) \in Int
    BY <2>1, BackoffType
  <2>3. Goes(x, state) /\ ~Pc(x, "exited") /\ ticks' \subseteq Loop
        /\ failures' \in [Task -> Nat] /\ UNCHANGED <<now, rest>>
    BY <1>1, <1>6 DEF TaskFails
  <2>4. loop[x].wake \in Int
    BY <1>1 DEF LoopState
  <2>. HIDE DEF attempts
  <2>5. wake \in Int /\ pc \in {"recording", "backing_off"}
        /\ (pc = "backing_off" => attempts < MaxRetries)
    BY <1>1, <2>1, <2>2, <2>4, ConstantsAssumption DEF Exhausted
  <2>. HIDE DEF pc, wake
  <2>6. state \in LoopState /\ state.pc = pc /\ state.attempts = attempts
    <3>1. PICK r \in LoopState : r = loop[x]
      BY <1>1
    <3>2. state = [r EXCEPT !.attempts = attempts, !.pc = pc, !.wake = wake]
      BY <3>1, Zenon
    <3>. HIDE DEF state
    <3>3. attempts \in 0..MaxRetries /\ wake \in Int
          /\ pc \in {"recording", "backing_off"}
      BY <2>1, <2>5
    <3>4. state \in LoopState
      BY ONLY r \in LoopState, <3>2, <3>3 DEF LoopState
    <3>5. state.pc = pc /\ state.attempts = attempts
      BY ONLY r \in LoopState, <3>2, <3>3 DEF LoopState
    <3>. QED
      BY <3>4, <3>5
  <2>. HIDE DEF state
  <2>. QED
    BY <2>3, <2>5, <2>6, LoopStep
<1>7. CASE Retry(x)
  <2>. DEFINE pc == "running"
              wake == 0
              state == [loop[x] EXCEPT !.pc = pc, !.wake = wake]
  <2>1. Goes(x, state) /\ ~Pc(x, "exited") /\ ticks' \subseteq Loop
        /\ failures' \in [Task -> Nat] /\ UNCHANGED <<now, rest>>
        /\ loop[x].attempts < MaxRetries
    BY <1>1, <1>7 DEF Retry, TasksInv
  <2>2. pc \in {"running"} /\ wake \in Int
    OBVIOUS
  <2>. HIDE DEF pc, wake
  <2>3. state \in LoopState /\ state.attempts = loop[x].attempts
    <3>1. PICK r \in LoopState : r = loop[x]
      BY <1>1
    <3>2. state = [r EXCEPT !.pc = pc, !.wake = wake]
      BY <3>1, Zenon
    <3>. HIDE DEF state
    <3>3. state \in LoopState /\ state.attempts = r.attempts
      BY <2>2, <3>2 DEF LoopState
    <3>. QED
      BY <3>1, <3>3
  <2>. HIDE DEF state
  <2>. QED
    BY <2>1, <2>3, LoopStep
<1>. QED
  BY <1>3, <1>4, <1>5, <1>6, <1>7 DEF LoopSteps

\* The shutdown goroutine goes on only when what it waits for has ended.
LEMMA ShutdownInv ==
  ASSUME TasksInv, Signal \/ ShutdownSteps
  PROVE  TasksInv'
<1>. USE DEF TasksInv, TypeOK, Stage, Advances, loops, Pc
<1>1. CASE Signal
  BY <1>1 DEF Signal
<1>2. CASE HttpStopped
  BY <1>2 DEF HttpStopped
<1>3. CASE StopScheduler
  BY <1>3 DEF StopScheduler, Loop
<1>4. CASE SchedulerStopped
  BY <1>4 DEF SchedulerStopped
<1>5. CASE StopWorker
  BY <1>5 DEF StopWorker, Loop
<1>6. CASE WorkerStopped
  BY <1>6 DEF WorkerStopped
<1>7. CASE CloseStore
  BY <1>7 DEF CloseStore
<1>. QED
  BY <1>1, <1>2, <1>3, <1>4, <1>5, <1>6, <1>7 DEF ShutdownSteps

LEMMA NextInv == TasksInv /\ [Next]_vars => TasksInv'
<1>. SUFFICES ASSUME TasksInv, [Next]_vars PROVE TasksInv'
  OBVIOUS
<1>1. CASE TimePasses
  BY <1>1, ConstantsAssumption DEF TimePasses, TasksInv, TypeOK, loops, rest, Pc
<1>2. ASSUME NEW x \in Loop, Tick(x) PROVE TasksInv'
  BY <1>2 DEF Tick, TasksInv, TypeOK, rest, Pc
<1>3. ASSUME NEW x \in Loop, LoopSteps(x) PROVE TasksInv'
  BY <1>3, LoopInv
<1>4. CASE Signal \/ ShutdownSteps
  BY <1>4, ShutdownInv
<1>5. CASE MainExits
  BY <1>5 DEF MainExits, TasksInv, TypeOK, loops, Pc
<1>6. CASE UNCHANGED vars
  BY <1>6 DEF vars, loops, rest, TasksInv, TypeOK, Pc
<1>. QED
  BY <1>1, <1>2, <1>3, <1>4, <1>5, <1>6 DEF Next

\* No task is tried oftener than it may be, and no loop the shutdown has waited
\* for starts again (scheduler.go:52-59, worker.go:92-99).
THEOREM TasksInvariant == Spec => []TasksInv
BY InitInv, NextInv, PTL DEF Spec

\* The store is never closed under a running loop (main.go:64-68).
THEOREM ClosedUnderNobody == Spec => []ClosedWhenIdle
<1>1. TasksInv => ClosedWhenIdle
  BY DEF TasksInv, ClosedWhenIdle, Loop
<1>. QED
  BY <1>1, TasksInvariant, PTL

(***************************************************************************)
(* The waits between the attempts                                          *)
(***************************************************************************)
\* The provers know the powers of numbers that are written out.
LEMMA PowersOfTwo == 2^0 = 1 /\ 2^10 = 1024
OBVIOUS

\* Up to the tenth, a power is twice the one before.
LEMMA Doubling ==
  /\ \A n \in 0..10 : 2^n \in Nat
  /\ \A n \in 0..9 : 2^(n + 1) = 2 * 2^n
<1>1. \A n \in 0..10 : \/ n = 0 \/ n = 1 \/ n = 2 \/ n = 3 \/ n = 4 \/ n = 5
                        \/ n = 6 \/ n = 7 \/ n = 8 \/ n = 9 \/ n = 10
  OBVIOUS
<1>2. \A n \in 0..10 : 2^n \in Nat
  <2>1. /\ 2^0 \in Nat /\ 2^1 \in Nat /\ 2^2 \in Nat /\ 2^3 \in Nat /\ 2^4 \in Nat
        /\ 2^5 \in Nat /\ 2^6 \in Nat /\ 2^7 \in Nat /\ 2^8 \in Nat /\ 2^9 \in Nat
        /\ 2^10 \in Nat
    OBVIOUS
  <2>. QED
    BY ZenonT(40), <1>1, <2>1
<1>3. \A n \in 0..9 : \/ n = 0 \/ n = 1 \/ n = 2 \/ n = 3 \/ n = 4 \/ n = 5
                       \/ n = 6 \/ n = 7 \/ n = 8 \/ n = 9
  OBVIOUS
<1>4. \A n \in 0..9 : 2^(n + 1) = 2 * 2^n
  <2>1. /\ 2^(0 + 1) = 2 * 2^0 /\ 2^(1 + 1) = 2 * 2^1 /\ 2^(2 + 1) = 2 * 2^2
        /\ 2^(3 + 1) = 2 * 2^3 /\ 2^(4 + 1) = 2 * 2^4 /\ 2^(5 + 1) = 2 * 2^5
        /\ 2^(6 + 1) = 2 * 2^6 /\ 2^(7 + 1) = 2 * 2^7 /\ 2^(8 + 1) = 2 * 2^8
        /\ 2^(9 + 1) = 2 * 2^9
    OBVIOUS
  <2>. QED
    BY ZenonT(40), <1>3, <2>1
<1>. QED
  BY <1>2, <1>4

\* Waited is the sum of the waits: none at first, and each failure adds the next.
LEMMA WaitedIsTheSum ==
  /\ Waited(0) = 0
  /\ \A n \in Nat : Waited(n) \in Int /\ Waited(n + 1) = Waited(n) + Backoff(n + 1)
<1>0. BaseBackoff \in Nat
  BY ConstantsAssumption
<1>1. Waited(0) = 0
  BY <1>0, PowersOfTwo DEF Waited
<1>2. ASSUME NEW n \in Nat
      PROVE  Waited(n) \in Int /\ Waited(n + 1) = Waited(n) + Backoff(n + 1)
  <2>1. CASE n \in 0..9
    <3>1. PICK p \in Nat : p = 2^n
      <4>1. n \in 0..10
        BY <2>1
      <4>2. 2^n \in Nat
        BY <4>1, Doubling, Zenon
      <4>. QED
        BY <4>2, Zenon
    <3>2. 2^(n + 1) = 2 * p
      <4>1. 2^(n + 1) = 2 * 2^n
        BY <2>1, Doubling, Zenon
      <4>. QED
        BY <3>1, <4>1, Zenon
    <3>3. Waited(n) = BaseBackoff * (p - 1)
      BY <2>1, <3>1 DEF Waited
    <3>4. Waited(n + 1) = BaseBackoff * (2 * p - 1)
      BY <2>1, <3>2 DEF Waited
    <3>5. Backoff(n + 1) = BaseBackoff * p
      <4>1. ~(n + 1 > 11) /\ (n + 1) - 1 = n
        BY <2>1
      <4>. QED
        BY <3>1, <4>1 DEF Backoff
    <3>6. BaseBackoff * (2 * p - 1) = BaseBackoff * (p - 1) + BaseBackoff * p
      BY <1>0
    <3>7. BaseBackoff * (p - 1) \in Int
      BY <1>0
    <3>. QED
      BY <3>3, <3>4, <3>5, <3>6, <3>7
  <2>2. CASE n = 10
    <3>1. Waited(n) = BaseBackoff * 1023
      BY <2>2, PowersOfTwo DEF Waited
    <3>2. Waited(n + 1) = BaseBackoff * 2047
      BY <2>2, PowersOfTwo DEF Waited
    <3>3. Backoff(n + 1) = BaseBackoff * 1024
      BY <2>2, PowersOfTwo DEF Backoff
    <3>. QED
      BY <1>0, <3>1, <3>2, <3>3
  <2>3. CASE n > 10
    <3>1. Waited(n) = BaseBackoff * ((n - 9) * 1024 - 1)
      BY <2>3, PowersOfTwo DEF Waited
    <3>2. Waited(n + 1) = BaseBackoff * (((n + 1) - 9) * 1024 - 1)
      BY <2>3, PowersOfTwo DEF Waited
    <3>3. Backoff(n + 1) = BaseBackoff * 1024
      BY <2>3, PowersOfTwo DEF Backoff
    <3>4. PICK m \in Int : m = (n - 9) * 1024 - 1
      OBVIOUS
    <3>5. ((n + 1) - 9) * 1024 - 1 = m + 1024
      BY <3>4
    <3>6. BaseBackoff * (m + 1024) = BaseBackoff * m + BaseBackoff * 1024
          /\ BaseBackoff * m \in Int
      BY <1>0
    <3>. QED
      BY <3>1, <3>2, <3>3, <3>4, <3>5, <3>6
  <2>. QED
    BY <2>1, <2>2, <2>3
<1>. QED
  BY <1>1, <1>2

\* A task has waited in full for the attempts it has made: up to now while it
\* runs, up to the end of the wait while it backs off.
Paid(state, time) ==
  /\ state.pc = "running" => time + TaskTimeout - state.deadline >= Waited(state.attempts)
  /\ state.pc = "backing_off" =>
       state.wake + TaskTimeout - state.deadline >= Waited(state.attempts)
  /\ state.pc = "recording" =>
       /\ state.attempts = MaxRetries
       /\ time + TaskTimeout - state.deadline >= Waited(MaxRetries - 1)

WaitInv == \A x \in Task : Paid(loop[x], now)

\* A step of one loop that leaves it with its waits paid keeps WaitInv.
LEMMA PaidStep ==
  ASSUME TasksInv, WaitInv, NEW x \in Loop, NEW state, Goes(x, state), now' = now,
         x \in Task => Paid(state, now)
  PROVE  WaitInv'
<1>1. \A y \in Loop : loop'[y] = IF y = x THEN state ELSE loop[y]
  BY DEF TasksInv, TypeOK, Goes
<1>2. ASSUME NEW y \in Task PROVE Paid(loop'[y], now')
  <2>1. CASE y = x
    BY <1>1, <2>1
  <2>2. CASE y # x
    <3>1. loop'[y] = loop[y]
      BY <1>1, <2>2 DEF Loop
    <3>. QED
      BY <3>1 DEF WaitInv
  <2>. QED
    BY <2>1, <2>2
<1>. QED
  BY <1>2 DEF WaitInv

\* One step for each action of a loop.
LEMMA WaitLoop ==
  ASSUME TasksInv, WaitInv, NEW x \in Loop, LoopSteps(x)
  PROVE  WaitInv'
<1>1. /\ now \in Nat /\ loop[x] \in LoopState /\ TaskTimeout \in Nat
      /\ x \in Task => Paid(loop[x], now)
  BY ConstantsAssumption DEF TasksInv, TypeOK, WaitInv
<1>2. Paid(Waiting, now) /\ Paid([Waiting EXCEPT !.pc = "exited"], now)
  BY DEF Waiting, Paid
<1>3. CASE StartTask(x)
  <2>1. PICK state : /\ state = [pc |-> "running", attempts |-> 0,
                                 deadline |-> now + TaskTimeout, wake |-> 0]
                     /\ Goes(x, state) /\ now' = now
    BY <1>3 DEF StartTask
  <2>2. state.pc = "running" /\ state.attempts = 0 /\ state.deadline = now + TaskTimeout
    BY <2>1
  <2>3. now + TaskTimeout - (now + TaskTimeout) >= 0
    BY <1>1
  <2>4. Paid(state, now)
    BY <2>2, <2>3, WaitedIsTheSum DEF Paid
  <2>. QED
    BY <2>1, <2>4, PaidStep
<1>4. CASE ExitLoop(x)
  <2>1. Goes(x, [Waiting EXCEPT !.pc = "exited"]) /\ now' = now
    BY <1>4 DEF ExitLoop
  <2>. QED
    BY <1>2, <2>1, PaidStep
<1>5. CASE \/ TaskSucceeds(x)
           \/ x = Worker /\ SweepFails
           \/ x \in Task /\ (GiveUp(x) \/ RecordFailure(x) \/ RecordFailureFails(x))
  <2>1. Goes(x, Waiting) /\ now' = now
    BY <1>5 DEF TaskSucceeds, SweepFails, GiveUp, RecordFailure, RecordFailureFails
  <2>. QED
    BY <1>2, <2>1, PaidStep
<1>6. CASE TaskFails(x)
  <2>1. PICK r \in LoopState : r = loop[x]
    BY <1>1
  <2>2. PICK n : n = r.attempts
    OBVIOUS
  <2>3. n \in Nat /\ n < MaxRetries /\ r.deadline \in Nat /\ MaxRetries \in Nat \ {0}
    BY <1>6, <2>1, <2>2, ConstantsAssumption DEF TaskFails, TasksInv, LoopState, Pc
  <2>4. now + TaskTimeout - r.deadline >= Waited(n)
    BY <1>1, <1>6, <2>1, <2>2 DEF TaskFails, Paid, Pc
  <2>5. PICK pc, wake :
          /\ pc = IF Exhausted(n + 1) THEN "recording" ELSE "backing_off"
          /\ wake = IF Exhausted(n + 1) THEN r.wake ELSE now + Backoff(n + 1)
    OBVIOUS
  <2>6. PICK state : /\ state = [r EXCEPT !.attempts = n + 1, !.pc = pc, !.wake = wake]
                     /\ Goes(x, state) /\ now' = now
    BY <1>6, <2>1, <2>2, <2>5, Zenon DEF TaskFails
  <2>7. /\ state.pc = pc /\ state.attempts = n + 1 /\ state.wake = wake
        /\ state.deadline = r.deadline
    BY <2>1, <2>6, Zenon DEF LoopState
  <2>8. CASE Exhausted(n + 1)
    <3>1. n + 1 = MaxRetries /\ MaxRetries - 1 = n /\ pc = "recording"
      BY <2>3, <2>5, <2>8 DEF Exhausted
    <3>. QED
      BY <2>4, <2>6, <2>7, <3>1, PaidStep DEF Paid
  <2>9. CASE ~Exhausted(n + 1)
    <3>1. PICK w \in Int, b \in Int : w = Waited(n) /\ b = Backoff(n + 1)
      <4>1. n + 1 \in 1..MaxRetries
        BY <2>3
      <4>. QED
        BY <2>3, <4>1, WaitedIsTheSum, BackoffType
    <3>2. Waited(n + 1) = w + b /\ wake = now + b /\ pc = "backing_off"
      BY <2>3, <2>5, <2>9, <3>1, WaitedIsTheSum
    <3>3. (now + b) + TaskTimeout - r.deadline >= w + b
      BY <1>1, <2>3, <2>4, <3>1
    <3>4. Paid(state, now)
      BY <2>7, <3>2, <3>3 DEF Paid
    <3>. QED
      BY <2>6, <3>4, PaidStep
  <2>. QED
    BY <2>8, <2>9
<1>7. CASE x \in Task /\ Retry(x)
  <2>1. PICK r \in LoopState : r = loop[x]
    BY <1>1
  <2>2. r.pc = "backing_off" /\ r.wake <= now /\ r.deadline \in Nat /\ r.wake \in Int
    BY <1>7, <2>1 DEF Retry, Pc, LoopState
  <2>3. r.wake + TaskTimeout - r.deadline >= Waited(r.attempts)
    BY <1>1, <1>7, <2>1, <2>2 DEF Paid
  <2>4. PICK w \in Int : w = Waited(r.attempts)
    <3>1. r.attempts \in Nat
      BY ConstantsAssumption DEF LoopState
    <3>. QED
      BY <3>1, WaitedIsTheSum
  <2>5. now + TaskTimeout - r.deadline >= w
    BY <1>1, <2>2, <2>3, <2>4
  <2>6. PICK pc, wake : pc = "running" /\ wake = 0
    OBVIOUS
  <2>7. PICK state : /\ state = [r EXCEPT !.pc = pc, !.wake = wake]
                     /\ Goes(x, state) /\ now' = now
    BY <1>7, <2>1, <2>6, Zenon DEF Retry
  <2>8. /\ state.pc = pc /\ state.attempts = r.attempts
        /\ state.deadline = r.deadline
    BY <2>1, <2>7, Zenon DEF LoopState
  <2>9. Paid(state, now)
    BY <2>4, <2>5, <2>6, <2>8 DEF Paid
  <2>. QED
    BY <2>7, <2>9, PaidStep
<1>. QED
  BY <1>3, <1>4, <1>5, <1>6, <1>7 DEF LoopSteps

LEMMA WaitInit == Init => WaitInv
BY DEF Init, WaitInv, Waiting, Paid, Loop

LEMMA WaitStep == TasksInv /\ WaitInv /\ [Next]_vars => WaitInv'
<1>. SUFFICES ASSUME TasksInv, WaitInv, [Next]_vars PROVE WaitInv'
  OBVIOUS
<1>1. CASE TimePasses
  <2>1. now' = now + 1 /\ loop' = loop /\ now \in Nat
    BY <1>1 DEF TimePasses, loops, TasksInv, TypeOK
  <2>2. ASSUME NEW x \in Task PROVE Paid(loop[x], now + 1)
    <3>1. PICK r \in LoopState : r = loop[x]
      BY DEF TasksInv, TypeOK, Loop
    <3>2. r.deadline \in Nat /\ r.attempts \in Nat /\ TaskTimeout \in Nat
          /\ MaxRetries - 1 \in Nat
      BY ConstantsAssumption DEF LoopState
    <3>3. PICK v \in Int, w \in Int : v = Waited(r.attempts) /\ w = Waited(MaxRetries - 1)
      BY <3>2, WaitedIsTheSum
    <3>4. Paid(r, now)
      BY <3>1 DEF WaitInv
    <3>5. Paid(r, now + 1)
      BY <2>1, <3>2, <3>3, <3>4 DEF Paid
    <3>. QED
      BY <3>1, <3>5
  <2>. QED
    BY <2>1, <2>2 DEF WaitInv
<1>2. ASSUME NEW x \in Loop, LoopSteps(x) PROVE WaitInv'
  BY <1>2, WaitLoop
<1>3. CASE \/ \E x \in Loop : Tick(x)
           \/ Signal \/ ShutdownSteps \/ MainExits \/ UNCHANGED vars
  <2>1. now' = now /\ loop' = loop
    BY <1>3 DEF Tick, Signal, ShutdownSteps, HttpStopped, StopScheduler, SchedulerStopped,
                StopWorker, WorkerStopped, CloseStore, MainExits, vars, loops, rest
  <2>. QED
    BY <2>1 DEF WaitInv
<1>. QED
  BY <1>1, <1>2, <1>3 DEF Next

\* Of all steps only recordTaskFailure touches the records.
LEMMA RecordSteps ==
  ASSUME TasksInv, [Next]_vars, NEW x \in Task, failures'[x] # failures[x]
  PROVE  RecordFailure(x)
<1>1. failures' # failures /\ failures \in [Task -> Nat]
  BY DEF TasksInv, TypeOK
<1>2. ~(\/ TimePasses \/ (\E y \in Loop : Tick(y)) \/ Signal \/ ShutdownSteps
        \/ MainExits \/ UNCHANGED vars)
  BY <1>1 DEF TimePasses, Tick, Signal, ShutdownSteps, HttpStopped, StopScheduler,
       SchedulerStopped, StopWorker, WorkerStopped, CloseStore, MainExits, vars, loops
<1>3. PICK y \in Loop : LoopSteps(y)
  BY <1>2 DEF Next
<1>4. y \in Task /\ RecordFailure(y)
  BY <1>1, <1>3 DEF LoopSteps, StartTask, ExitLoop, TaskSucceeds, SweepFails, TaskFails,
       Retry, GiveUp, RecordFailureFails
<1>5. y = x
  BY <1>1, <1>4 DEF RecordFailure
<1>. QED
  BY <1>4, <1>5

\* A failure that goes on record is one of a task that failed MaxRetries times,
\* waited in full in between and still had time (runWithRetry, calculateBackoff,
\* recordTaskFailure).
THEOREM FailuresAreExhausted == Spec => RecordedWhenExhausted
<1>1. Init => TasksInv /\ WaitInv
  BY InitInv, WaitInit
<1>2. TasksInv /\ WaitInv /\ [Next]_vars => (TasksInv /\ WaitInv)'
  BY NextInv, WaitStep
<1>3. TasksInv /\ WaitInv /\ [Next]_vars =>
        [\A x \in Task :
           failures'[x] # failures[x] =>
             /\ failures'[x] = failures[x] + 1
             /\ loop[x].attempts = MaxRetries
             /\ Elapsed(x) >= Waited(MaxRetries - 1)
             /\ Elapsed(x) < TaskTimeout]_vars
  <2>1. SUFFICES ASSUME TasksInv, WaitInv, [Next]_vars, NEW x \in Task,
                        failures'[x] # failures[x]
                 PROVE  /\ failures'[x] = failures[x] + 1
                        /\ loop[x].attempts = MaxRetries
                        /\ Elapsed(x) >= Waited(MaxRetries - 1)
                        /\ Elapsed(x) < TaskTimeout
    OBVIOUS
  <2>2. RecordFailure(x)
    BY <2>1, RecordSteps
  <2>3. failures'[x] = failures[x] + 1 /\ loop[x].pc = "recording" /\ ~(loop[x].deadline <= now)
    BY <2>1, <2>2 DEF RecordFailure, TasksInv, TypeOK, Done, Pc
  <2>4. loop[x].attempts = MaxRetries /\ Elapsed(x) >= Waited(MaxRetries - 1)
    BY <2>1, <2>3 DEF WaitInv, Paid, Elapsed
  <2>5. now \in Nat /\ loop[x].deadline \in Nat /\ TaskTimeout \in Nat
    BY <2>1, ConstantsAssumption DEF TasksInv, TypeOK, LoopState, Loop
  <2>6. Elapsed(x) < TaskTimeout
    BY <2>3, <2>5 DEF Elapsed
  <2>. QED
    BY <2>3, <2>4, <2>6
<1>. QED
  BY <1>1, <1>2, <1>3, PTL DEF Spec, RecordedWhenExhausted

===============================================================================

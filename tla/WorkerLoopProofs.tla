-------------------------- MODULE WorkerLoopProofs --------------------------
(***************************************************************************)
(* Proofs about WorkerLoop, for every number of queues and every value of  *)
(* the thresholds, periods and limits.                                     *)
(***************************************************************************)
EXTENDS WorkerLoop, TLAPS

USE QueuesAssumption, CheckAssumption, FailuresAssumption, PeriodAssumption,
    BoundsAssumption, DeletedAssumption

(* The indices of the queues are closed under the round robin. *)
LEMMA NextIndexIsQueue ==
    ASSUME NEW q \in Queue
    PROVE  NextIndex(q) \in Queue
BY DEF NextIndex, Queue

(* A queue that is polled is below the threshold of failures. *)
LEMMA HealthyBelowThreshold ==
    ASSUME TypeOK, NEW q \in Queue, Healthy(q)
    PROVE  AfterHealthCheck({q})[q] \in 0..(MaxFailures - 1)
BY DEF TypeOK, Healthy, AfterHealthCheck

(* What the summary and the selection leave of the failures is well typed. *)
LEMMA HealthCheckType ==
    ASSUME TypeOK, NEW S
    PROVE  /\ AfterHealthCheck(S) \in [Queue -> 0..MaxFailures]
           /\ \A q \in Queue : AfterHealthCheck(S)[q] <= failures[q]
BY DEF TypeOK, AfterHealthCheck

LEMMA OlderType ==
    ASSUME NEW limit \in Nat, NEW age \in 0..limit
    PROVE  Older(age, limit) \in 0..limit
BY DEF Older

-----------------------------------------------------------------------------
(* Type correctness. The queue being polled is below the threshold. *)

PolledBelow == pc \in {"refresh", "poll", "task"} => failures[cur] < MaxFailures

TypeInv == TypeOK /\ PolledBelow

LEMMA UseType ==
    ASSUME TypeOK, NEW b \in Budgeted, Use(b)
    PROVE  left' \in [Budgeted -> Nat]
BY DEF TypeOK, Use

LEMMA TypeInit == Init => TypeInv
<1> SUFFICES ASSUME Init
             PROVE  TypeInv
  OBVIOUS
<1>1. 0 \in Queue
  BY DEF Queue
<1>2. /\ failures \in [Queue -> 0..MaxFailures]
      /\ okAge \in [Queue -> 0..FailTimeout]
      /\ gap \in [Queue -> Nat]
  BY DEF Init
<1>3. checkAge \in 0..SignalPeriod
  BY DEF Init
<1> QED
  BY <1>1, <1>2, <1>3 DEF Init, TypeInv, TypeOK, PolledBelow

LEMMA TypeLoop ==
    ASSUME TypeInv, LoopStep
    PROVE  TypeInv'
<1>1. CASE LoopExits
  BY <1>1 DEF LoopExits, TypeInv, TypeOK, PolledBelow, health, caches, history
<1>2. CASE ContinueLoop
  <2>1. StopParameter \in {"on", "off"}
    BY DEF StopParameter, TypeInv, TypeOK
  <2> QED
    BY <1>2, <2>1 DEF ContinueLoop, TypeInv, TypeOK, PolledBelow, health, history
<1>3. CASE SelectNextQueue
  <2>1. PICK q \in Queue :
           /\ Healthy(q)
           /\ cur' = q
           /\ index' = NextIndex(q)
           /\ failures' = AfterHealthCheck({q})
           /\ gap' = [p \in Queue |-> IF p = q \/ ~Healthy(p) THEN 0 ELSE gap[p] + 1]
    BY <1>3 DEF SelectNextQueue
  <2>2. failures' \in [Queue -> 0..MaxFailures] /\ failures'[q] < MaxFailures
    BY <2>1, HealthCheckType, HealthyBelowThreshold DEF TypeInv
  <2>3. gap' \in [Queue -> Nat]
    BY <2>1 DEF TypeInv, TypeOK
  <2>4. index' \in Queue
    BY <2>1, NextIndexIsQueue
  <2> QED
    BY <1>3, <2>1, <2>2, <2>3, <2>4
    DEF SelectNextQueue, TypeInv, TypeOK, PolledBelow, caches
<1>4. CASE NoHealthyQueue
  BY <1>4 DEF NoHealthyQueue, TypeInv, TypeOK, PolledBelow, health, caches, history
<1>5. CASE RefreshSignaling
  BY <1>5 DEF RefreshSignaling, DropCaches, TypeInv, TypeOK, PolledBelow, health, caches
<1>6. CASE PollGone
  BY <1>6 DEF PollGone, TypeInv, TypeOK, PolledBelow, caches
<1>7. CASE PollEmpty
  BY <1>7 DEF PollEmpty, TypeInv, TypeOK, PolledBelow, health, caches, history
<1>8. CASE PollTakes
  <2>1. left' \in [Budgeted -> Nat]
    BY <1>8, UseType DEF Budgeted, PollTakes, TypeInv
  <2> QED
    BY <1>8, <2>1 DEF Budgeted, PollTakes, TypeInv, TypeOK, PolledBelow, health, caches
<1>9. CASE TaskProcessed
  BY <1>9 DEF TaskProcessed, TypeInv, TypeOK, PolledBelow, caches
<1>10. CASE TaskFailed
  BY <1>10 DEF TaskFailed, TypeInv, TypeOK, PolledBelow, caches
<1> QED
  BY <1>1, <1>2, <1>3, <1>4, <1>5, <1>6, <1>7, <1>8, <1>9, <1>10 DEF LoopStep

LEMMA TypeEnv ==
    ASSUME TypeInv,
           \/ ResourceExits \/ StopCheckFails \/ SignalingFails
           \/ Terminate \/ ResetFailures \/ StatusSummary
           \/ SetParameter(TRUE) \/ SetParameter(FALSE)
           \/ FatalError \/ Tick \/ Restart
    PROVE  TypeInv'
<1>0. \A b \in Budgeted :
         Use(b) => left' \in [Budgeted -> Nat]
  BY UseType DEF TypeInv
<1>1. CASE ResourceExits
  BY <1>0, <1>1 DEF Budgeted, ResourceExits, TypeInv, TypeOK, PolledBelow, health, caches, history
<1>2. CASE StopCheckFails
  BY <1>0, <1>2 DEF Budgeted, StopCheckFails, TypeInv, TypeOK, PolledBelow, health, caches, history
<1>3. CASE SignalingFails
  BY <1>0, <1>3 DEF Budgeted, SignalingFails, TypeInv, TypeOK, PolledBelow, health, history
<1>4. CASE Terminate
  BY <1>0, <1>4 DEF Budgeted, Terminate, TypeInv, TypeOK, PolledBelow, health, caches, history
<1>5. CASE ResetFailures
  <2>1. /\ failures' \in [Queue -> 0..MaxFailures]
        /\ \A q \in Queue : failures'[q] < MaxFailures
    BY <1>5 DEF ResetFailures
  <2>2. okAge' \in [Queue -> 0..FailTimeout]
    BY <1>5 DEF ResetFailures, TypeInv, TypeOK
  <2>3. left' \in [Budgeted -> Nat]
    BY <1>0, <1>5 DEF ResetFailures, Budgeted
  <2> QED
    BY <1>5, <2>1, <2>2, <2>3
    DEF ResetFailures, TypeInv, TypeOK, PolledBelow, control, caches, history
<1>6. CASE StatusSummary
  <2>1. /\ failures' \in [Queue -> 0..MaxFailures]
        /\ \A q \in Queue : failures'[q] <= failures[q]
    BY <1>6, HealthCheckType DEF StatusSummary, TypeInv
  <2> QED
    BY <1>6, <2>1 DEF StatusSummary, TypeInv, TypeOK, PolledBelow, control, caches, history
<1>7. CASE SetParameter(TRUE) \/ SetParameter(FALSE)
  <2>1. param' \in BOOLEAN /\ seen' \in BOOLEAN /\ born' \in BOOLEAN
    BY <1>7 DEF SetParameter, TypeInv, TypeOK
  <2>2. late' \in Nat /\ left' \in [Budgeted -> Nat]
    BY <1>0, <1>7 DEF Budgeted, SetParameter, TypeInv, TypeOK
  <2>3. UNCHANGED <<control, health, caches, taken, gap>>
    BY <1>7 DEF SetParameter
  <2> QED
    BY <2>1, <2>2, <2>3 DEF TypeInv, TypeOK, PolledBelow, control, health, caches
<1>8. CASE FatalError
  BY <1>0, <1>8 DEF Budgeted, FatalError, TypeInv, TypeOK, PolledBelow, health, caches, history
<1>9. CASE Tick
  <2>1. /\ okAge' \in [Queue -> 0..FailTimeout]
        /\ checkAge' \in 0..SignalPeriod
    BY <1>9, OlderType DEF Tick, TypeInv, TypeOK
  <2> QED
    BY <1>9, <2>1 DEF Tick, TypeInv, TypeOK, PolledBelow, control
<1>10. CASE Restart
  <2>1. 0 \in Queue
    BY DEF Queue
  <2>2. /\ failures' \in [Queue -> 0..MaxFailures]
        /\ okAge' \in [Queue -> 0..FailTimeout]
        /\ gap' \in [Queue -> Nat]
    BY <1>10 DEF Restart
  <2>3. checkAge' \in 0..SignalPeriod
    BY <1>10 DEF Restart
  <2> QED
    BY <1>10, <2>1, <2>2, <2>3 DEF Restart, TypeInv, TypeOK, PolledBelow
<1> QED
  BY <1>1, <1>2, <1>3, <1>4, <1>5, <1>6, <1>7, <1>8, <1>9, <1>10

LEMMA TypeStep == TypeInv /\ [Next]_vars => TypeInv'
<1>1. TypeInv /\ Next => TypeInv'
  BY TypeLoop, TypeEnv DEF Next
<1>2. TypeInv /\ UNCHANGED vars => TypeInv'
  BY DEF vars, TypeInv, TypeOK, PolledBelow
<1> QED
  BY <1>1, <1>2

(* The loop keeps its variables well typed; the failures of a queue never go
   past max_queue_failures, whatever signals arrive. *)
THEOREM TypeCorrect == Spec => []TypeOK
<1>1. TypeInv => TypeOK
  BY DEF TypeInv
<1> QED
  BY TypeInit, TypeStep, <1>1, PTL DEF Spec

-----------------------------------------------------------------------------
(* A graceful stop: a message taken after the signal leaves no way but out. *)

StopInv == taken = 0 \/ (taken = 1 /\ shouldStop /\ pc \in {"task", "top", "exit"})

LEMMA StopStep == TypeOK /\ StopInv /\ [Next]_vars => StopInv'
<1> SUFFICES ASSUME TypeOK, StopInv, [Next]_vars
             PROVE  StopInv'
  OBVIOUS
<1> USE DEF TypeOK, StopInv
<1>1. CASE LoopStep
  <2>1. CASE LoopExits
    BY <2>1 DEF LoopExits, history
  <2>2. CASE ContinueLoop
    BY <2>2 DEF ContinueLoop, StopAsked, history
  <2>3. CASE SelectNextQueue \/ NoHealthyQueue
    BY <2>3 DEF SelectNextQueue, NoHealthyQueue, history
  <2>4. CASE RefreshSignaling \/ PollGone \/ PollEmpty
    BY <2>4 DEF RefreshSignaling, PollGone, PollEmpty, history
  <2>5. CASE PollTakes
    BY <2>5 DEF PollTakes
  <2>6. CASE TaskProcessed \/ TaskFailed
    BY <2>6 DEF TaskProcessed, TaskFailed
  <2> QED
    BY <1>1, <2>1, <2>2, <2>3, <2>4, <2>5, <2>6 DEF LoopStep
<1>2. CASE ResourceExits \/ StopCheckFails \/ SignalingFails
  BY <1>2 DEF ResourceExits, StopCheckFails, SignalingFails, StopAsked, history
<1>3. CASE Terminate
  BY <1>3 DEF Terminate, history
<1>4. CASE ResetFailures \/ StatusSummary
  BY <1>4 DEF ResetFailures, StatusSummary, control, history
<1>5. CASE SetParameter(TRUE) \/ SetParameter(FALSE)
  BY <1>5 DEF SetParameter, control
<1>6. CASE FatalError
  BY <1>6 DEF FatalError, history
<1>7. CASE Tick
  BY <1>7 DEF Tick, control
<1>8. CASE Restart
  BY <1>8 DEF Restart
<1>9. CASE UNCHANGED vars
  BY <1>9 DEF vars
<1> QED
  BY <1>1, <1>2, <1>3, <1>4, <1>5, <1>6, <1>7, <1>8, <1>9 DEF Next

LEMMA StopInitial == Init => StopInv
BY DEF Init, StopInv

LEMMA StopPromise == StopInv => GracefulStop
BY DEF StopInv, GracefulStop

(* After SIGTERM or SIGINT a worker takes one message at most, wherever in its
   loop the signal finds it. *)
THEOREM StopsGracefully == Spec => []GracefulStop
BY TypeCorrect, StopInitial, StopStep, StopPromise, PTL DEF Spec

-----------------------------------------------------------------------------
(* A worker born while the stop parameter is set: its process starts with an
   empty cache and checks before its first message. *)

NoFailedCheck == left["checks"] = Budget["checks"]

BornInv ==
    born /\ NoFailedCheck =>
        /\ param
        /\ cached \in {"none", "on"}
        /\ processed = 0
        /\ pc \in {"top", "exit"}

(* A check that raised is never given back. *)
LEMMA FailedCheckStays ==
    ASSUME TypeOK, left["checks"] <= Budget["checks"], [Next]_vars
    PROVE  left'["checks"] <= left["checks"]
<1> USE DEF TypeOK, Budgeted
<1>1. ASSUME NEW b \in Budgeted, Use(b)
      PROVE  left'["checks"] <= left["checks"]
  BY <1>1 DEF Use
<1>2. CASE UNCHANGED left
  BY <1>2
<1> QED
  BY <1>1, <1>2 DEF Next, LoopStep, LoopExits, ContinueLoop, SelectNextQueue, NoHealthyQueue,
     RefreshSignaling, PollGone, PollEmpty, PollTakes, TaskProcessed, TaskFailed, ResourceExits,
     StopCheckFails, SignalingFails, Terminate, ResetFailures, StatusSummary, SetParameter,
     FatalError, Tick, Restart, vars

BoundInv == left["checks"] <= Budget["checks"]

LEMMA BornStep == TypeOK /\ TypeOK' /\ BoundInv /\ BornInv /\ [Next]_vars => BoundInv' /\ BornInv'
<1> SUFFICES ASSUME TypeOK, TypeOK', BoundInv, BornInv, [Next]_vars
             PROVE  BoundInv' /\ BornInv'
  OBVIOUS
<1>1. left["checks"] \in Nat /\ left'["checks"] \in Nat /\ Budget["checks"] \in Nat
  BY DEF TypeOK, Budgeted
<1>2. left'["checks"] <= left["checks"] /\ BoundInv'
  BY <1>1, FailedCheckStays DEF BoundInv
<1>3. NoFailedCheck' => NoFailedCheck
  BY <1>1, <1>2 DEF NoFailedCheck, BoundInv
<1>4. SUFFICES ASSUME born', NoFailedCheck'
               PROVE  /\ param'
                      /\ cached' \in {"none", "on"}
                      /\ processed' = 0
                      /\ pc' \in {"top", "exit"}
  BY <1>2 DEF BornInv
<1>5. CASE Restart
  BY <1>4, <1>5 DEF Restart
<1>6. ASSUME NEW on \in BOOLEAN, SetParameter(on)
      PROVE  born /\ param'
  BY <1>4, <1>6 DEF SetParameter
<1>7. CASE SetParameter(TRUE) \/ SetParameter(FALSE)
  <2>1. born /\ param'
    BY <1>6, <1>7
  <2> QED
    BY <1>3, <1>4, <1>7, <2>1 DEF BornInv, SetParameter, control, caches
<1>8. ASSUME ~Restart, ~SetParameter(TRUE), ~SetParameter(FALSE)
      PROVE  born /\ UNCHANGED param
  BY <1>4, <1>8 DEF Next, LoopStep, LoopExits, ContinueLoop, SelectNextQueue, NoHealthyQueue,
     RefreshSignaling, PollGone, PollEmpty, PollTakes, TaskProcessed, TaskFailed, ResourceExits,
     StopCheckFails, SignalingFails, Terminate, ResetFailures, StatusSummary,
     FatalError, Tick, history, vars
<1>9. ASSUME ~Restart, ~SetParameter(TRUE), ~SetParameter(FALSE)
      PROVE  /\ param
             /\ cached \in {"none", "on"}
             /\ processed = 0
             /\ pc \in {"top", "exit"}
  BY <1>3, <1>4, <1>8, <1>9 DEF BornInv
<1>10. CASE ~Restart /\ ~SetParameter(TRUE) /\ ~SetParameter(FALSE)
  <2>1. /\ param /\ UNCHANGED param
        /\ cached \in {"none", "on"}
        /\ processed = 0
        /\ pc \in {"top", "exit"}
    BY <1>8, <1>9, <1>10
  <2>2. CASE ContinueLoop
    <3>1. StopCheckDue(processed)
      BY <2>1 DEF StopCheckDue
    <3>2. StopParameter = "on"
      BY <2>1 DEF StopParameter
    <3> QED
      BY <2>1, <2>2, <3>1, <3>2 DEF ContinueLoop
  <2>3. CASE StopCheckFails
    BY <1>1, <1>4, <2>3 DEF StopCheckFails, Use, NoFailedCheck, BoundInv, TypeOK, Budgeted
  <2>4. CASE LoopExits \/ ResourceExits \/ FatalError
    BY <2>1, <2>4 DEF LoopExits, ResourceExits, FatalError, caches
  <2>5. CASE Terminate \/ ResetFailures \/ StatusSummary \/ Tick
    BY <2>1, <2>5 DEF Terminate, ResetFailures, StatusSummary, Tick, control, caches
  <2>6. CASE UNCHANGED vars
    BY <2>1, <2>6 DEF vars
  <2>7. ~(\/ SelectNextQueue \/ NoHealthyQueue \/ RefreshSignaling \/ SignalingFails
          \/ PollGone \/ PollEmpty \/ PollTakes \/ TaskProcessed \/ TaskFailed)
    BY <2>1 DEF SelectNextQueue, NoHealthyQueue, RefreshSignaling, SignalingFails, PollGone,
       PollEmpty, PollTakes, TaskProcessed, TaskFailed
  <2> QED
    BY <1>10, <2>2, <2>3, <2>4, <2>5, <2>6, <2>7 DEF Next, LoopStep
<1> QED
  BY <1>5, <1>7, <1>10

LEMMA BornInitial == Init => BoundInv /\ BornInv
<1> SUFFICES ASSUME Init
             PROVE  BoundInv /\ BornInv
  OBVIOUS
<1>1. born => param
  BY DEF Init
<1>2. BoundInv
  BY DEF Init, BoundInv, Budgeted
<1> QED
  BY <1>1, <1>2 DEF Init, BornInv

LEMMA BornPromise == BornInv => BornStopped
BY DEF BornInv, BornStopped, NoFailedCheck

(* A worker that the supervisor starts while the stop parameter is set takes
   no message, however often it is started again, unless reading the parameter
   fails. *)
THEOREM BornWorkersStop == Spec => []BornStopped
BY TypeCorrect, BornStep, BornInitial, BornPromise, PTL DEF Spec

-----------------------------------------------------------------------------
(* Stopping on the parameter: every message of a worker that has seen it
   brings the next check nearer, and only a failed check puts it off. *)

(* Messages until the parameter is read, if it is not read at this count. *)
UntilCheck(n) == CheckEvery - (n % CheckEvery)

(* Messages that may be processed before it is read. *)
Unread(p, n) == IF p = "exit" \/ (p = "top" /\ StopCheckDue(n)) THEN 0 ELSE UntilCheck(n)

(* Messages allowed, by the number of failed checks that are left. *)
Allowed(k) == CheckEvery * (1 + (Budget["checks"] - k))

(* A worker that has seen the parameter finds it on when it reads it. *)
SeenInv ==
    /\ seen => param /\ cached # "off"
    /\ ~seen => late = 0
    /\ late + Unread(pc, processed) <= Allowed(left["checks"])

LEMMA UnreadType ==
    ASSUME NEW p, NEW n \in Nat
    PROVE  /\ UntilCheck(n) \in 1..CheckEvery
           /\ Unread(p, n) \in 0..CheckEvery
BY DEF UntilCheck, Unread

LEMMA Remainder ==
    ASSUME NEW n \in Nat \ {0}, NEW q \in Nat, NEW r \in 0..(n - 1)
    PROVE  (n * q + r) % n = r
OBVIOUS

(* One message further, the parameter is due or the count is one further. *)
LEMMA NextMessage ==
    ASSUME NEW n \in Nat
    PROVE  \/ (n + 1) % CheckEvery = 0 /\ (n % CheckEvery) + 1 = CheckEvery
           \/ (n + 1) % CheckEvery = (n % CheckEvery) + 1
<1> DEFINE q == n \div CheckEvery
           r == n % CheckEvery
<1>1. n = CheckEvery * q + r /\ q \in Nat /\ r \in 0..(CheckEvery - 1)
  OBVIOUS
<1> HIDE DEF q, r
<1>2. CASE r + 1 < CheckEvery
  <2>1. n + 1 = CheckEvery * q + (r + 1) /\ r + 1 \in 0..(CheckEvery - 1)
    BY <1>1, <1>2
  <2>2. (CheckEvery * q + (r + 1)) % CheckEvery = r + 1
    BY <1>1, <2>1, Remainder
  <2> QED
    BY <2>1, <2>2 DEF r
<1>3. CASE r + 1 = CheckEvery
  <2>1. n + 1 = CheckEvery * (q + 1) + 0 /\ 0 \in 0..(CheckEvery - 1) /\ q + 1 \in Nat
    BY <1>1, <1>3
  <2>2. (CheckEvery * (q + 1) + 0) % CheckEvery = 0
    BY <2>1, Remainder
  <2> QED
    BY <1>3, <2>1, <2>2 DEF r
<1> QED
  BY <1>1, <1>2, <1>3

(* What was allowed stays allowed, and a failed check allows as much again. *)
LEMMA AllowedGrows ==
    ASSUME TypeOK, TypeOK', BoundInv, [Next]_vars
    PROVE  \E a, b \in Nat : /\ a = Allowed(left["checks"]) /\ b = Allowed(left'["checks"])
                             /\ CheckEvery <= a /\ a <= b
                             /\ StopCheckFails => b = a + CheckEvery
<1>1. /\ left["checks"] \in Nat /\ left'["checks"] \in Nat /\ Budget["checks"] \in Nat
      /\ left["checks"] <= Budget["checks"]
  BY DEF TypeOK, Budgeted, BoundInv
<1>2. left'["checks"] <= left["checks"]
  BY FailedCheckStays DEF BoundInv
<1>3. PICK f \in Nat, g \in Nat : /\ f = Budget["checks"] - left["checks"]
                                  /\ g = Budget["checks"] - left'["checks"]
  BY <1>1, <1>2
<1>4. /\ f <= g /\ Allowed(left["checks"]) = CheckEvery * (1 + f)
      /\ Allowed(left'["checks"]) = CheckEvery * (1 + g)
  BY <1>1, <1>2, <1>3 DEF Allowed
<1>5. /\ CheckEvery * (1 + f) \in Nat /\ CheckEvery * (1 + g) \in Nat
      /\ CheckEvery <= CheckEvery * (1 + f)
      /\ CheckEvery * (1 + (f + 1)) = CheckEvery * (1 + f) + CheckEvery
      /\ CheckEvery * (1 + f) <= CheckEvery * (1 + g)
  BY <1>4
<1>6. StopCheckFails => g = f + 1
  <2>1. StopCheckFails => left'["checks"] = left["checks"] - 1
    BY DEF StopCheckFails, Use, TypeOK, Budgeted
  <2> QED
    BY <1>1, <1>3, <2>1
<1> QED
  BY <1>4, <1>5, <1>6

(* Steps that leave what was seen and read alone, and skip no check. *)
LEMMA SeenKept ==
    ASSUME TypeOK, TypeOK', BoundInv, SeenInv, [Next]_vars,
           UNCHANGED <<cached, param, seen, late, processed>>,
           \/ pc' = pc \/ pc' = "exit"
           \/ pc # "exit" /\ (pc' = "top" \/ pc # "top" \/ ~StopCheckDue(processed))
    PROVE  SeenInv'
<1>1. PICK a \in Nat, b \in Nat : /\ a = Allowed(left["checks"]) /\ b = Allowed(left'["checks"])
                                  /\ CheckEvery <= a /\ a <= b
                                  /\ StopCheckFails => b = a + CheckEvery
  BY AllowedGrows
<1>2. PICK u \in Nat, v \in Nat : /\ u = Unread(pc, processed) /\ v = Unread(pc', processed')
                                  /\ v <= u
  <2>1. processed \in Nat /\ processed' = processed
    BY DEF TypeOK
  <2>2. PICK k \in 1..CheckEvery : k = UntilCheck(processed)
    BY <2>1, UnreadType
  <2> QED
    BY <2>1, <2>2 DEF Unread
<1>3. late \in Nat /\ late' = late
  BY DEF TypeOK
<1>4. late' + v <= b
  BY <1>1, <1>2, <1>3 DEF SeenInv
<1> QED
  BY <1>1, <1>2, <1>4 DEF SeenInv

(* Steps at which nothing counts yet. *)
LEMMA SeenFresh ==
    ASSUME TypeOK, TypeOK', BoundInv, [Next]_vars, late' = 0,
           seen' => param' /\ cached' # "off"
    PROVE  SeenInv'
<1>1. PICK a \in Nat, b \in Nat : /\ a = Allowed(left["checks"]) /\ b = Allowed(left'["checks"])
                                  /\ CheckEvery <= a /\ a <= b
                                  /\ StopCheckFails => b = a + CheckEvery
  BY AllowedGrows
<1>2. PICK v \in 0..CheckEvery : v = Unread(pc', processed')
  BY UnreadType DEF TypeOK
<1>3. late' + v <= b
  BY <1>1, <1>2
<1> QED
  BY <1>1, <1>2, <1>3 DEF SeenInv

LEMMA SeenStep == TypeOK /\ TypeOK' /\ BoundInv /\ SeenInv /\ [Next]_vars => SeenInv'
<1> SUFFICES ASSUME TypeOK, TypeOK', BoundInv, SeenInv, [Next]_vars
             PROVE  SeenInv'
  OBVIOUS
<1>1. CASE \/ LoopExits \/ ResourceExits \/ SelectNextQueue \/ NoHealthyQueue \/ SignalingFails
           \/ PollGone \/ PollEmpty \/ PollTakes \/ TaskFailed \/ FatalError
  BY <1>1, SeenKept DEF LoopExits, ResourceExits, SelectNextQueue, NoHealthyQueue,
     SignalingFails, PollGone, PollEmpty, PollTakes, TaskFailed, FatalError, caches, history
<1>2. CASE Terminate \/ ResetFailures \/ StatusSummary \/ Tick \/ UNCHANGED vars
  BY <1>2, SeenKept DEF Terminate, ResetFailures, StatusSummary, Tick, control, caches,
     history, vars
<1>3. CASE Restart
  BY <1>3, SeenFresh DEF Restart
<1>4. PICK a \in Nat, b \in Nat : /\ a = Allowed(left["checks"]) /\ b = Allowed(left'["checks"])
                                  /\ CheckEvery <= a /\ a <= b
                                  /\ StopCheckFails => b = a + CheckEvery
  BY AllowedGrows
<1>5. PICK u \in Nat, v \in 0..CheckEvery :
         u = Unread(pc, processed) /\ v = Unread(pc', processed')
  BY UnreadType DEF TypeOK
<1>6. late \in Nat /\ late + u <= a /\ processed \in Nat
  BY <1>4, <1>5 DEF SeenInv, TypeOK
<1>7. CASE SetParameter(TRUE)
  <2>1. UNCHANGED <<pc, processed, cached, seen, late>> /\ param' = TRUE
    BY <1>7 DEF SetParameter, control, caches, TypeOK
  <2>2. late' + v <= b
    BY <1>4, <1>5, <1>6, <2>1
  <2> QED
    BY <1>4, <1>5, <2>1, <2>2 DEF SeenInv
<1>8. CASE SetParameter(FALSE)
  BY <1>8, SeenFresh DEF SetParameter, TypeOK
<1>9. CASE ContinueLoop
  <2>1. CASE ~StopCheckDue(processed)
    BY <1>9, <2>1, SeenKept DEF ContinueLoop, history
  <2>2. CASE StopCheckDue(processed) /\ ~seen
    BY <1>9, <2>2, SeenFresh DEF ContinueLoop, history, SeenInv
  <2>3. CASE StopCheckDue(processed) /\ seen
    <3>1. StopParameter = "on"
      BY <2>3 DEF StopParameter, SeenInv, TypeOK
    <3>2. pc' = "exit" /\ cached' = "on" /\ UNCHANGED <<param, seen, late, processed>>
      BY <1>9, <2>3, <3>1 DEF ContinueLoop, history
    <3>3. v = 0
      BY <1>5, <3>2 DEF Unread
    <3>4. late' + v <= b
      BY <1>4, <1>6, <1>5, <3>2, <3>3
    <3> QED
      BY <1>4, <1>5, <2>3, <3>2, <3>4 DEF SeenInv
  <2> QED
    BY <2>1, <2>2, <2>3
<1>10. CASE StopCheckFails
  <2>1. UNCHANGED <<cached, param, seen, late, processed>>
    BY <1>10 DEF StopCheckFails, caches, history
  <2>2. late' + v <= b
    BY <1>4, <1>5, <1>6, <1>10, <2>1
  <2> QED
    BY <1>4, <1>5, <2>1, <2>2 DEF SeenInv
<1>11. CASE RefreshSignaling
  <2>1. CASE checkAge < SignalPeriod
    BY <1>11, <2>1, SeenKept DEF RefreshSignaling, caches
  <2>2. CASE ~(checkAge < SignalPeriod) /\ ~seen
    BY <1>11, <2>2, SeenFresh DEF RefreshSignaling, DropCaches, SeenInv
  <2>3. CASE ~(checkAge < SignalPeriod) /\ seen
    <3>1. /\ UNCHANGED <<param, late, processed>> /\ seen' = TRUE /\ cached' = "none"
          /\ pc = "refresh" /\ pc' = "poll"
      BY <1>11, <2>3 DEF RefreshSignaling, DropCaches, SeenInv
    <3>2. v = u
      BY <1>5, <3>1 DEF Unread
    <3>3. late' + v <= b
      BY <1>4, <1>5, <1>6, <3>1, <3>2
    <3> QED
      BY <1>4, <1>5, <2>3, <3>1, <3>3 DEF SeenInv
  <2> QED
    BY <2>1, <2>2, <2>3
<1>12. CASE TaskProcessed
  <2>1. /\ UNCHANGED <<cached, param, seen>> /\ pc = "task" /\ pc' = "top"
        /\ processed' = processed + 1 /\ late' = IF seen THEN late + 1 ELSE late
    BY <1>12 DEF TaskProcessed, caches
  <2>2. CASE ~seen
    BY <2>1, <2>2, SeenFresh DEF SeenInv
  <2>3. CASE seen
    <3>1. v + 1 = u
      <4>1. PICK r \in 0..(CheckEvery - 1) : r = processed % CheckEvery
        BY <1>6
      <4>2. u = CheckEvery - r
        BY <1>5, <2>1, <4>1 DEF Unread, UntilCheck
      <4>3. \/ (processed + 1) % CheckEvery = 0 /\ r + 1 = CheckEvery
            \/ (processed + 1) % CheckEvery = r + 1
        BY <1>6, <4>1, NextMessage
      <4>4. v = IF (processed + 1) % CheckEvery = 0 THEN 0
                ELSE CheckEvery - ((processed + 1) % CheckEvery)
        BY <1>5, <2>1 DEF Unread, UntilCheck, StopCheckDue
      <4>5. CASE (processed + 1) % CheckEvery = 0 /\ r + 1 = CheckEvery
        BY <4>2, <4>4, <4>5
      <4>6. CASE (processed + 1) % CheckEvery = r + 1
        BY <4>1, <4>2, <4>4, <4>6
      <4> QED
        BY <4>3, <4>5, <4>6
    <3>2. late' = late + 1
      BY <2>1, <2>3
    <3>3. late' + v <= b
      BY <1>4, <1>5, <1>6, <3>1, <3>2
    <3> QED
      BY <1>4, <1>5, <2>1, <2>3, <3>3 DEF SeenInv
  <2> QED
    BY <2>2, <2>3
<1> QED
  BY <1>1, <1>2, <1>3, <1>7, <1>8, <1>9, <1>10, <1>11, <1>12 DEF Next, LoopStep

LEMMA SeenInitial == TypeOK /\ Init => BoundInv /\ SeenInv
<1> SUFFICES ASSUME TypeOK, Init
             PROVE  BoundInv /\ SeenInv
  OBVIOUS
<1>1. /\ Budget["checks"] \in Nat /\ left["checks"] = Budget["checks"]
      /\ Allowed(left["checks"]) = CheckEvery * (1 + 0)
  BY DEF Init, Budgeted, Allowed
<1>2. Unread(pc, processed) \in 0..CheckEvery /\ late = 0 /\ ~seen
  BY UnreadType DEF Init
<1>3. late + Unread(pc, processed) <= Allowed(left["checks"])
  BY <1>1, <1>2
<1> QED
  BY <1>1, <1>2, <1>3 DEF SeenInv, BoundInv

LEMMA BoundKept == TypeOK /\ TypeOK' /\ BoundInv /\ [Next]_vars => BoundInv'
<1> SUFFICES ASSUME TypeOK, BoundInv, [Next]_vars, TypeOK'
             PROVE  BoundInv'
  OBVIOUS
<1> QED
  BY FailedCheckStays DEF BoundInv, TypeOK, Budgeted

LEMMA SeenPromise == TypeOK /\ BoundInv /\ SeenInv => StopsWithinTen
<1> SUFFICES ASSUME TypeOK, BoundInv, SeenInv
             PROVE  late <= CheckEvery * (1 + Budget["checks"] - left["checks"])
  BY DEF StopsWithinTen
<1>1. left["checks"] \in Nat /\ Budget["checks"] \in Nat
  BY DEF TypeOK, Budgeted
<1>2. PICK f \in Nat : f = Budget["checks"] - left["checks"]
  BY <1>1 DEF BoundInv
<1>3. Allowed(left["checks"]) = CheckEvery * (1 + f)
  BY <1>2 DEF Allowed
<1>4. late + Unread(pc, processed) <= CheckEvery * (1 + f)
  BY <1>3 DEF SeenInv
<1>5. Unread(pc, processed) \in 0..CheckEvery /\ late \in Nat
  BY UnreadType DEF TypeOK
<1>6. late <= CheckEvery * (1 + f)
  BY <1>4, <1>5
<1>7. 1 + Budget["checks"] - left["checks"] = 1 + f
  BY <1>1, <1>2
<1> QED
  BY <1>6, <1>7

(* A worker that has seen the stop parameter processes CheckEvery messages at
   most before it stops, and as many again for each check that fails: whatever
   its queues do, and however its counter stood when the caches were dropped. *)
THEOREM StopsOnParameter == Spec => []StopsWithinTen
BY TypeCorrect, SeenStep, SeenInitial, BoundKept, SeenPromise, PTL DEF Spec

-----------------------------------------------------------------------------
(* Nobody starves: what a queue has been passed over by, and what may still
   come before it, are less than a round together. *)

(* How far queue q is from index i. *)
Distance(q, i) == (q + NQueues - i) % NQueues

GapInv == \A q \in Queue : gap[q] + Distance(q, index) < NQueues

LEMMA DistanceIs ==
    ASSUME NEW q \in Queue, NEW i \in Queue
    PROVE  Distance(q, i) = IF i <= q THEN q - i ELSE q + NQueues - i
<1>1. PICK n \in Nat \ {0} : n = NQueues
  BY QueuesAssumption
<1>2. q \in 0..(n - 1) /\ i \in 0..(n - 1)
  BY <1>1 DEF Queue
<1>3. CASE i <= q
  <2>1. q + n - i = n * 1 + (q - i) /\ q - i \in 0..(n - 1)
    BY <1>2, <1>3
  <2>2. (n * 1 + (q - i)) % n = q - i
    BY <2>1, Remainder
  <2> QED
    BY <1>1, <1>3, <2>1, <2>2 DEF Distance
<1>4. CASE ~(i <= q)
  <2>1. q + n - i = n * 0 + (q + n - i) /\ q + n - i \in 0..(n - 1)
    BY <1>2, <1>4
  <2>2. (n * 0 + (q + n - i)) % n = q + n - i
    BY <2>1, Remainder
  <2> QED
    BY <1>1, <1>4, <2>1, <2>2 DEF Distance
<1> QED
  BY <1>3, <1>4

LEMMA NextIndexIs ==
    ASSUME NEW q \in Queue
    PROVE  NextIndex(q) = IF q + 1 = NQueues THEN 0 ELSE q + 1
<1>1. q \in 0..(NQueues - 1)
  BY DEF Queue
<1>2. CASE q + 1 = NQueues
  <2>1. q + 1 = NQueues * 1 + 0 /\ 0 \in 0..(NQueues - 1)
    BY <1>1, <1>2
  <2>2. (NQueues * 1 + 0) % NQueues = 0
    BY <2>1, Remainder
  <2> QED
    BY <1>2, <2>1, <2>2 DEF NextIndex
<1>3. CASE q + 1 # NQueues
  <2>1. q + 1 = NQueues * 0 + (q + 1) /\ q + 1 \in 0..(NQueues - 1)
    BY <1>1, <1>3
  <2>2. (NQueues * 0 + (q + 1)) % NQueues = q + 1
    BY <2>1, Remainder
  <2> QED
    BY <1>3, <2>1, <2>2 DEF NextIndex
<1> QED
  BY <1>2, <1>3

LEMMA DistanceType ==
    ASSUME NEW q \in Queue, NEW i \in Queue
    PROVE  Distance(q, i) \in 0..(NQueues - 1)
<1>1. PICK n \in Nat \ {0} : n = NQueues
  BY QueuesAssumption
<1>2. q \in 0..(n - 1) /\ i \in 0..(n - 1)
  BY <1>1 DEF Queue
<1>3. CASE i <= q
  <2>1. Distance(q, i) = q - i
    BY <1>3, DistanceIs
  <2> QED
    BY <1>1, <1>2, <1>3, <2>1
<1>4. CASE ~(i <= q)
  <2>1. Distance(q, i) = q + n - i
    BY <1>1, <1>4, DistanceIs
  <2> QED
    BY <1>1, <1>2, <1>4, <2>1
<1> QED
  BY <1>3, <1>4

(* After the poll of queue p, another queue that was no nearer than p comes
   one poll nearer at least. *)
LEMMA ComesNearer ==
    ASSUME NEW i \in Queue, NEW p \in Queue, NEW q \in Queue, p # q,
           Distance(p, i) <= Distance(q, i)
    PROVE  Distance(q, NextIndex(p)) + 1 <= Distance(q, i)
<1>1. PICK j \in Queue : j = NextIndex(p)
  BY NextIndexIsQueue
<1>2. j = IF p + 1 = NQueues THEN 0 ELSE p + 1
  BY <1>1, NextIndexIs
<1>3. /\ Distance(q, j) = IF j <= q THEN q - j ELSE q + NQueues - j
      /\ Distance(q, i) = IF i <= q THEN q - i ELSE q + NQueues - i
      /\ Distance(p, i) = IF i <= p THEN p - i ELSE p + NQueues - i
  BY DistanceIs
<1>4. /\ p \in 0..(NQueues - 1) /\ q \in 0..(NQueues - 1) /\ i \in 0..(NQueues - 1)
      /\ NQueues \in Nat
  BY DEF Queue
<1> QED
  BY <1>1, <1>2, <1>3, <1>4

LEMMA GapSelect ==
    ASSUME TypeOK, GapInv, SelectNextQueue
    PROVE  GapInv'
<1>1. PICK p \in Queue :
         /\ \A q \in Queue : Healthy(q) => Ahead(p) <= Ahead(q)
         /\ index' = NextIndex(p)
         /\ gap' = [q \in Queue |-> IF q = p \/ ~Healthy(q) THEN 0 ELSE gap[q] + 1]
  BY DEF SelectNextQueue
<1>2. index \in Queue /\ index' \in Queue /\ gap \in [Queue -> Nat]
  BY <1>1, NextIndexIsQueue DEF TypeOK
<1> SUFFICES ASSUME NEW q \in Queue
             PROVE  gap'[q] + Distance(q, index') < NQueues
  BY DEF GapInv
<1>3. PICK d \in 0..(NQueues - 1), e \in 0..(NQueues - 1) :
         d = Distance(q, index) /\ e = Distance(q, index')
  BY <1>2, DistanceType
<1>4. CASE q = p \/ ~Healthy(q)
  BY <1>1, <1>3, <1>4
<1>5. CASE q # p /\ Healthy(q)
  <2>1. gap'[q] = gap[q] + 1 /\ gap[q] \in Nat
    BY <1>1, <1>2, <1>5
  <2>2. Distance(p, index) <= Distance(q, index)
    BY <1>1, <1>5 DEF Ahead, Distance
  <2>3. e + 1 <= d
    BY <1>1, <1>2, <1>3, <1>5, <2>2, ComesNearer
  <2>4. gap[q] + d < NQueues
    BY <1>3 DEF GapInv
  <2> QED
    BY <1>3, <2>1, <2>3, <2>4
<1> QED
  BY <1>4, <1>5

LEMMA GapStep == TypeOK /\ GapInv /\ [Next]_vars => GapInv'
<1> SUFFICES ASSUME TypeOK, GapInv, [Next]_vars
             PROVE  GapInv'
  OBVIOUS
<1>1. CASE UNCHANGED <<index, gap>>
  BY <1>1 DEF GapInv
<1>2. CASE Restart
  BY <1>2, DistanceType DEF Restart, GapInv, Queue
<1>3. CASE SelectNextQueue
  BY <1>3, GapSelect
<1>4. SelectNextQueue \/ Restart \/ UNCHANGED <<index, gap>>
  BY DEF Next, LoopStep, LoopExits, ContinueLoop, NoHealthyQueue, RefreshSignaling, PollGone,
     PollEmpty, PollTakes, TaskProcessed, TaskFailed, ResourceExits, StopCheckFails,
     SignalingFails, Terminate, ResetFailures, StatusSummary, SetParameter, FatalError,
     Tick, control, history, vars
<1> QED
  BY <1>1, <1>2, <1>3, <1>4

LEMMA GapInitial == Init => GapInv
BY DistanceType DEF Init, GapInv, Queue

LEMMA GapPromise == TypeOK /\ GapInv => NoHealthyQueueStarved
<1> SUFFICES ASSUME TypeOK, GapInv, NEW q \in Queue
             PROVE  gap[q] < NQueues
  BY DEF NoHealthyQueueStarved
<1>1. PICK d \in 0..(NQueues - 1) : d = Distance(q, index)
  BY DistanceType DEF TypeOK
<1>2. gap[q] \in Nat /\ gap[q] + d < NQueues
  BY <1>1 DEF TypeOK, GapInv
<1> QED
  BY <1>1, <1>2

(* A queue that is healthy is passed over at most once for each other queue,
   for any number of queues that fail, cool down and come back around it. *)
THEOREM NobodyStarves == Spec => []NoHealthyQueueStarved
BY TypeCorrect, GapStep, GapInitial, GapPromise, PTL DEF Spec

-----------------------------------------------------------------------------
(* The promises of the loop together. *)

LoopInv == StopInv /\ BoundInv /\ BornInv /\ SeenInv /\ GapInv

LEMMA LoopInitial == TypeOK /\ Init => LoopInv
BY StopInitial, BornInitial, SeenInitial, GapInitial DEF LoopInv

LEMMA LoopKept == TypeOK /\ TypeOK' /\ LoopInv /\ [Next]_vars => LoopInv'
BY StopStep, BornStep, SeenStep, GapStep DEF LoopInv

LEMMA LoopPromises ==
    TypeOK /\ LoopInv => GracefulStop /\ BornStopped /\ StopsWithinTen /\ NoHealthyQueueStarved
BY StopPromise, BornPromise, SeenPromise, GapPromise DEF LoopInv
=============================================================================

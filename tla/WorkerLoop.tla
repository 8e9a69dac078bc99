----------------------------- MODULE WorkerLoop -----------------------------
(***************************************************************************)
(* The loop of one standalone worker (imq-worker): which queue it polls    *)
(* next, how it leaves failing queues alone for a while, and how it comes  *)
(* to stop: a signal, its message limit, its memory or thread limit, a     *)
(* fatal error, or the system parameter imq.STOP_STANDALONE_WORKERS.       *)
(*                                                                         *)
(* The parameter is read through a cache of the process (ormcache), which  *)
(* is dropped when the worker looks at the signaling sequences, at most    *)
(* once per SignalPeriod and only while it polls a queue.                  *)
(*                                                                         *)
(* Time is counted in ticks; an age is the time since an event, counted up *)
(* to the threshold the code compares it with.                             *)
(***************************************************************************)
EXTENDS Naturals

CONSTANTS
    NQueues,       (* queues that match the pattern of the worker            *)
    Deleted,       (* those of them deleted once the worker runs             *)
    CheckEvery,    (* the stop parameter is read every that many messages    *)
    MaxFailures,   (* max_queue_failures                                     *)
    FailTimeout,   (* queue_failure_timeout                                  *)
    SignalPeriod,  (* signaling_check_period_s                               *)
    MaxMessages,   (* --max-messages, 0 for no limit                         *)
    Budget         (* bounds: how many signals, writes of the parameter,     *)
                   (* faults, failed checks and messages there ever are      *)

Budgeted == {"signals", "writes", "faults", "checks", "supply"}

ASSUME QueuesAssumption == NQueues \in Nat \ {0}
ASSUME CheckAssumption == CheckEvery \in Nat \ {0}
ASSUME FailuresAssumption == MaxFailures \in Nat \ {0} /\ FailTimeout \in Nat
ASSUME PeriodAssumption == SignalPeriod \in Nat \ {0}
ASSUME BoundsAssumption == MaxMessages \in Nat /\ Budget \in [Budgeted -> Nat]

Queue == 0..(NQueues - 1)

ASSUME DeletedAssumption == Deleted \subseteq Queue

VARIABLES
    pc,          (* top, select, refresh, poll, task or exit                  *)
    shouldStop,  (* should_stop                                               *)
    processed,   (* processed_count                                           *)
    index,       (* queue_index, modulo the number of queues                  *)
    cur,         (* the queue being polled                                    *)
    failures,    (* queue_failures                                            *)
    okAge,       (* time since queue_last_success                             *)
    checkAge,    (* time since last_signaling_check                           *)
    cached,      (* the stop parameter in the process cache: none, on or off  *)
    param,       (* the stop parameter in the database names this host        *)
    left,        (* what is left of the bounds                                *)
    (* history *)
    seen,        (* the caches were dropped since the parameter was set       *)
    late,        (* messages processed since                                  *)
    born,        (* the parameter is set since before the process started     *)
    taken,       (* messages taken since a signal asked to stop               *)
    gap          (* gap[q]: polls of other queues since q was polled          *)

control == <<pc, shouldStop, processed, index, cur>>
health == <<failures, okAge>>
caches == <<checkAge, cached>>
history == <<seen, late, born, taken, gap>>
vars == <<pc, shouldStop, processed, index, cur, failures, okAge, checkAge,
          cached, param, left, seen, late, born, taken, gap>>

Use(bound) ==
    /\ left[bound] > 0
    /\ left' = [left EXCEPT ![bound] = @ - 1]

-----------------------------------------------------------------------------
(* The top of the loop: limits, then the stop parameter. *)

StopCheckDueLate(n) == n % (CheckEvery + 1) = 0
StopCheckDueLater(n) == n > 0 /\ n % CheckEvery = 0

StopCheckDue(n) == n % CheckEvery = 0

StopIgnored == FALSE

StopAsked == shouldStop

LimitReached == MaxMessages > 0 /\ processed >= MaxMessages

LoopExits ==
    /\ pc = "top"
    /\ StopAsked \/ LimitReached
    /\ pc' = "exit"
    /\ UNCHANGED <<shouldStop, processed, index, cur, health, caches, param, left, history>>

(* check_memory() or check_threads() says no. *)
ResourceExits ==
    /\ pc = "top"
    /\ Use("faults")
    /\ pc' = "exit"
    /\ UNCHANGED <<shouldStop, processed, index, cur, health, caches, param, history>>

(* get_param: the cache answers, or the database and the cache keeps it. *)
StopParameter == IF cached = "none" THEN IF param THEN "on" ELSE "off" ELSE cached

ContinueLoop ==
    /\ pc = "top"
    /\ ~StopAsked /\ ~LimitReached
    /\ IF StopCheckDue(processed)
       THEN /\ cached' = StopParameter
            /\ shouldStop' = (StopParameter = "on")
            /\ pc' = IF StopParameter = "on" THEN "exit" ELSE "select"
       ELSE /\ pc' = "select"
            /\ UNCHANGED <<cached, shouldStop>>
    /\ UNCHANGED <<processed, index, cur, health, checkAge, param, left, history>>

(* Reading the parameter raises: the worker goes on. *)
StopCheckFails ==
    /\ pc = "top"
    /\ ~StopAsked /\ ~LimitReached
    /\ StopCheckDue(processed)
    /\ Use("checks")
    /\ pc' = "select"
    /\ UNCHANGED <<shouldStop, processed, index, cur, health, caches, param, history>>

-----------------------------------------------------------------------------
(* Round robin over the healthy queues. *)

CooledDownNever(q) == FALSE

(* The timeout runs from the last success, not from the failures. *)
CooledDown(q) == failures[q] >= MaxFailures /\ okAge[q] >= FailTimeout

HealthyAlways(q) == TRUE

Healthy(q) == failures[q] < MaxFailures \/ CooledDown(q)

(* _is_queue_healthy forgets the failures of a queue whose timeout is over. *)
AfterHealthCheck(S) == [q \in Queue |-> IF q \in S /\ CooledDown(q) THEN 0 ELSE failures[q]]

(* How far q is from the current index. *)
Ahead(q) == (q + NQueues - index) % NQueues

NextIndexKept(q) == q

NextIndex(q) == (q + 1) % NQueues

SelectNextQueue ==
    /\ pc = "select"
    /\ \E q \in Queue :
          /\ Healthy(q)
          /\ \A p \in Queue : Healthy(p) => Ahead(q) <= Ahead(p)
          /\ cur' = q
          /\ index' = NextIndex(q)
          /\ failures' = AfterHealthCheck({q})
          /\ gap' = [p \in Queue |-> IF p = q \/ ~Healthy(p) THEN 0 ELSE gap[p] + 1]
    /\ pc' = "refresh"
    /\ UNCHANGED <<shouldStop, processed, okAge, caches, param, left, seen, late, born,
                   taken>>

(* The loop sleeps and starts again, without a look at the signaling. *)
NoHealthyQueue ==
    /\ pc = "select"
    /\ \A q \in Queue : ~Healthy(q)
    /\ pc' = "top"
    /\ UNCHANGED <<shouldStop, processed, index, cur, health, caches, param, left, history>>

-----------------------------------------------------------------------------
(* _process_one_message. *)

KeepCaches == UNCHANGED <<cached, seen>>

(* check_signaling drops the caches when another process wrote something. *)
DropCaches ==
    /\ cached' = "none"
    /\ seen' = param

RefreshSignaling ==
    /\ pc = "refresh"
    /\ pc' = "poll"
    /\ IF checkAge < SignalPeriod
       THEN UNCHANGED <<caches, seen>>
       ELSE checkAge' = 0 /\ DropCaches
    /\ UNCHANGED <<shouldStop, processed, index, cur, health, param, left, late, born,
                   taken, gap>>

(* The signaling check raises: it counts as done, the caches stay and the
   worker goes on. *)
SignalingFails ==
    /\ pc = "refresh"
    /\ checkAge >= SignalPeriod
    /\ Use("checks")
    /\ checkAge' = 0
    /\ pc' = "poll"
    /\ UNCHANGED <<shouldStop, processed, index, cur, health, cached, param, history>>

(* The queue no longer exists: 'failed'. *)
PollGone ==
    /\ pc = "poll"
    /\ cur \in Deleted
    /\ pc' = "top"
    /\ failures' = [failures EXCEPT ![cur] = @ + 1]
    /\ UNCHANGED <<shouldStop, processed, index, cur, okAge, caches, param, left, seen,
                   late, born, taken, gap>>

PollEmpty ==
    /\ pc = "poll"
    /\ cur \notin Deleted
    /\ pc' = "top"
    /\ UNCHANGED <<shouldStop, processed, index, cur, health, caches, param, left, history>>

PollTakes ==
    /\ pc = "poll"
    /\ cur \notin Deleted
    /\ Use("supply")
    /\ pc' = "task"
    /\ taken' = IF shouldStop THEN taken + 1 ELSE taken
    /\ UNCHANGED <<shouldStop, processed, index, cur, health, caches, param, seen, late,
                   born, gap>>

(* The message is recorded, done or failed, or for another try. *)
TaskProcessed ==
    /\ pc = "task"
    /\ pc' = "top"
    /\ processed' = processed + 1
    /\ failures' = [failures EXCEPT ![cur] = 0]
    /\ okAge' = [okAge EXCEPT ![cur] = 0]
    /\ late' = IF seen THEN late + 1 ELSE late
    /\ UNCHANGED <<shouldStop, index, cur, caches, param, left, seen, born, taken, gap>>

(* Storing or recording raised; processed_count stays. *)
TaskFailed ==
    /\ pc = "task"
    /\ pc' = "top"
    /\ failures' = [failures EXCEPT ![cur] = @ + 1]
    /\ UNCHANGED <<shouldStop, processed, index, cur, okAge, caches, param, left, seen, late,
                   born, taken, gap>>

-----------------------------------------------------------------------------
(* Signals, handled by the main thread between two of its steps. *)

Terminate ==
    /\ pc # "exit"
    /\ Use("signals")
    /\ shouldStop' = TRUE
    /\ UNCHANGED <<pc, processed, index, cur, health, caches, param, history>>

(* SIGUSR2: _reset_queue_failures. *)
ResetFailures ==
    /\ pc # "exit"
    /\ Use("signals")
    /\ failures' = [q \in Queue |-> 0]
    /\ okAge' = [q \in Queue |-> IF failures[q] > 0 THEN 0 ELSE okAge[q]]
    /\ UNCHANGED <<control, caches, param, history>>

(* SIGUSR1 and the periodic status: the summary runs _is_queue_healthy. *)
StatusSummary ==
    /\ pc # "exit"
    /\ failures' = AfterHealthCheck(Queue)
    /\ UNCHANGED <<control, okAge, caches, param, left, history>>

-----------------------------------------------------------------------------
(* The world around the worker. *)

SetParameter(on) ==
    /\ Use("writes")
    /\ param' = on
    /\ seen' = (seen /\ on)
    /\ born' = (born /\ on)
    /\ late' = IF on THEN late ELSE 0
    /\ UNCHANGED <<control, health, caches, taken, gap>>

(* An exception that leaves run(), a crash of the process, lost database... *)
FatalError ==
    /\ pc # "exit"
    /\ Use("faults")
    /\ pc' = "exit"
    /\ UNCHANGED <<shouldStop, processed, index, cur, health, caches, param, history>>

Older(age, limit) == IF age < limit THEN age + 1 ELSE age

Tick ==
    /\ okAge' = [q \in Queue |-> Older(okAge[q], FailTimeout)]
    /\ checkAge' = Older(checkAge, SignalPeriod)
    /\ UNCHANGED <<control, failures, cached, param, left, seen, late, born, taken, gap>>

Init ==
    /\ pc = "top"
    /\ shouldStop = FALSE
    /\ processed = 0
    /\ index = 0
    /\ cur = 0
    /\ failures = [q \in Queue |-> 0]
    /\ okAge = [q \in Queue |-> 0]
    /\ checkAge = SignalPeriod
    /\ cached = "none"
    /\ seen = FALSE
    /\ late = 0
    /\ taken = 0
    /\ gap = [q \in Queue |-> 0]
    /\ param \in BOOLEAN
    /\ born = param
    /\ left = Budget

(* The supervisor starts a new process. *)
Restart ==
    /\ pc = "exit"
    /\ pc' = "top"
    /\ shouldStop' = FALSE
    /\ processed' = 0
    /\ index' = 0
    /\ cur' = 0
    /\ failures' = [q \in Queue |-> 0]
    /\ okAge' = [q \in Queue |-> 0]
    /\ checkAge' = SignalPeriod
    /\ cached' = "none"
    /\ seen' = FALSE
    /\ late' = 0
    /\ taken' = 0
    /\ gap' = [q \in Queue |-> 0]
    /\ born' = param
    /\ UNCHANGED <<param, left>>

LoopStep ==
    \/ LoopExits
    \/ ContinueLoop
    \/ SelectNextQueue
    \/ NoHealthyQueue
    \/ RefreshSignaling
    \/ PollGone
    \/ PollEmpty
    \/ PollTakes
    \/ TaskProcessed
    \/ TaskFailed

Next ==
    \/ LoopStep
    \/ ResourceExits
    \/ StopCheckFails
    \/ SignalingFails
    \/ Terminate
    \/ ResetFailures
    \/ StatusSummary
    \/ SetParameter(TRUE)
    \/ SetParameter(FALSE)
    \/ FatalError
    \/ Tick
    \/ Restart

Spec == Init /\ [][Next]_vars

(* The loop never blocks: it sleeps and polls again; jobs end; time passes. *)
Fairness == WF_vars(LoopStep) /\ WF_vars(Tick)

FairSpec == Spec /\ Fairness

-----------------------------------------------------------------------------
(* Properties. *)

(* The variables of the loop keep the values the code gives them; the failure
   counter never goes past the threshold that stops the polling. *)
TypeOK ==
    /\ pc \in {"top", "select", "refresh", "poll", "task", "exit"}
    /\ shouldStop \in BOOLEAN
    /\ processed \in Nat
    /\ index \in Queue
    /\ cur \in Queue
    /\ failures \in [Queue -> 0..MaxFailures]
    /\ okAge \in [Queue -> 0..FailTimeout]
    /\ checkAge \in 0..SignalPeriod
    /\ cached \in {"none", "on", "off"}
    /\ param \in BOOLEAN
    /\ left \in [Budgeted -> Nat]
    /\ seen \in BOOLEAN
    /\ late \in Nat
    /\ born \in BOOLEAN
    /\ taken \in Nat
    /\ gap \in [Queue -> Nat]

(* Once its caches were dropped after the stop parameter was set, a worker
   processes at most CheckEvery more messages, whatever it polls in between;
   each failed check gives it as many again. *)
StopsWithinTen == late <= CheckEvery * (1 + Budget["checks"] - left["checks"])

(* A worker started while the stop parameter is set takes no message, after
   any number of restarts by its supervisor. *)
BornStopped == born /\ left["checks"] = Budget["checks"] => pc \in {"top", "exit"}

(* After a signal asked to stop, no more than one message is taken: the poll
   already under way may find one. *)
GracefulStop == taken <= 1

(* Between two polls of a queue that stays healthy every other queue is polled
   once at most, with queues that turn unhealthy and come back around it. *)
NoHealthyQueueStarved == \A q \in Queue : Healthy(q) => gap[q] < NQueues

(* Every queue is polled again and again, even one that only fails, until the
   worker exits. *)
NoQueueForgotten ==
    \A q \in Queue : pc = "top" ~> (pc = "poll" /\ cur = q) \/ pc = "exit"

(* A worker whose message count is a multiple of CheckEvery, as it is while no
   message was processed, stops if the parameter stays set, even when all of
   its queues fail and the signaling is not looked at for a while.  One that
   went idle at any other count never asks. *)
StopReachesDueWorker ==
    (param /\ StopCheckDue(processed)) ~>
        (~param \/ ~StopCheckDue(processed) \/ pc = "exit")
=============================================================================

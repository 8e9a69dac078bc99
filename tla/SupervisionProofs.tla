-------------------------- MODULE SupervisionProofs --------------------------
(***************************************************************************)
(* Proofs about Supervision, for every number of queues, every threshold   *)
(* and every limit.                                                        *)
(***************************************************************************)
EXTENDS Supervision, WorkerLoopProofs

USE WindowAssumption, UpdateAssumption, RoundsAssumption, ThreadsAssumption

-----------------------------------------------------------------------------
(* Types.  The loop is the one of WorkerLoop, but that the supervisor and the
   thread limit may end it as well. *)

(* The process ends: nothing else changes. *)
Ends == pc' = "exit" /\ UNCHANGED <<shouldStop, processed, index, cur, health, caches, param,
                                    left, history>>

LEMMA LoopOrEnd == [ObservedNext]_allVars => [Next]_vars \/ Ends
BY DEF ObservedNext, ObservedLoop, RoundStarts, ThreadsExit, Resting, Quietly, FoundEmpty,
       FoundGone, JobFailed, JobProcessed, ThreadEnds, Outside, TickObserved, Kill,
       RestartObserved, Next, LoopStep, Ends, allVars

LEMMA LoopTyped == TypeInv /\ [ObservedNext]_allVars => TypeInv'
<1>1. TypeInv /\ Ends => TypeInv'
  BY DEF Ends, TypeInv, TypeOK, PolledBelow, health, caches, history
<1> QED
  BY <1>1, LoopOrEnd, TypeStep

(* A worker takes no message with more leaked threads than its limit. *)
WithinWhileWorking ==
    MaxDelta > 0 /\ pc \in {"select", "refresh", "poll", "task"} => threads <= MaxDelta

(* The variables of the composition. *)
ObservedOK ==
    /\ empties \in 0..(EmptyEvery - 1)
    /\ idle \in 0..MaxIdle
    /\ busy \in 0..idle
    /\ rounds \in 0..Rounds
    /\ threads \in Nat
    /\ MaxDelta > 0 => threads <= MaxDelta + Leak

ObservedInv == TypeInv /\ ObservedOK /\ WithinWhileWorking

LEMMA MaxIdleType == MaxIdle \in Nat \ {0}
BY DEF MaxIdle

LEMMA ObservedInitial == ObservedInit => ObservedInv
BY TypeInit, MaxIdleType DEF ObservedInit, ObservedInv, ObservedOK, WithinWhileWorking

(* What the heartbeat does in a round. *)
LEMMA Heartbeat ==
    ASSUME ObservedOK, Signalled \/ Silent
    PROVE  idle' \in 0..MaxIdle /\ busy' \in 0..idle'
BY MaxIdleType DEF ObservedOK, Signalled, Silent

LEMMA RoundCounted ==
    ASSUME ObservedOK, RoundOver
    PROVE  rounds' \in 0..Rounds
BY DEF ObservedOK, RoundOver

LEMMA EmptiesCounted ==
    ASSUME ObservedOK
    PROVE  /\ (empties + 1) % EmptyEvery \in 0..(EmptyEvery - 1)
           /\ \/ (empties + 1) % EmptyEvery = 0
              \/ (empties + 1) % EmptyEvery = empties + 1
<1>1. PICK n \in Nat \ {0} : n = EmptyEvery
  OBVIOUS
<1>2. empties \in 0..(n - 1)
  BY <1>1 DEF ObservedOK
<1>3. CASE empties + 1 = n
  <2>1. empties + 1 = n * 1 + 0 /\ 0 \in 0..(n - 1)
    BY <1>1, <1>3
  <2>2. (n * 1 + 0) % n = 0
    BY <2>1, Remainder
  <2> QED
    BY <1>1, <2>1, <2>2
<1>4. CASE empties + 1 # n
  <2>1. empties + 1 = n * 0 + (empties + 1) /\ empties + 1 \in 0..(n - 1)
    BY <1>2, <1>4
  <2>2. (n * 0 + (empties + 1)) % n = empties + 1
    BY <2>1, Remainder
  <2> QED
    BY <1>1, <2>1, <2>2
<1> QED
  BY <1>3, <1>4

(* A job is taken within the limit, and leaks as much as one job may. *)
LEMMA Leaking ==
    ASSUME ObservedOK, WithinWhileWorking, pc = "task", JobLeaks
    PROVE  threads' \in Nat /\ (MaxDelta > 0 => threads' <= MaxDelta + Leak)
<1>1. PICK n \in 0..Leak : threads' = threads + n
  BY DEF JobLeaks
<1> QED
  BY <1>1 DEF ObservedOK, WithinWhileWorking

LEMMA ObservedStep == ObservedInv /\ [ObservedNext]_allVars => ObservedInv'
<1> SUFFICES ASSUME ObservedInv, [ObservedNext]_allVars
             PROVE  ObservedInv'
  OBVIOUS
<1>1. TypeInv' /\ TypeInv /\ ObservedOK /\ WithinWhileWorking
  BY LoopTyped DEF ObservedInv
<1>2. CASE RoundStarts
  <2>1. KeepObserved /\ (MaxDelta > 0 => threads <= MaxDelta)
    BY <1>2 DEF RoundStarts, WithinThreadLimit
  <2> QED
    BY <1>1, <2>1 DEF KeepObserved, observed, ObservedInv, ObservedOK, WithinWhileWorking
<1>3. CASE ThreadsExit \/ Kill
  BY <1>1, <1>3 DEF ThreadsExit, Kill, KeepObserved, observed, ObservedInv, ObservedOK,
                    WithinWhileWorking
<1>4. CASE Quietly
  <2>1. /\ KeepObserved
        /\ pc' \in {"select", "refresh", "poll", "task"} =>
              pc \in {"select", "refresh", "poll", "task"}
    BY <1>4 DEF Quietly, LoopExits, ResourceExits, SelectNextQueue, RefreshSignaling,
                SignalingFails, PollTakes
  <2> QED
    BY <1>1, <2>1 DEF KeepObserved, observed, ObservedInv, ObservedOK, WithinWhileWorking
<1>5. CASE Outside
  <2>1. KeepObserved /\ (pc' = pc \/ pc' = "exit")
    BY <1>5 DEF Outside, Terminate, ResetFailures, StatusSummary, FatalError, SetParameter,
                control
  <2> QED
    BY <1>1, <2>1 DEF KeepObserved, observed, ObservedInv, ObservedOK, WithinWhileWorking
<1>6. CASE Resting
  <2>1. pc' = "top" /\ UNCHANGED observed /\ rounds' \in 0..Rounds
    BY <1>1, <1>6, RoundCounted DEF Resting, NoHealthyQueue
  <2> QED
    BY <1>1, <2>1 DEF observed, ObservedInv, ObservedOK, WithinWhileWorking
<1>7. CASE FoundEmpty \/ FoundGone
  <2>1. /\ pc' = "top" /\ UNCHANGED threads /\ RoundOver
        /\ empties' = (empties + 1) % EmptyEvery
        /\ Signalled \/ Silent
    BY <1>7 DEF FoundEmpty, FoundGone, PollEmpty, PollGone, SignalledIfDue
  <2>2. /\ idle' \in 0..MaxIdle /\ busy' \in 0..idle' /\ rounds' \in 0..Rounds
        /\ empties' \in 0..(EmptyEvery - 1)
    BY <1>1, <2>1, Heartbeat, RoundCounted, EmptiesCounted
  <2> QED
    BY <1>1, <2>1, <2>2 DEF ObservedInv, ObservedOK, WithinWhileWorking
<1>8. CASE JobFailed \/ JobProcessed
  <2>1. /\ pc = "task" /\ pc' = "top" /\ JobLeaks /\ RoundOver
        /\ empties' = (empties + 1) % EmptyEvery \/ empties' = 0
        /\ Signalled \/ Silent
    BY <1>8 DEF JobFailed, JobProcessed, TaskFailed, TaskProcessed, SignalledIfDue
  <2>2. /\ idle' \in 0..MaxIdle /\ busy' \in 0..idle' /\ rounds' \in 0..Rounds
        /\ empties' \in 0..(EmptyEvery - 1)
    BY <1>1, <2>1, Heartbeat, RoundCounted, EmptiesCounted
  <2>3. threads' \in Nat /\ (MaxDelta > 0 => threads' <= MaxDelta + Leak)
    BY <1>1, <2>1, Leaking
  <2> QED
    BY <1>1, <2>1, <2>2, <2>3 DEF ObservedInv, ObservedOK, WithinWhileWorking
<1>9. CASE ThreadEnds
  <2>1. /\ UNCHANGED <<pc, empties, idle, busy, rounds>>
        /\ threads > 0 /\ threads' = threads - 1
    BY <1>9 DEF ThreadEnds, vars
  <2> QED
    BY <1>1, <2>1 DEF ObservedInv, ObservedOK, WithinWhileWorking
<1>10. CASE TickObserved
  <2>1. /\ UNCHANGED <<pc, empties, threads>> /\ rounds' = 0
        /\ idle' = Older(idle, MaxIdle)
        /\ busy' = Older(busy, MaxIdle) \/ busy' = busy
    BY <1>10 DEF TickObserved, Tick, control, Aging
  <2>2. idle' \in 0..MaxIdle /\ busy' \in 0..idle'
    BY <1>1, <2>1, MaxIdleType DEF Older, ObservedOK
  <2> QED
    BY <1>1, <2>1, <2>2 DEF ObservedInv, ObservedOK, WithinWhileWorking
<1>11. CASE RestartObserved
  BY <1>1, <1>11, MaxIdleType
     DEF RestartObserved, Restart, Signalled, ObservedInv, ObservedOK, WithinWhileWorking
<1>12. CASE UNCHANGED allVars
  BY <1>1, <1>12 DEF allVars, vars, observed, ObservedInv, ObservedOK, WithinWhileWorking
<1> QED
  BY <1>2, <1>3, <1>4, <1>5, <1>6, <1>7, <1>8, <1>9, <1>10, <1>11, <1>12
     DEF ObservedNext, ObservedLoop

(* The loop and what is observed of it stay well typed under the supervisor,
   and a process never has more leaked threads than its limit and one job. *)
THEOREM ObservedTypeCorrect == ObservedSpec => []TypeObserved
<1>1. ObservedInv => TypeObserved
  BY DEF ObservedInv, ObservedOK, TypeObserved, TypeInv
<1> QED
  BY <1>1, ObservedInitial, ObservedStep, PTL DEF ObservedSpec

-----------------------------------------------------------------------------
(* Silence. *)

(* How long the worker may be silent, by the signals that are left. *)
Allowance(k) == FailTimeout * (1 + Budget["signals"] - k)

(* A queue whose timeout still runs had a success, or a reset of its failures,
   since: a worker was silent for no longer than that. *)
SilentSince ==
    \A q \in Queue : okAge[q] < FailTimeout =>
        (idle - busy) + FailTimeout <= Allowance(left["signals"]) + okAge[q]

(* Since the last tick, a worker has shown activity, or rested because every
   timeout still ran, or polled failing queues: not often enough for the
   metrics to be due. *)
QuietRounds ==
    \/ idle = busy
    \/ \E q \in Queue : okAge[q] < FailTimeout
    \/ rounds <= empties

SilenceInv ==
    /\ left["signals"] <= Budget["signals"]
    /\ idle - busy <= Allowance(left["signals"])
    /\ SilentSince
    /\ QuietRounds

(* The rounds of a tick are at least those after which the metrics are due:
   they are 50 polls without a message, and a tick is about a minute. *)
LoopOutpacesTicks == FailTimeout > 0 /\ EmptyEvery <= Rounds

LEMMA AllowanceGrows ==
    ASSUME NEW k \in Nat, k <= Budget["signals"]
    PROVE  /\ Allowance(k) \in Nat /\ Allowance(k) >= FailTimeout
           /\ k > 0 => Allowance(k - 1) = Allowance(k) + FailTimeout
<1>1. FailTimeout \in Nat /\ Budget["signals"] \in Nat
  BY FailuresAssumption, BoundsAssumption DEF Budgeted
<1>2. PICK f \in Nat, m \in Nat : f = FailTimeout /\ m = Budget["signals"] - k
  BY <1>1
<1>3. f * (1 + m) \in Nat /\ f * (1 + m) >= f
  <2>1. f * m \in Nat /\ f * (1 + m) = f + f * m
    BY SMT
  <2> QED
    BY <2>1
<1>4. f * (1 + (m + 1)) = f * (1 + m) + f
  BY SMT
<1>5. 1 + Budget["signals"] - k = 1 + m
  BY <1>1, <1>2
<1>6. k > 0 => 1 + Budget["signals"] - (k - 1) = 1 + (m + 1)
  BY <1>1, <1>2
<1> QED
  BY <1>2, <1>3, <1>4, <1>5, <1>6 DEF Allowance

LEMMA SilenceTypes ==
    ASSUME ObservedInv
    PROVE  /\ left["signals"] \in Nat
           /\ idle \in Nat /\ busy \in Nat /\ busy <= idle
           /\ rounds \in 0..Rounds /\ empties \in 0..(EmptyEvery - 1)
           /\ okAge \in [Queue -> Nat] /\ FailTimeout \in Nat
BY MaxIdleType, FailuresAssumption
   DEF ObservedInv, ObservedOK, TypeInv, TypeOK, Budgeted

LEMMA SilenceInitial == ObservedInit => SilenceInv
<1> SUFFICES ASSUME ObservedInit PROVE SilenceInv
  OBVIOUS
<1>1. /\ left = Budget /\ idle = 0 /\ busy = 0 /\ okAge = [q \in Queue |-> 0]
      /\ Budget["signals"] \in Nat /\ FailTimeout \in Nat
  BY BoundsAssumption, FailuresAssumption DEF ObservedInit, Init, Budgeted
<1>2. Allowance(left["signals"]) \in Nat /\ Allowance(left["signals"]) >= FailTimeout
  BY <1>1, AllowanceGrows
<1> QED
  BY <1>1, <1>2 DEF SilenceInv, SilentSince, QuietRounds

(* A step that signals, or leaves everything but the budget alone. *)
LEMMA SilenceEnded ==
    ASSUME ObservedInv', SilenceInv, idle' = 0, busy' = 0, UNCHANGED left
    PROVE  SilenceInv'
<1>1. okAge' \in [Queue -> Nat] /\ left'["signals"] \in Nat /\ FailTimeout \in Nat
  BY FailuresAssumption DEF ObservedInv, TypeInv, TypeOK, Budgeted
<1>2. /\ Allowance(left'["signals"]) \in Nat
      /\ Allowance(left'["signals"]) >= FailTimeout
  BY <1>1, AllowanceGrows DEF SilenceInv
<1> QED
  BY <1>1, <1>2 DEF SilenceInv, SilentSince, QuietRounds

LEMMA SilenceKept ==
    ASSUME ObservedInv, SilenceInv, UNCHANGED <<idle, busy, rounds, empties, okAge>>,
           left'["signals"] = left["signals"] \/
               (left["signals"] > 0 /\ left'["signals"] = left["signals"] - 1)
    PROVE  SilenceInv'
<1>1. PICK k \in Nat : k = left["signals"] /\ k <= Budget["signals"]
  BY SilenceTypes DEF SilenceInv
<1>2. PICK k2 \in Nat : k2 = left'["signals"] /\ k2 <= k
  BY <1>1
<1>3. Allowance(k) \in Nat /\ Allowance(k2) \in Nat /\ Allowance(k) <= Allowance(k2)
  BY <1>1, <1>2, AllowanceGrows, FailuresAssumption
<1>4. Budget["signals"] \in Nat
  BY BoundsAssumption DEF Budgeted
<1> QED
  BY <1>1, <1>2, <1>3, <1>4, SilenceTypes DEF SilenceInv, SilentSince, QuietRounds

(* A round without a message and without a signal of activity is counted. *)
LEMMA SilentRound ==
    ASSUME ObservedInv, SilenceInv, RoundOver, SignalledIfDue, ObservedInv',
           empties' = (empties + 1) % EmptyEvery, UNCHANGED <<okAge, left>>
    PROVE  SilenceInv'
<1>1. CASE Signalled
  BY <1>1, SilenceEnded DEF Signalled
<1>2. CASE Silent /\ ~UpdateDue(processed', empties')
  <2>1. empties' # 0
    <3>1. 0 % EmptyEvery = 0
      BY SMT
    <3> QED
      BY <1>2, <3>1 DEF UpdateDue
  <2>2. empties' = empties + 1
    BY <2>1, EmptiesCounted DEF ObservedInv
  <2>3. rounds' \in Nat /\ rounds' <= rounds + 1
    BY SilenceTypes DEF RoundOver
  <2>4. rounds <= empties => rounds' <= empties'
    BY <2>2, <2>3, SilenceTypes
  <2> QED
    BY <1>2, <2>2, <2>3, <2>4, SilenceTypes DEF Silent, SilenceInv, SilentSince, QuietRounds
<1> QED
  BY <1>1, <1>2 DEF SignalledIfDue

(* Resetting the failures starts every timeout again at once. *)
LEMMA SilenceReset ==
    ASSUME ObservedInv, SilenceInv, LoopOutpacesTicks, ResetFailures, KeepObserved
    PROVE  SilenceInv'
<1>1. PICK k \in Nat : k = left["signals"] /\ k <= Budget["signals"] /\ k > 0
  BY SilenceTypes DEF SilenceInv, ResetFailures, Use
<1>2. left'["signals"] = k - 1
  BY <1>1 DEF ResetFailures, Use, ObservedInv, TypeInv, TypeOK, Budgeted
<1>3. /\ Allowance(k) \in Nat /\ Allowance(k) >= FailTimeout
      /\ Allowance(k - 1) = Allowance(k) + FailTimeout
  BY <1>1, AllowanceGrows
<1>4. \A q \in Queue : okAge'[q] = 0 \/ okAge'[q] = okAge[q]
  BY DEF ResetFailures
<1>5. UNCHANGED <<idle, busy, rounds, empties>>
  BY DEF KeepObserved, observed
<1>6. Budget["signals"] \in Nat
  BY BoundsAssumption DEF Budgeted
<1>7. SilentSince'
  <2> SUFFICES ASSUME NEW q \in Queue, okAge'[q] < FailTimeout
               PROVE  (idle - busy) + FailTimeout <= Allowance(k - 1) + okAge'[q]
    BY <1>1, <1>2, <1>5 DEF SilentSince
  <2>1. idle - busy <= Allowance(k)
    BY <1>1 DEF SilenceInv
  <2>2. CASE okAge'[q] = 0
    BY <1>3, <2>1, <2>2, SilenceTypes
  <2>3. CASE okAge'[q] = okAge[q]
    <3>1. (idle - busy) + FailTimeout <= Allowance(k) + okAge[q]
      BY <1>1, <2>3 DEF SilenceInv, SilentSince
    <3> QED
      BY <1>3, <2>3, <3>1, SilenceTypes
  <2> QED
    BY <1>4, <2>2, <2>3
<1>8. QuietRounds'
  BY <1>4, <1>5 DEF QuietRounds, SilenceInv, LoopOutpacesTicks
<1>9. idle - busy <= Allowance(k - 1)
  BY <1>1, <1>3, SilenceTypes DEF SilenceInv
<1> QED
  BY <1>1, <1>2, <1>5, <1>6, <1>7, <1>8, <1>9 DEF SilenceInv

(* A tick in a job is time in the job; another one needs the rounds, which
   cannot all have been silent polls. *)
LEMMA SilenceTicks ==
    ASSUME ObservedInv, SilenceInv, LoopOutpacesTicks, TickObserved, ObservedInv'
    PROVE  SilenceInv'
<1>1. PICK k \in Nat : k = left["signals"] /\ k <= Budget["signals"]
  BY SilenceTypes DEF SilenceInv
<1>2. /\ UNCHANGED <<pc, empties, left>> /\ rounds' = 0
      /\ idle' = Older(idle, MaxIdle)
      /\ busy' = IF pc = "task" THEN Older(busy, MaxIdle) ELSE busy
      /\ \A q \in Queue : okAge'[q] = Older(okAge[q], FailTimeout)
  BY DEF TickObserved, Tick, control, Aging
<1>3. PICK a \in Nat : a = Allowance(k) /\ a >= FailTimeout
  BY <1>1, AllowanceGrows
<1>4. idle \in 0..MaxIdle /\ busy \in 0..idle /\ MaxIdle \in Nat
  BY MaxIdleType DEF ObservedInv, ObservedOK
<1>5. QuietRounds' /\ left'["signals"] <= Budget["signals"]
  BY <1>1, <1>2, SilenceTypes DEF QuietRounds
<1>6. idle' \in Nat /\ busy' \in Nat /\ idle' - busy' <= (idle - busy) + 1
  BY <1>2, <1>4 DEF Older
<1>7. PICK u \in Nat, u2 \in Nat : u = idle - busy /\ u2 = idle' - busy'
  <2>1. busy' <= idle'
    BY MaxIdleType DEF ObservedInv, ObservedOK
  <2>2. \A m, n \in Nat : n <= m => m - n \in Nat
    OBVIOUS
  <2>3. idle - busy \in Nat /\ idle' - busy' \in Nat
    BY <1>6, <2>1, <2>2, SilenceTypes
  <2> QED
    BY <2>3, Zenon
<1>8. u2 <= u + 1 /\ u <= a /\ FailTimeout \in Nat
  BY <1>1, <1>3, <1>6, <1>7, FailuresAssumption DEF SilenceInv
<1>9. \A q \in Queue : okAge'[q] < FailTimeout =>
          okAge[q] < FailTimeout /\ okAge'[q] = okAge[q] + 1
  BY <1>2, SilenceTypes DEF Older
<1>10. SilentSince'
  <2> SUFFICES ASSUME NEW q \in Queue, okAge'[q] < FailTimeout
               PROVE  u2 + FailTimeout <= a + okAge'[q]
    BY <1>1, <1>2, <1>3, <1>7 DEF SilentSince
  <2>1. u + FailTimeout <= a + okAge[q]
    BY <1>1, <1>3, <1>9, <1>7 DEF SilenceInv, SilentSince
  <2>2. okAge'[q] = okAge[q] + 1 /\ okAge[q] \in Nat
    BY <1>9, SilenceTypes
  <2> QED
    BY <1>3, <1>7, <1>8, <2>1, <2>2
<1>11. u2 <= a
  <2>1. CASE pc = "task"
    <3>1. u2 <= u
      BY <1>2, <1>4, <1>7, <2>1 DEF Older
    <3> QED
      BY <1>3, <1>7, <1>8, <3>1
  <2>2. CASE pc # "task"
    <3>1. rounds = Rounds /\ ~(rounds <= empties)
      BY <2>2, SilenceTypes DEF TickObserved, LoopOutpacesTicks
    <3>2. CASE idle = busy
      <4>1. u = 0
        BY <1>4, <1>7, <3>2
      <4>2. FailTimeout > 0
        BY DEF LoopOutpacesTicks
      <4> QED
        BY <1>3, <1>7, <1>8, <4>1, <4>2
    <3>3. CASE \E q \in Queue : okAge[q] < FailTimeout
      <4>1. PICK q \in Queue : okAge[q] < FailTimeout
        BY <3>3
      <4>2. u + FailTimeout <= a + okAge[q]
        BY <1>1, <1>3, <1>7, <4>1 DEF SilenceInv, SilentSince
      <4>3. okAge[q] \in Nat
        BY SilenceTypes
      <4> QED
        BY <1>3, <1>7, <1>8, <4>1, <4>2, <4>3
    <3> QED
      BY <3>1, <3>2, <3>3 DEF SilenceInv, QuietRounds
  <2> QED
    BY <2>1, <2>2
<1> QED
  BY <1>1, <1>2, <1>3, <1>5, <1>10, <1>11, <1>7 DEF SilenceInv

LEMMA SilenceStep ==
    ASSUME LoopOutpacesTicks, ObservedInv, SilenceInv, [ObservedNext]_allVars
    PROVE  SilenceInv'
<1>1. ObservedInv'
  BY ObservedStep
<1>2. CASE RoundStarts \/ ThreadsExit \/ Quietly \/ Kill \/ ThreadEnds \/ UNCHANGED allVars
  <2>1. UNCHANGED <<idle, busy, rounds, empties, okAge>>
    BY <1>2 DEF RoundStarts, ThreadsExit, Quietly, Kill, ThreadEnds, KeepObserved, observed,
                allVars, vars, ContinueLoop, StopCheckFails, LoopExits, ResourceExits,
                SelectNextQueue, RefreshSignaling, SignalingFails, PollTakes, health
  <2>2. left'["signals"] = left["signals"]
    BY <1>2 DEF RoundStarts, ThreadsExit, Quietly, Kill, ThreadEnds,
                allVars, vars, ContinueLoop, StopCheckFails, LoopExits, ResourceExits,
                SelectNextQueue, RefreshSignaling, SignalingFails, PollTakes, Use,
                ObservedInv, TypeInv, TypeOK, Budgeted
  <2> QED
    BY <2>1, <2>2, SilenceKept
<1>3. CASE Outside
  <2>1. CASE ResetFailures /\ KeepObserved
    BY <2>1, SilenceReset
  <2>2. CASE /\ \/ Terminate \/ StatusSummary \/ FatalError
                \/ SetParameter(TRUE) \/ SetParameter(FALSE)
             /\ KeepObserved
    <3>1. UNCHANGED <<idle, busy, rounds, empties, okAge>>
      BY <2>2 DEF Terminate, StatusSummary, FatalError, SetParameter, KeepObserved, observed,
                  health
    <3>2. left'["signals"] = left["signals"] \/
              (left["signals"] > 0 /\ left'["signals"] = left["signals"] - 1)
      BY <2>2 DEF Terminate, StatusSummary, FatalError, SetParameter, Use, ObservedInv,
                  TypeInv, TypeOK, Budgeted
    <3> QED
      BY <3>1, <3>2, SilenceKept
  <2> QED
    BY <1>3, <2>1, <2>2 DEF Outside
<1>4. CASE Resting
  <2>1. UNCHANGED <<idle, busy, empties, okAge, left>>
    BY <1>4 DEF Resting, NoHealthyQueue, observed, health
  <2>2. \E q \in Queue : okAge[q] < FailTimeout
    <3>1. 0 \in Queue /\ ~Healthy(0)
      BY <1>4, QueuesAssumption DEF Resting, NoHealthyQueue, Queue
    <3>2. okAge[0] < FailTimeout
      BY <3>1, SilenceTypes, FailuresAssumption
         DEF Healthy, CooledDown, ObservedInv, TypeInv, TypeOK
    <3> QED
      BY <3>1, <3>2
  <2> QED
    BY <2>1, <2>2 DEF SilenceInv, SilentSince, QuietRounds
<1>5. CASE FoundEmpty \/ JobProcessed \/ RestartObserved
  <2>1. idle' = 0 /\ busy' = 0 /\ UNCHANGED left
    BY <1>5 DEF FoundEmpty, JobProcessed, RestartObserved, Signalled, PollEmpty,
                TaskProcessed, Restart
  <2> QED
    BY <1>1, <2>1, SilenceEnded
<1>6. CASE FoundGone \/ JobFailed
  <2>1. /\ RoundOver /\ SignalledIfDue /\ empties' = (empties + 1) % EmptyEvery
        /\ UNCHANGED <<okAge, left>>
    BY <1>6 DEF FoundGone, JobFailed, PollGone, TaskFailed
  <2> QED
    BY <1>1, <2>1, SilentRound
<1>7. CASE TickObserved
  BY <1>1, <1>7, SilenceTicks
<1> QED
  BY <1>2, <1>3, <1>4, <1>5, <1>6, <1>7 DEF ObservedNext, ObservedLoop

(* A worker is killed for what it does in jobs only, if a queue rests for some
   time and the metrics are due within the rounds of a tick: whatever its
   queues, checks, signals and restarts do, it is not silent outside of jobs
   for longer than the health timeout, plus that for every reset. *)
THEOREM NeverKilledForResting ==
    ASSUME LoopOutpacesTicks
    PROVE  ObservedSpec => []KilledForJobsOnly
<1>1. ObservedInit => ObservedInv /\ SilenceInv
  BY ObservedInitial, SilenceInitial
<1>2. ObservedInv /\ SilenceInv /\ [ObservedNext]_allVars => (ObservedInv /\ SilenceInv)'
  BY ObservedStep, SilenceStep
<1>3. SilenceInv => KilledForJobsOnly
  BY DEF SilenceInv, KilledForJobsOnly, Silence, Allowance
<1> QED
  BY <1>1, <1>2, <1>3, PTL DEF ObservedSpec

-----------------------------------------------------------------------------
(* What the loop promises by itself, it promises under its supervisor too. *)

LEMMA PromisesEnd == TypeOK /\ LoopInv /\ Ends => LoopInv'
<1> SUFFICES ASSUME TypeOK, LoopInv, Ends
             PROVE  LoopInv'
  OBVIOUS
<1>1. pc' = "exit" /\ UNCHANGED <<shouldStop, processed, index, cached, param, left, seen, late,
                                  born, taken, gap>>
  BY DEF Ends, caches, history
<1>2. StopInv' /\ BoundInv' /\ BornInv'
  BY <1>1 DEF LoopInv, StopInv, BoundInv, BornInv, NoFailedCheck
<1>3. SeenInv'
  <2>1. Unread(pc', processed') = 0 /\ Unread(pc, processed) \in Nat /\ late \in Nat
    BY <1>1, UnreadType DEF Unread, TypeOK
  <2>2. Allowed(left["checks"]) \in Nat
    <3>1. PICK f \in Nat : f = Budget["checks"] - left["checks"]
      BY BoundsAssumption DEF LoopInv, BoundInv, TypeOK, Budgeted
    <3> QED
      BY <3>1, CheckAssumption DEF Allowed
  <2>3. late <= Allowed(left["checks"])
    BY <2>1, <2>2 DEF LoopInv, SeenInv
  <2> QED
    BY <1>1, <2>1, <2>3 DEF LoopInv, SeenInv, TypeOK
<1>4. GapInv'
  BY <1>1 DEF LoopInv, GapInv
<1> QED
  BY <1>2, <1>3, <1>4 DEF LoopInv

(* Under a probe that fails, a supervisor that kills it anywhere, a limit on the
   threads its jobs leak, and any number of restarts, the loop keeps what it
   promises: it takes one message at most after a signal, none if it was started
   with the stop parameter set, a bounded number once it has seen it, and passes no
   healthy queue over for longer than a round. *)
THEOREM PromisesKept ==
    ObservedSpec => [](GracefulStop /\ BornStopped /\ StopsWithinTen /\ NoHealthyQueueStarved)
<1>1. ObservedInit => TypeInv /\ LoopInv
  BY TypeInit, LoopInitial DEF ObservedInit, TypeInv
<1>2. TypeInv /\ LoopInv /\ [ObservedNext]_allVars => TypeInv' /\ LoopInv'
  BY LoopTyped, LoopOrEnd, LoopKept, PromisesEnd DEF TypeInv
<1>3. TypeInv /\ LoopInv => GracefulStop /\ BornStopped /\ StopsWithinTen /\ NoHealthyQueueStarved
  BY LoopPromises DEF TypeInv
<1> QED
  BY <1>1, <1>2, <1>3, PTL DEF ObservedSpec
=============================================================================

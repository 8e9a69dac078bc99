----------------------------- MODULE Supervision -----------------------------
(***************************************************************************)
(* A standalone worker as its supervisor sees it: the loop of WorkerLoop,  *)
(* composed with the liveness probe (/livez), which fails once the loop    *)
(* gave no sign of activity for Window, with the supervisor that kills and *)
(* starts the process again, and with the limit on leaked threads.         *)
(*                                                                         *)
(* A sign of activity is given for an empty poll, a processed message and  *)
(* an update of the metrics; none is given during a job, after a failed    *)
(* poll, or while no queue is healthy.                                     *)
(*                                                                         *)
(* A tick is long compared with one round of the loop: Rounds of them at   *)
(* least fit between two ticks, unless a job is running.                   *)
(***************************************************************************)
EXTENDS WorkerLoop

CONSTANTS
    Window,        (* silence after which /livez fails: 300 s                *)
    Patience,      (* how long it fails before the supervisor kills          *)
    UpdateEvery,   (* metrics are updated every that many messages: 10 ...   *)
    EmptyEvery,    (* ... and that many polls without a message: 50          *)
    Rounds,        (* rounds of the loop between two ticks                   *)
    MaxDelta,      (* max_thread_delta, 0 for no limit                       *)
    Leak           (* threads one job leaks at most                          *)

ASSUME WindowAssumption == Window \in Nat \ {0} /\ Patience \in Nat
ASSUME UpdateAssumption == UpdateEvery \in Nat \ {0} /\ EmptyEvery \in Nat \ {0}
ASSUME RoundsAssumption == Rounds \in Nat \ {0}
ASSUME ThreadsAssumption == MaxDelta \in Nat /\ Leak \in Nat

VARIABLES
    empties,   (* consecutive_empty_polls, modulo EmptyEvery                 *)
    idle,      (* time since last_activity                                   *)
    busy,      (* how much of it was spent in jobs                           *)
    rounds,    (* rounds of the loop since the last tick                     *)
    threads    (* OS threads above the baseline                              *)

observed == <<empties, idle, busy, threads>>
allVars == <<vars, observed, rounds>>

-----------------------------------------------------------------------------
(* The heartbeat. *)

UpdateDue(n, polls) == n % UpdateEvery = 0 \/ polls % EmptyEvery = 0

SignalledInJob == idle' = 0 /\ UNCHANGED busy

Signalled == idle' = 0 /\ busy' = 0

Silent == UNCHANGED <<idle, busy>>

(* A round without a message: the metrics may be due. *)
SignalledIfDue == IF UpdateDue(processed', empties') THEN Signalled ELSE Silent

RoundOver == rounds' = IF rounds < Rounds THEN rounds + 1 ELSE rounds

KeepObserved == UNCHANGED <<observed, rounds>>

-----------------------------------------------------------------------------
(* The threads. *)

WithinLoosely == MaxDelta = 0 \/ threads <= MaxDelta + 1

(* check_threads: against the baseline, by the current count. *)
WithinThreadLimit == MaxDelta = 0 \/ threads <= MaxDelta

(* The process ends itself, to be started again with a clean baseline. *)
ThreadsExit ==
    /\ pc = "top"
    /\ ~StopAsked /\ ~LimitReached
    /\ ~WithinThreadLimit
    /\ pc' = "exit"
    /\ UNCHANGED <<shouldStop, processed, index, cur, health, caches, param, left, history>>
    /\ KeepObserved

JobLeaks == \E n \in 0..Leak : threads' = threads + n

(* A leaked thread ends by itself. *)
ThreadEnds ==
    /\ threads > 0
    /\ pc # "exit"
    /\ threads' = threads - 1
    /\ UNCHANGED <<vars, empties, idle, busy, rounds>>

-----------------------------------------------------------------------------
(* The steps of the loop, with what they signal. *)

RoundStarts ==
    /\ WithinThreadLimit
    /\ ContinueLoop \/ StopCheckFails
    /\ KeepObserved

Resting ==
    /\ NoHealthyQueue
    /\ RoundOver
    /\ UNCHANGED observed

Quietly ==
    /\ \/ LoopExits \/ ResourceExits \/ SelectNextQueue \/ RefreshSignaling
       \/ SignalingFails \/ PollTakes
    /\ KeepObserved

FoundEmpty ==
    /\ PollEmpty
    /\ empties' = (empties + 1) % EmptyEvery
    /\ Signalled
    /\ RoundOver
    /\ UNCHANGED threads

FoundGone ==
    /\ PollGone
    /\ empties' = (empties + 1) % EmptyEvery
    /\ SignalledIfDue
    /\ RoundOver
    /\ UNCHANGED threads

JobFailed ==
    /\ TaskFailed
    /\ empties' = (empties + 1) % EmptyEvery
    /\ SignalledIfDue
    /\ RoundOver
    /\ JobLeaks

JobProcessed ==
    /\ TaskProcessed
    /\ empties' = 0
    /\ Signalled
    /\ RoundOver
    /\ JobLeaks

-----------------------------------------------------------------------------
(* Around the loop. *)

Outside ==
    /\ \/ Terminate \/ ResetFailures \/ StatusSummary \/ FatalError
       \/ SetParameter(TRUE) \/ SetParameter(FALSE)
    /\ KeepObserved

MaxIdle == Window + Patience

HeardAlways == idle' = 0

Aging == idle' = Older(idle, MaxIdle)

(* Time passes in a job, or after enough rounds of the loop. *)
TickObserved ==
    /\ pc = "task" \/ (pc # "exit" /\ rounds = Rounds)
    /\ Tick
    /\ rounds' = 0
    /\ Aging
    /\ busy' = IF pc = "task" THEN Older(busy, MaxIdle) ELSE busy
    /\ UNCHANGED <<empties, threads>>

(* The supervisor kills a process whose probe failed long enough. *)
Kill ==
    /\ idle >= MaxIdle
    /\ pc # "exit"
    /\ pc' = "exit"
    /\ UNCHANGED <<shouldStop, processed, index, cur, health, caches, param, left, history>>
    /\ KeepObserved

RestartObserved ==
    /\ Restart
    /\ empties' = 0
    /\ Signalled
    /\ rounds' = 0
    /\ threads' = 0

ObservedInit ==
    /\ Init
    /\ empties = 0
    /\ idle = 0
    /\ busy = 0
    /\ rounds = 0
    /\ threads = 0

(* Everything but the end of a job, which nothing guarantees. *)
ObservedLoop ==
    \/ RoundStarts
    \/ ThreadsExit
    \/ Resting
    \/ Quietly
    \/ FoundEmpty
    \/ FoundGone

ObservedNext ==
    \/ ObservedLoop
    \/ JobFailed
    \/ JobProcessed
    \/ ThreadEnds
    \/ Outside
    \/ TickObserved
    \/ Kill
    \/ RestartObserved

(* The loop goes on but for its jobs, time passes, and the supervisor acts. *)
ObservedFairness ==
    /\ WF_allVars(ObservedLoop)
    /\ WF_allVars(TickObserved)
    /\ WF_allVars(Kill)
    /\ WF_allVars(RestartObserved)

ObservedSpec == ObservedInit /\ [][ObservedNext]_allVars /\ ObservedFairness

-----------------------------------------------------------------------------
(* Properties. *)

(* How long a worker may be silent outside of jobs: until its queues are
   tried again, once more for every reset of their failures. *)
Silence == FailTimeout * (1 + Budget["signals"] - left["signals"])

(* The variables of the loop and of the composition keep the values the code
   gives them.  A worker takes no message with more leaked threads than its
   limit, so what a process leaks is bounded by the limit and one job. *)
TypeObserved ==
    /\ TypeOK
    /\ empties \in 0..(EmptyEvery - 1)
    /\ idle \in 0..MaxIdle
    /\ busy \in 0..idle
    /\ rounds \in 0..Rounds
    /\ threads \in Nat
    /\ MaxDelta > 0 => threads <= MaxDelta + Leak

(* A worker is killed for what it does in jobs only: resting while its queues
   are unhealthy, polling queues that fail, checks that raise and restarts
   never silence it for longer than the health timeout. *)
KilledForJobsOnly == idle - busy <= Silence

(* A worker that is processing a message is alive to its probe. *)
BusyIsAlive == pc = "task" => idle < Window

(* A job that hangs, queues that keep failing, and a process that dies never
   stop the polling for good, unless the stop parameter is set. *)
PollsAgain == []<>(pc = "poll" \/ param)
=============================================================================

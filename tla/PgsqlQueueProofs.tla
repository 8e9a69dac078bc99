-------------------------- MODULE PgsqlQueueProofs --------------------------
(***************************************************************************)
(* Proofs about PgsqlQueue, for every set of messages and workers, every   *)
(* grouping and every bound.                                               *)
(***************************************************************************)
EXTENDS PgsqlQueue, TLAPS

USE DEF NoMsg

(* A worker that is not idle works on a message. *)
LEMMA HolderHasMessage ==
    ASSUME TypeOK, NEW w \in Worker, pc[w] # "idle"
    PROVE  cur[w] \in Msg
BY DEF TypeOK

(* Leaving keeps the worker variables well typed. *)
LEMMA LeaveType ==
    ASSUME TypeOK, NEW w \in Worker, Leave(w)
    PROVE  /\ pc' \in [Worker -> {"idle", "got", "running", "ran"}]
           /\ cur' \in [Worker -> Msg \cup {NoMsg}]
           /\ out' \in [Worker -> ResultStates \cup {"none"}]
           /\ row' \in [Worker -> 0..MaxRuns]
           /\ \A v \in Worker : /\ pc'[v] = "idle" <=> cur'[v] = NoMsg
                                /\ pc'[v] = "ran" <=> out'[v] # "none"
                                /\ pc'[v] \in {"running", "ran"} <=> row'[v] # 0
BY BoundAssumption DEF TypeOK, Leave

LEMMA TouchedType ==
    ASSUME TypeOK, NEW S
    PROVE  Touched(S) \in [Worker -> {"none", "fresh", "stale"}]
BY DEF TypeOK, Touched

LEMMA TypeInit == Init => TypeOK
BY BoundAssumption, MsgAssumption
   DEF Init, TypeOK, RowState, ProcState, VisibleState, ResultStates

LEMMA TypeWorker ==
    ASSUME TypeOK, NEW w \in Worker, WorkerStep(w)
    PROVE  TypeOK'
<1>1. ASSUME NEW m \in Msg, Eligible(m), Take(w, m)
      PROVE  TypeOK'
  <2>1. m # NoMsg
    BY MsgAssumption
  <2>2. state' \in [Msg -> RowState] /\ started' \in [Msg -> BOOLEAN]
    BY <1>1 DEF TypeOK, Take, RowState, VisibleState
  <2>3. /\ pc' \in [Worker -> {"idle", "got", "running", "ran"}]
        /\ cur' \in [Worker -> Msg \cup {NoMsg}]
    BY <1>1 DEF TypeOK, Take
  <2>4. snap' \in [Worker -> {"none", "fresh", "stale"}]
    BY <1>1, TouchedType DEF Take
  <2>5. \A v \in Worker : /\ pc'[v] = "idle" <=> cur'[v] = NoMsg
                          /\ pc'[v] = "ran" <=> out'[v] # "none"
                          /\ pc'[v] \in {"running", "ran"} <=> row'[v] # 0
    BY <1>1, <2>1 DEF TypeOK, Take
  <2> QED
    BY <1>1, <2>2, <2>3, <2>4, <2>5 DEF TypeOK, Take
<1>2. CASE GetMessageStd(w)
  BY <1>1, <1>2 DEF GetMessageStd
<1>3. CASE GetMessageFifo(w)
  BY <1>1, <1>3 DEF GetMessageFifo
<1>4. CASE GetTarget(w)
  BY <1>1, <1>4 DEF GetTarget
<1>5. CASE Store(w)
  <2> DEFINE m == cur[w]
  <2>1. m \in Msg
    BY <1>5, HolderHasMessage DEF Store
  <2>2. ProcessingRows(m) \in [1..MaxRuns -> ProcState]
    <3>1. state[m] \in ProcState /\ "reset" \in ProcState
      BY <1>5 DEF Store, Visible, ProcState, VisibleState
    <3>2. \A k \in 1..MaxRuns : proc[m][k] \in ProcState
      BY <2>1 DEF TypeOK
    <3> QED
      BY <3>1, <3>2 DEF ProcessingRows
  <2>3. runs[m] + 1 \in 1..MaxRuns
    <3>1. runs[m] \in 0..MaxRuns /\ runs[m] < MaxRuns
      BY <1>5, <2>1 DEF Store, TypeOK
    <3> QED
      BY <3>1, BoundAssumption
  <2>4. /\ attempt' \in [Msg -> Nat]
        /\ maxAtt' \in [Msg -> Nat]
        /\ vis' \in [Msg -> {"none", "live", "over"}]
    <3>1. attempt' = [attempt EXCEPT ![m] = attempt[m] + 1]
      BY <1>5 DEF Store
    <3>2. attempt[m] + 1 \in Nat /\ attempt \in [Msg -> Nat]
      BY <2>1 DEF TypeOK
    <3>3. attempt' \in [Msg -> Nat]
      BY <3>1, <3>2
    <3>4. maxAtt' \in [Msg -> Nat] /\ vis' \in [Msg -> {"none", "live", "over"}]
      BY <1>5, MaxAttemptAssumption DEF Store, TypeOK, Deadline
    <3> QED
      BY <3>3, <3>4
  <2>5. /\ runs' \in [Msg -> 0..MaxRuns]
        /\ proc' \in [Msg -> [1..MaxRuns -> ProcState]]
        /\ row' \in [Worker -> 0..MaxRuns]
    <3>1. /\ runs' = [runs EXCEPT ![m] = runs[m] + 1]
          /\ proc' = [proc EXCEPT ![m] = ProcessingRows(m)]
          /\ row' = [row EXCEPT ![w] = runs[m] + 1]
      BY <1>5 DEF Store
    <3>2. runs[m] + 1 \in 0..MaxRuns
      BY <2>3, BoundAssumption
    <3> QED
      BY <2>2, <3>1, <3>2 DEF TypeOK
  <2>6. snap' \in [Worker -> {"none", "fresh", "stale"}]
    BY <1>5, TouchedType DEF Store
  <2>7. \A v \in Worker : /\ pc'[v] = "idle" <=> cur'[v] = NoMsg
                          /\ pc'[v] = "ran" <=> out'[v] # "none"
                          /\ pc'[v] \in {"running", "ran"} <=> row'[v] # 0
    <3>1. runs[m] + 1 # 0
      BY <2>3, BoundAssumption
    <3> QED
      BY <1>5, <3>1 DEF Store, TypeOK
  <2> QED
    BY <1>5, <2>4, <2>5, <2>6, <2>7 DEF Store, TypeOK
<1>6. CASE StoreConflict(w) \/ StoreRaises(w) \/ RecordRefused(w) \/ Crash(w)
  <2>1. /\ Leave(w)
        /\ snap' = [snap EXCEPT ![w] = "none"]
        /\ UNCHANGED <<rowVars, effects, budget>>
    BY <1>6 DEF StoreConflict, StoreRaises, RecordRefused, Crash
  <2> QED
    BY <2>1, LeaveType DEF TypeOK, rowVars
<1>7. CASE StoreMarksFailed(w)
  <2> DEFINE m == cur[w]
  <2>1. m \in Msg
    BY <1>7, HolderHasMessage DEF StoreMarksFailed
  <2>2. /\ attempt' \in [Msg -> Nat]
        /\ maxAtt' \in [Msg -> Nat]
        /\ vis' \in [Msg -> {"none", "live", "over"}]
        /\ state' \in [Msg -> RowState]
        /\ ended' \in [Msg -> BOOLEAN]
    <3>1. PICK n \in {0, 1} : attempt' = [attempt EXCEPT ![m] = attempt[m] + n]
      BY <1>7 DEF StoreMarksFailed
    <3>2. attempt[m] + n \in Nat /\ attempt \in [Msg -> Nat]
      BY <2>1 DEF TypeOK
    <3>3. attempt' \in [Msg -> Nat]
      BY <3>1, <3>2
    <3>4. /\ maxAtt' \in [Msg -> Nat]
          /\ vis' \in [Msg -> {"none", "live", "over"}]
      BY <1>7, MaxAttemptAssumption DEF StoreMarksFailed, TypeOK, Deadline
    <3>5. state' \in [Msg -> RowState] /\ ended' \in [Msg -> BOOLEAN]
      BY <1>7 DEF StoreMarksFailed, TypeOK, RowState, VisibleState
    <3> QED
      BY <3>3, <3>4, <3>5
  <2>3. snap' \in [Worker -> {"none", "fresh", "stale"}]
    BY <1>7, TouchedType DEF StoreMarksFailed
  <2> QED
    BY <1>7, <2>2, <2>3, LeaveType DEF StoreMarksFailed, TypeOK
<1>8. CASE LogCommit(w)
  BY <1>8 DEF LogCommit, TypeOK, rowVars
<1>9. CASE Run(w)
  <2> DEFINE m == cur[w]
  <2>1. m \in Msg
    BY <1>9, HolderHasMessage DEF Run
  <2>2. PICK o \in Outcome :
          /\ out' = [out EXCEPT ![w] = ResultState(o, m)]
          /\ effects' = [effects EXCEPT ![m] = IF CommitsJob(o) THEN @ + 1 ELSE @]
    BY <1>9 DEF Run
  <2>3. ResultState(o, m) \in ResultStates
    BY DEF ResultState, ResultStates
  <2>4. effects' \in [Msg -> Nat]
    <3>1. effects[m] + 1 \in Nat /\ effects[m] \in Nat /\ effects \in [Msg -> Nat]
      BY <2>1 DEF TypeOK
    <3> QED
      BY <2>2, <3>1
  <2>5. /\ pc' \in [Worker -> {"idle", "got", "running", "ran"}]
        /\ out' \in [Worker -> ResultStates \cup {"none"}]
        /\ \A v \in Worker : /\ pc'[v] = "idle" <=> cur'[v] = NoMsg
                             /\ pc'[v] = "ran" <=> out'[v] # "none"
                             /\ pc'[v] \in {"running", "ran"} <=> row'[v] # 0
    BY <1>9, <2>2, <2>3 DEF Run, TypeOK, ResultStates
  <2>6. snap' \in [Worker -> {"none", "fresh", "stale"}]
    BY <1>9 DEF Run, TypeOK
  <2> QED
    BY <1>9, <2>4, <2>5, <2>6 DEF Run, TypeOK, rowVars
<1>10. CASE Record(w)
  <2> DEFINE m == cur[w]
  <2>1. m \in Msg /\ row[w] \in 1..MaxRuns
    BY <1>10, HolderHasMessage DEF Record, TypeOK
  <2>2. out[w] \in VisibleState
    BY <1>10 DEF Record, TypeOK, ResultStates, VisibleState
  <2>3. proc' \in [Msg -> [1..MaxRuns -> ProcState]]
    BY <1>10, <2>1, <2>2 DEF Record, TypeOK, ProcessingResult, ProcState
  <2>4. /\ state' \in [Msg -> RowState]
        /\ ended' \in [Msg -> BOOLEAN]
        /\ planned' \in [Msg -> {"none", "future", "past"}]
    BY <1>10, <2>1, <2>2 DEF Record, TypeOK, RowState
  <2>5. snap' \in [Worker -> {"none", "fresh", "stale"}]
    BY <1>10, TouchedType DEF Record
  <2> QED
    BY <1>10, <2>3, <2>4, <2>5, LeaveType DEF Record, TypeOK
<1>11. CASE RecordOperational(w)
  <2>1. cur[w] \in Msg
    BY <1>11, HolderHasMessage DEF RecordOperational
  <2>2. state' \in [Msg -> RowState] /\ ended' \in [Msg -> BOOLEAN]
    BY <1>11, <2>1 DEF RecordOperational, TypeOK, RowState, VisibleState
  <2>3. snap' \in [Worker -> {"none", "fresh", "stale"}]
    BY <1>11, TouchedType DEF RecordOperational
  <2> QED
    BY <1>11, <2>2, <2>3, LeaveType DEF RecordOperational, TypeOK
<1> QED
  BY <1>2, <1>3, <1>4, <1>5, <1>6, <1>7, <1>8, <1>9, <1>10, <1>11 DEF WorkerStep

LEMMA TypeMessage ==
    ASSUME TypeOK, NEW m \in Msg, MessageStep(m)
    PROVE  TypeOK'
<1> USE DEF RowState, VisibleState
<1>1. CASE SendMessage(m)
  BY <1>1 DEF SendMessage, TypeOK
<1>2. CASE EnqueueCommit(m)
  BY <1>2 DEF EnqueueCommit, TypeOK
<1>3. CASE EnqueueRollback(m)
  BY <1>3 DEF EnqueueRollback, TypeOK
<1>4. CASE Expire(m)
  BY <1>4 DEF Expire, TypeOK, workerVars
<1>5. CASE PlanDue(m)
  BY <1>5 DEF PlanDue, TypeOK, workerVars
<1>6. ASSUME Requeue(m)
      PROVE  TypeOK'
  <2>1. budget' \in 0..Retries /\ maxAtt' \in [Msg -> Nat]
    BY <1>6, BoundAssumption DEF Requeue, TypeOK
  <2> QED
    BY <1>6, <2>1, TouchedType DEF Requeue, TypeOK
<1>7. CASE RetryProcessing(m) \/ RetryRecovery(m)
  BY <1>6, <1>7 DEF RetryProcessing, RetryRecovery
<1>8. CASE Archive(m)
  BY <1>8, TouchedType DEF Archive, TypeOK
<1>9. CASE Cancel(m)
  BY <1>9, TouchedType DEF Cancel, TypeOK
<1> QED
  BY <1>1, <1>2, <1>3, <1>4, <1>5, <1>7, <1>8, <1>9 DEF MessageStep

LEMMA TypeStep == TypeOK /\ [Next]_vars => TypeOK'
<1> SUFFICES ASSUME TypeOK, [Next]_vars
             PROVE  TypeOK'
  OBVIOUS
<1>1. CASE \E w \in Worker : WorkerStep(w)
  BY <1>1, TypeWorker
<1>2. CASE \E m \in Msg : MessageStep(m)
  BY <1>2, TypeMessage
<1>3. CASE VisibilityDaemon
  <2>1. state' \in [Msg -> RowState] /\ vis' \in [Msg -> {"none", "live", "over"}]
    BY <1>3 DEF VisibilityDaemon, AfterTimeout, TypeOK, RowState, VisibleState
  <2> QED
    BY <1>3, <2>1, TouchedType DEF VisibilityDaemon, TypeOK
<1>4. CASE Purge
  <2>1. PICK old \in SUBSET Msg :
          /\ state' = [m \in Msg |-> IF m \in old /\ Purgeable(m) THEN "gone"
                                     ELSE state[m]]
          /\ snap' = Touched({m \in old : Purgeable(m)})
    BY <1>4 DEF Purge
  <2>2. state' \in [Msg -> RowState]
    BY <2>1 DEF TypeOK, RowState
  <2> QED
    BY <1>4, <2>1, <2>2, TouchedType DEF Purge, TypeOK
<1>5. CASE UNCHANGED vars
  BY <1>5 DEF vars, TypeOK
<1> QED
  BY <1>1, <1>2, <1>3, <1>4, <1>5 DEF Next

(* Every column keeps to the values of its type, an idle worker holds no
   message and no result, whatever the environment does. *)
THEOREM TypeCorrect == Spec => []TypeOK
BY TypeInit, TypeStep, PTL DEF Spec

-----------------------------------------------------------------------------
(* A message in wip without a deadline is held by a worker that has just
   taken it and whose snapshot no other commit has overtaken. *)
WipHasFreshHolder ==
    \A m \in Msg : state[m] = "wip" /\ vis[m] = "none" =>
        \E w \in Worker : pc[w] = "got" /\ cur[w] = m /\ snap[w] = "fresh"

(* A commit on other rows leaves a snapshot as it is. *)
LEMMA Untouched ==
    ASSUME NEW S, NEW v \in Worker, cur[v] \notin S
    PROVE  Touched(S)[v] = snap[v]
BY DEF Touched

(* A step that keeps the holder of every message left in wip without a
   deadline keeps WipHasFreshHolder. *)
LEMMA FreshHolderKept ==
    ASSUME WipHasFreshHolder,
           \A m \in Msg : state'[m] = "wip" /\ vis'[m] = "none" =>
               /\ state[m] = "wip" /\ vis[m] = "none"
               /\ \A v \in Worker : pc[v] = "got" /\ cur[v] = m /\ snap[v] = "fresh"
                     => pc'[v] = "got" /\ cur'[v] = m /\ snap'[v] = "fresh"
    PROVE  WipHasFreshHolder'
BY DEF WipHasFreshHolder

LEMMA FreshHolderWorker ==
    ASSUME "handover" \notin Env, TypeOK, WipHasFreshHolder,
           NEW w \in Worker, WorkerStep(w)
    PROVE  WipHasFreshHolder'
<1>1. ASSUME NEW m \in Msg, Take(w, m)
      PROVE  WipHasFreshHolder'
  <2> SUFFICES ASSUME NEW n \in Msg, state'[n] = "wip", vis'[n] = "none"
               PROVE  \E v \in Worker : /\ pc'[v] = "got" /\ cur'[v] = n
                                        /\ snap'[v] = "fresh"
    BY DEF WipHasFreshHolder
  <2>1. CASE n = m
    <3>1. pc'[w] = "got" /\ cur'[w] = m /\ snap'[w] = "fresh"
      BY <1>1 DEF Take, TypeOK, Touched
    <3> QED
      BY <2>1, <3>1
  <2>2. CASE n # m
    <3>1. state[n] = "wip" /\ vis[n] = "none"
      BY <1>1, <2>2 DEF Take, TypeOK
    <3>2. PICK v \in Worker : pc[v] = "got" /\ cur[v] = n /\ snap[v] = "fresh"
      BY <3>1 DEF WipHasFreshHolder
    <3>3. v # w /\ Touched({m})[v] = snap[v]
      BY <1>1, <2>2, <3>2, Untouched DEF Take
    <3>4. pc'[v] = "got" /\ cur'[v] = n /\ snap'[v] = "fresh"
      BY <1>1, <3>2, <3>3 DEF Take, TypeOK, Touched
    <3> QED
      BY <3>4
  <2> QED
    BY <2>1, <2>2
<1>2. CASE GetMessageStd(w) \/ GetMessageFifo(w) \/ GetTarget(w)
  BY <1>1, <1>2 DEF GetMessageStd, GetMessageFifo, GetTarget
<1>3. CASE Store(w)
  <2> DEFINE m == cur[w]
  <2> SUFFICES ASSUME NEW n \in Msg, state'[n] = "wip", vis'[n] = "none"
               PROVE  /\ state[n] = "wip" /\ vis[n] = "none"
                      /\ \A v \in Worker :
                            pc[v] = "got" /\ cur[v] = n /\ snap[v] = "fresh"
                            => pc'[v] = "got" /\ cur'[v] = n /\ snap'[v] = "fresh"
    BY FreshHolderKept
  <2>1. n # m
    BY <1>3 DEF Store, TypeOK, Deadline
  <2>2. state[n] = "wip" /\ vis[n] = "none"
    BY <1>3, <2>1 DEF Store, TypeOK
  <2>3. ASSUME NEW v \in Worker, pc[v] = "got", cur[v] = n, snap[v] = "fresh"
        PROVE  pc'[v] = "got" /\ cur'[v] = n /\ snap'[v] = "fresh"
    BY <1>3, <2>1, <2>3 DEF Store, TypeOK, Touched
  <2> QED
    BY <2>2, <2>3
<1>4. CASE StoreConflict(w)
  <2>1. ASSUME NEW n \in Msg, state[n] = "wip", NEW v \in Worker,
               pc[v] = "got", cur[v] = n, snap[v] = "fresh"
        PROVE  v # w
    BY <1>4, <2>1 DEF StoreConflict, Visible, VisibleState
  <2>2. ASSUME NEW v \in Worker, v # w
        PROVE  pc'[v] = pc[v] /\ cur'[v] = cur[v] /\ snap'[v] = snap[v]
    BY <1>4, <2>2 DEF StoreConflict, Leave, TypeOK
  <2> QED
    BY <1>4, <2>1, <2>2, FreshHolderKept DEF StoreConflict, rowVars
<1>5. CASE StoreRaises(w) \/ StoreMarksFailed(w)
  BY <1>5 DEF StoreRaises, StoreMarksFailed
<1>6. CASE LogCommit(w) \/ Run(w)
  <2>1. UNCHANGED <<state, vis, cur>> /\ pc[w] # "got"
    BY <1>6 DEF LogCommit, Run, rowVars
  <2>2. ASSUME NEW v \in Worker, v # w
        PROVE  pc'[v] = pc[v] /\ snap'[v] = snap[v]
    BY <1>6, <2>2 DEF LogCommit, Run, TypeOK
  <2> QED
    BY <2>1, <2>2, FreshHolderKept
<1>7. CASE Record(w) \/ RecordOperational(w)
  <2> DEFINE m == cur[w]
  <2>1. m \in Msg /\ vis' = vis /\ pc[w] = "ran" /\ Leave(w)
    BY <1>7, HolderHasMessage DEF Record, RecordOperational
  <2>2. state'[m] # "wip" /\ \A n \in Msg \ {m} : state'[n] = state[n]
    <3>1. PICK x \in {out[w], "failed"} : state' = [state EXCEPT ![m] = x]
      BY <1>7 DEF Record, RecordOperational
    <3>2. out[w] # "wip"
      BY DEF TypeOK, ResultStates
    <3> QED
      BY <2>1, <3>1, <3>2 DEF TypeOK
  <2>3. ASSUME NEW v \in Worker, v # w, cur[v] # m
        PROVE  pc'[v] = pc[v] /\ cur'[v] = cur[v] /\ snap'[v] = snap[v]
    BY <1>7, <2>3 DEF Record, RecordOperational, Leave, TypeOK, Touched
  <2> QED
    BY <2>1, <2>2, <2>3, FreshHolderKept
<1>8. CASE RecordRefused(w) \/ Crash(w)
  <2>1. UNCHANGED <<state, vis>> /\ pc[w] # "got"
    BY <1>8 DEF RecordRefused, Crash, rowVars
  <2>2. ASSUME NEW v \in Worker, v # w
        PROVE  pc'[v] = pc[v] /\ cur'[v] = cur[v] /\ snap'[v] = snap[v]
    BY <1>8, <2>2 DEF RecordRefused, Crash, Leave, TypeOK
  <2> QED
    BY <2>1, <2>2, FreshHolderKept
<1> QED
  BY <1>2, <1>3, <1>4, <1>5, <1>6, <1>7, <1>8 DEF WorkerStep

LEMMA FreshHolderMessage ==
    ASSUME TypeOK, WipHasFreshHolder, NEW m \in Msg, MessageStep(m)
    PROVE  WipHasFreshHolder'
<1>1. CASE SendMessage(m) \/ EnqueueCommit(m) \/ EnqueueRollback(m)
  <2>1. UNCHANGED <<vis, pc, cur, snap>>
    BY <1>1 DEF SendMessage, EnqueueCommit, EnqueueRollback
  <2>2. state'[m] # "wip" /\ \A n \in Msg \ {m} : state'[n] = state[n]
    BY <1>1 DEF SendMessage, EnqueueCommit, EnqueueRollback, TypeOK
  <2> QED
    BY <2>1, <2>2, FreshHolderKept
<1>2. CASE Expire(m)
  <2>1. UNCHANGED <<state, pc, cur, snap>>
    BY <1>2 DEF Expire, workerVars
  <2>2. \A n \in Msg : vis'[n] = "none" => vis[n] = "none"
    BY <1>2 DEF Expire, TypeOK
  <2> QED
    BY <2>1, <2>2, FreshHolderKept
<1>3. CASE PlanDue(m)
  BY <1>3, FreshHolderKept DEF PlanDue, workerVars
<1>4. CASE RetryProcessing(m) \/ RetryRecovery(m) \/ Archive(m) \/ Cancel(m)
  <2>1. UNCHANGED <<vis, pc, cur>> /\ snap' = Touched({m})
    BY <1>4 DEF RetryProcessing, RetryRecovery, Requeue, Archive, Cancel
  <2>2. state'[m] # "wip" /\ \A n \in Msg \ {m} : state'[n] = state[n]
    BY <1>4 DEF RetryProcessing, RetryRecovery, Requeue, Archive, Cancel, TypeOK
  <2>3. \A v \in Worker : cur[v] # m => snap'[v] = snap[v]
    BY <2>1, Untouched
  <2> QED
    BY <2>1, <2>2, <2>3, FreshHolderKept
<1> QED
  BY <1>1, <1>2, <1>3, <1>4 DEF MessageStep

LEMMA FreshHolderStep ==
    ASSUME "handover" \notin Env
    PROVE  TypeOK /\ WipHasFreshHolder /\ [Next]_vars => WipHasFreshHolder'
<1> SUFFICES ASSUME TypeOK, WipHasFreshHolder, [Next]_vars
             PROVE  WipHasFreshHolder'
  OBVIOUS
<1>1. CASE \E w \in Worker : WorkerStep(w)
  BY <1>1, FreshHolderWorker
<1>2. CASE \E m \in Msg : MessageStep(m)
  BY <1>2, FreshHolderMessage
<1>3. CASE VisibilityDaemon
  <2> DEFINE S == {m \in Msg : Expired(m)}
  <2>1. UNCHANGED <<pc, cur>> /\ snap' = Touched(S)
    BY <1>3 DEF VisibilityDaemon
  <2>2. \A m \in S : state'[m] # "wip"
    BY <1>3 DEF VisibilityDaemon, AfterTimeout
  <2>3. \A m \in Msg \ S : state'[m] = state[m] /\ vis'[m] = vis[m]
    BY <1>3 DEF VisibilityDaemon
  <2>4. \A v \in Worker : cur[v] \notin S => snap'[v] = snap[v]
    BY <2>1, Untouched
  <2> QED
    BY <2>1, <2>2, <2>3, <2>4, FreshHolderKept
<1>4. CASE Purge
  <2>1. PICK old \in SUBSET Msg :
          /\ state' = [m \in Msg |-> IF m \in old /\ Purgeable(m) THEN "gone"
                                     ELSE state[m]]
          /\ snap' = Touched({m \in old : Purgeable(m)})
    BY <1>4 DEF Purge
  <2> DEFINE S == {m \in old : Purgeable(m)}
  <2>2. UNCHANGED <<pc, cur, vis>>
    BY <1>4 DEF Purge
  <2>3. \A m \in Msg : state'[m] = "wip" => state[m] = "wip" /\ m \notin S
    BY <2>1
  <2>4. \A v \in Worker : cur[v] \notin S => snap'[v] = snap[v]
    BY <2>1, Untouched
  <2> QED
    BY <2>2, <2>3, <2>4, FreshHolderKept
<1>5. CASE UNCHANGED vars
  BY <1>5, FreshHolderKept DEF vars
<1> QED
  BY <1>1, <1>2, <1>3, <1>4, <1>5 DEF Next

(* If no worker is lost between the commit that takes a message and the one
   that stores it, every message in wip has a deadline or a worker about to
   set one, so the daemon can take it back: crashes later on, conflicts,
   overruns and operators do not matter. *)
THEOREM DeadlineWithoutHandoverLoss ==
    ASSUME "handover" \notin Env
    PROVE  Spec => []WipHasDeadline
<1>1. Init => WipHasFreshHolder
  BY DEF Init, WipHasFreshHolder
<1>2. TypeOK /\ WipHasFreshHolder /\ [Next]_vars => WipHasFreshHolder'
  BY FreshHolderStep
<1>3. WipHasFreshHolder => WipHasDeadline
  BY DEF WipHasFreshHolder, WipHasDeadline
<1> QED
  BY <1>1, <1>2, <1>3, TypeCorrect, PTL DEF Spec

-----------------------------------------------------------------------------
(* What is recorded as done, or about to be, was committed. *)
CommittedInv ==
    /\ DoneIsCommitted
    /\ \A w \in Worker : out[w] = "done" => effects[cur[w]] > 0

(* A step that makes no message done and no result but by a commit. *)
LEMMA CommittedKept ==
    ASSUME TypeOK, CommittedInv,
           \A m \in Msg : effects'[m] >= effects[m] /\ effects'[m] \in Nat,
           \A m \in Msg : state'[m] = "done" =>
               state[m] = "done" \/ \E w \in Worker : out[w] = "done" /\ cur[w] = m,
           \A w \in Worker : out'[w] = "done" =>
               \/ out[w] = "done" /\ cur'[w] = cur[w]
               \/ effects'[cur'[w]] > 0
    PROVE  CommittedInv'
<1>1. ASSUME NEW m \in Msg, effects[m] > 0
      PROVE  effects'[m] > 0
  <2>1. effects[m] \in Nat /\ effects'[m] \in Nat /\ effects'[m] >= effects[m]
    BY DEF TypeOK
  <2> QED
    BY <1>1, <2>1
<1>2. ASSUME NEW w \in Worker, out[w] = "done"
      PROVE  cur[w] \in Msg
  <2>1. pc[w] = "ran"
    BY <1>2 DEF TypeOK
  <2> QED
    BY <2>1, HolderHasMessage
<1> QED
  BY <1>1, <1>2 DEF CommittedInv, DoneIsCommitted

LEMMA CommittedWorker ==
    ASSUME TypeOK, CommittedInv, NEW w \in Worker, WorkerStep(w)
    PROVE  CommittedInv'
<1>0. \A m \in Msg : effects[m] >= effects[m] /\ effects[m] \in Nat
  BY DEF TypeOK
<1>1. ASSUME NEW m \in Msg, Take(w, m)
      PROVE  CommittedInv'
  <2>1. UNCHANGED <<effects, out>>
    BY <1>1 DEF Take
  <2>2. \A n \in Msg : state'[n] = "done" => state[n] = "done"
    BY <1>1 DEF Take, TypeOK
  <2>3. \A v \in Worker : out[v] = "done" => cur'[v] = cur[v]
    BY <1>1 DEF Take, TypeOK
  <2> QED
    BY <1>0, <2>1, <2>2, <2>3, CommittedKept
<1>2. CASE GetMessageStd(w) \/ GetMessageFifo(w) \/ GetTarget(w)
  BY <1>1, <1>2 DEF GetMessageStd, GetMessageFifo, GetTarget
<1>3. CASE Store(w) \/ LogCommit(w)
  BY <1>0, <1>3, CommittedKept DEF Store, LogCommit, rowVars
<1>4. ASSUME Leave(w)
      PROVE  \A v \in Worker : out'[v] = "done" => out[v] = "done" /\ cur'[v] = cur[v]
  BY <1>4 DEF Leave, TypeOK
<1>5. CASE StoreConflict(w) \/ StoreRaises(w) \/ RecordRefused(w) \/ Crash(w)
  <2>1. Leave(w) /\ UNCHANGED <<state, effects>>
    BY <1>5 DEF StoreConflict, StoreRaises, RecordRefused, Crash, rowVars
  <2> QED
    BY <1>0, <1>4, <2>1, CommittedKept
<1>6. CASE StoreMarksFailed(w) \/ Record(w) \/ RecordOperational(w)
  <2>1. Leave(w) /\ UNCHANGED effects
    BY <1>6 DEF StoreMarksFailed, Record, RecordOperational
  <2>2. \/ state' = [state EXCEPT ![cur[w]] = out[w]]
        \/ state' = [state EXCEPT ![cur[w]] = "failed"]
    BY <1>6 DEF StoreMarksFailed, Record, RecordOperational
  <2>3. \A m \in Msg : state'[m] = "done" =>
            state[m] = "done" \/ (out[w] = "done" /\ cur[w] = m)
    BY <2>2 DEF TypeOK
  <2> QED
    BY <1>0, <1>4, <2>1, <2>3, CommittedKept
<1>7. CASE Run(w)
  <2> DEFINE m == cur[w]
  <2>1. m \in Msg /\ UNCHANGED <<state, cur>>
    BY <1>7, HolderHasMessage DEF Run, rowVars
  <2>2. PICK o \in Outcome :
          /\ out' = [out EXCEPT ![w] = ResultState(o, m)]
          /\ effects' = [effects EXCEPT ![m] = IF CommitsJob(o) THEN @ + 1 ELSE @]
    BY <1>7 DEF Run
  <2>3. effects[m] \in Nat /\ effects[m] + 1 > 0
    BY <2>1 DEF TypeOK
  <2>4. \A n \in Msg : effects'[n] >= effects[n] /\ effects'[n] \in Nat
    BY <1>0, <2>1, <2>2, <2>3 DEF TypeOK
  <2>5. ASSUME ResultState(o, m) = "done"
        PROVE  effects'[m] > 0
    <3>1. CommitsJob(o)
      BY <2>5 DEF ResultState, CommitsJob
    <3> QED
      BY <2>1, <2>2, <2>3, <3>1 DEF TypeOK
  <2>6. \A v \in Worker : out'[v] = "done" =>
            out[v] = "done" \/ effects'[cur'[v]] > 0
    BY <2>1, <2>2, <2>5 DEF TypeOK
  <2> QED
    BY <2>1, <2>4, <2>6, CommittedKept
<1> QED
  BY <1>2, <1>3, <1>5, <1>6, <1>7 DEF WorkerStep

LEMMA CommittedStep == TypeOK /\ CommittedInv /\ [Next]_vars => CommittedInv'
<1> SUFFICES ASSUME TypeOK, CommittedInv, [Next]_vars
             PROVE  CommittedInv'
  OBVIOUS
<1>0. \A m \in Msg : effects[m] >= effects[m] /\ effects[m] \in Nat
  BY DEF TypeOK
<1>1. CASE \E w \in Worker : WorkerStep(w)
  BY <1>1, CommittedWorker
<1>2. ASSUME UNCHANGED <<effects, out, cur>>,
             \A m \in Msg : state'[m] = "done" => state[m] = "done"
      PROVE  CommittedInv'
  BY <1>0, <1>2, CommittedKept
<1>3. CASE \E m \in Msg : MessageStep(m)
  <2>1. PICK m \in Msg : MessageStep(m)
    BY <1>3
  <2>2. UNCHANGED <<effects, out, cur>>
    BY <2>1 DEF MessageStep, SendMessage, EnqueueCommit, EnqueueRollback, Expire,
                PlanDue, RetryProcessing, RetryRecovery, Requeue, Archive, Cancel,
                workerVars
  <2>3. \/ state' = state
        \/ \E x \in {"inserted", "pending", "gone", "retry", "archived", "cancelled"} :
              state' = [state EXCEPT ![m] = x]
    BY <2>1 DEF MessageStep, SendMessage, EnqueueCommit, EnqueueRollback, Expire,
                PlanDue, RetryProcessing, RetryRecovery, Requeue, Archive, Cancel
  <2>4. \A n \in Msg : state'[n] = "done" => state[n] = "done"
    BY <2>3 DEF TypeOK
  <2> QED
    BY <1>2, <2>2, <2>4
<1>4. CASE VisibilityDaemon
  BY <1>2, <1>4 DEF VisibilityDaemon, AfterTimeout
<1>5. CASE Purge
  BY <1>2, <1>5 DEF Purge
<1>6. CASE UNCHANGED vars
  BY <1>2, <1>6 DEF vars
<1> QED
  BY <1>1, <1>3, <1>4, <1>5, <1>6 DEF Next

(* A message that shows as done has had a job transaction commit, in every
   environment: no crash, requeue, late result or operator fakes it. *)
THEOREM DoneOnlyIfCommitted == Spec => []DoneIsCommitted
<1>1. Init => CommittedInv
  BY DEF Init, CommittedInv, DoneIsCommitted
<1>2. CommittedInv => DoneIsCommitted
  BY DEF CommittedInv
<1> QED
  BY <1>1, <1>2, CommittedStep, TypeCorrect, PTL DEF Spec

-----------------------------------------------------------------------------
(* Tasks end before their deadline, the daemon does not run between the two
   commits of a handover with an old deadline in the row, and operators do
   not retry a message in wip. *)
TimelyEnv == Env \cap {"overrun", "slowHandover", "recovery"} = {}

(* A worker holds a message in wip, alone, and once it has stored it the
   deadline is ahead. *)
HolderOfWip == \A w \in Worker : pc[w] # "idle" => state[cur[w]] = "wip"

RunnerHasLiveDeadline ==
    \A w \in Worker : pc[w] \in {"running", "ran"} => vis[cur[w]] = "live"

HolderInv == HolderOfWip /\ Exclusive /\ RunnerHasLiveDeadline

(* The worker w leaves its message: what the others hold must not change. *)
LEMMA HolderLeave ==
    ASSUME TypeOK, HolderInv, NEW w \in Worker, Leave(w),
           \A m \in Msg : m # cur[w] => state'[m] = state[m] /\ vis'[m] = vis[m],
           pc[w] # "idle"
    PROVE  HolderInv'
<1>1. pc'[w] = "idle" /\ \A v \in Worker : v # w => pc'[v] = pc[v] /\ cur'[v] = cur[v]
  BY DEF Leave, TypeOK
<1>2. ASSUME NEW v \in Worker, pc'[v] # "idle"
      PROVE  /\ v # w /\ pc'[v] = pc[v] /\ cur'[v] = cur[v] /\ pc[v] # "idle"
             /\ state'[cur[v]] = state[cur[v]] /\ vis'[cur[v]] = vis[cur[v]]
  <2>1. v # w /\ pc'[v] = pc[v] /\ cur'[v] = cur[v] /\ pc[v] # "idle"
    BY <1>1, <1>2
  <2>2. cur[v] \in Msg /\ cur[v] # cur[w]
    BY <2>1, HolderHasMessage DEF HolderInv, Exclusive
  <2> QED
    BY <2>1, <2>2
<1>3. HolderOfWip' /\ RunnerHasLiveDeadline'
  BY <1>2 DEF HolderInv, HolderOfWip, RunnerHasLiveDeadline, TypeOK
<1>4. Exclusive'
  BY <1>2 DEF HolderInv, Exclusive
<1> QED
  BY <1>3, <1>4 DEF HolderInv

(* Workers keep what they hold and so do the messages they hold. *)
LEMMA HolderKept ==
    ASSUME TypeOK, HolderInv, UNCHANGED <<pc, cur>>,
           \A m \in Msg : state[m] = "wip" => state'[m] = "wip" \/ vis[m] = "over",
           \A m \in Msg : vis[m] = "live" => vis'[m] = "live" \/
                             \A w \in Worker : ~Runs(w, m),
           \A w \in Worker : pc[w] = "got" => state'[cur[w]] = "wip"
    PROVE  HolderInv'
<1>1. ASSUME NEW w \in Worker, pc[w] \in {"running", "ran"}
      PROVE  vis'[cur[w]] = "live" /\ state'[cur[w]] = "wip"
  <2>1. cur[w] \in Msg /\ Runs(w, cur[w])
    BY <1>1, HolderHasMessage DEF Runs
  <2>2. vis[cur[w]] = "live" /\ state[cur[w]] = "wip"
    BY <1>1 DEF HolderInv, HolderOfWip, RunnerHasLiveDeadline
  <2> QED
    BY <2>1, <2>2
<1>2. \A w \in Worker : pc[w] # "idle" => pc[w] \in {"got", "running", "ran"}
  BY DEF TypeOK
<1> QED
  BY <1>1, <1>2 DEF HolderInv, HolderOfWip, RunnerHasLiveDeadline, Exclusive

LEMMA HolderWorker ==
    ASSUME TypeOK, HolderInv, NEW w \in Worker, WorkerStep(w)
    PROVE  HolderInv'
<1>1. ASSUME NEW m \in Msg, Eligible(m), Take(w, m)
      PROVE  HolderInv'
  <2>1. state'[m] = "wip" /\ vis' = vis /\ \A n \in Msg \ {m} : state'[n] = state[n]
    BY <1>1 DEF Take, TypeOK
  <2>2. pc'[w] = "got" /\ cur'[w] = m
    BY <1>1 DEF Take, TypeOK
  <2>3. ASSUME NEW v \in Worker, v # w, pc'[v] # "idle"
        PROVE  /\ pc'[v] = pc[v] /\ cur'[v] = cur[v] /\ pc[v] # "idle"
               /\ cur[v] \in Msg /\ cur[v] # m
    <3>1. pc'[v] = pc[v] /\ cur'[v] = cur[v]
      BY <1>1, <2>3 DEF Take, TypeOK
    <3>2. cur[v] \in Msg /\ state[cur[v]] = "wip"
      BY <2>3, <3>1, HolderHasMessage DEF HolderInv, HolderOfWip
    <3>3. state[m] # "wip"
      BY <1>1 DEF Eligible
    <3> QED
      BY <2>3, <3>1, <3>2, <3>3
  <2>4. HolderOfWip' /\ RunnerHasLiveDeadline'
    BY <2>1, <2>2, <2>3 DEF HolderInv, HolderOfWip, RunnerHasLiveDeadline
  <2>5. Exclusive'
    BY <2>2, <2>3 DEF HolderInv, Exclusive
  <2> QED
    BY <2>4, <2>5 DEF HolderInv
<1>2. CASE GetMessageStd(w) \/ GetMessageFifo(w) \/ GetTarget(w)
  BY <1>1, <1>2 DEF GetMessageStd, GetMessageFifo, GetTarget
<1>3. CASE Store(w)
  <2> DEFINE m == cur[w]
  <2>1. m \in Msg /\ UNCHANGED <<state, cur>> /\ pc[w] # "idle"
    BY <1>3, HolderHasMessage DEF Store
  <2>2. vis'[m] = "live" /\ \A n \in Msg \ {m} : vis'[n] = vis[n]
    BY <1>3, <2>1 DEF Store, TypeOK, Deadline
  <2>3. \A v \in Worker : v # w => pc'[v] = pc[v]
    BY <1>3 DEF Store, TypeOK
  <2>4. ASSUME NEW v \in Worker, v # w, pc[v] # "idle"
        PROVE  cur[v] \in Msg \ {m}
    BY <2>1, <2>4, HolderHasMessage DEF HolderInv, Exclusive
  <2>5. HolderOfWip' /\ Exclusive'
    BY <2>1, <2>3 DEF HolderInv, HolderOfWip, Exclusive
  <2>6. RunnerHasLiveDeadline'
    <3> SUFFICES ASSUME NEW v \in Worker, pc'[v] \in {"running", "ran"}
                 PROVE  vis'[cur[v]] = "live"
      BY <2>1 DEF RunnerHasLiveDeadline
    <3>1. CASE v = w
      BY <2>2, <3>1
    <3>2. CASE v # w
      BY <2>2, <2>3, <2>4, <3>2 DEF HolderInv, RunnerHasLiveDeadline
    <3> QED
      BY <3>1, <3>2
  <2> QED
    BY <2>5, <2>6 DEF HolderInv
<1>4. CASE StoreConflict(w) \/ StoreRaises(w) \/ RecordRefused(w) \/ Crash(w)
  <2>1. Leave(w) /\ UNCHANGED <<state, vis>> /\ pc[w] # "idle"
    BY <1>4 DEF StoreConflict, StoreRaises, RecordRefused, Crash, rowVars
  <2> QED
    BY <2>1, HolderLeave
<1>5. CASE StoreMarksFailed(w)
  <2>1. Leave(w) /\ pc[w] # "idle"
    BY <1>5 DEF StoreMarksFailed
  <2>2. \A n \in Msg : n # cur[w] => state'[n] = state[n] /\ vis'[n] = vis[n]
    BY <1>5 DEF StoreMarksFailed, TypeOK
  <2> QED
    BY <2>1, <2>2, HolderLeave
<1>6. CASE Record(w) \/ RecordOperational(w)
  <2>1. Leave(w) /\ pc[w] # "idle"
    BY <1>6 DEF Record, RecordOperational
  <2>2. \A n \in Msg : n # cur[w] => state'[n] = state[n] /\ vis'[n] = vis[n]
    BY <1>6 DEF Record, RecordOperational, TypeOK
  <2> QED
    BY <2>1, <2>2, HolderLeave
<1>7. CASE LogCommit(w)
  BY <1>7 DEF LogCommit, rowVars, HolderInv, HolderOfWip, Exclusive, RunnerHasLiveDeadline
<1>8. CASE Run(w)
  <2>1. UNCHANGED <<state, vis, cur>>
    BY <1>8 DEF Run, rowVars
  <2>2. \A v \in Worker : /\ pc'[v] # "idle" => pc[v] # "idle"
                          /\ pc'[v] \in {"running", "ran"} => pc[v] \in {"running", "ran"}
    BY <1>8 DEF Run, TypeOK
  <2> QED
    BY <2>1, <2>2 DEF HolderInv, HolderOfWip, Exclusive, RunnerHasLiveDeadline
<1> QED
  BY <1>2, <1>3, <1>4, <1>5, <1>6, <1>7, <1>8 DEF WorkerStep

LEMMA HolderMessage ==
    ASSUME TimelyEnv, TypeOK, HolderInv, NEW m \in Msg, MessageStep(m)
    PROVE  HolderInv'
<1>1. UNCHANGED <<pc, cur>>
  BY DEF MessageStep, SendMessage, EnqueueCommit, EnqueueRollback, Expire, PlanDue,
         RetryProcessing, RetryRecovery, Requeue, Archive, Cancel, workerVars
<1>2. CASE Expire(m)
  <2>1. state' = state /\ vis' = [vis EXCEPT ![m] = "over"]
    BY <1>2 DEF Expire
  <2>2. \A w \in Worker : ~Runs(w, m)
    BY <1>2 DEF Expire, TimelyEnv
  <2>3. \A n \in Msg : vis[n] = "live" => vis'[n] = "live" \/
                                          \A w \in Worker : ~Runs(w, n)
    BY <2>1, <2>2 DEF TypeOK
  <2>4. \A w \in Worker : pc[w] = "got" => state'[cur[w]] = "wip"
    BY <2>1 DEF HolderInv, HolderOfWip
  <2> QED
    BY <1>1, <2>1, <2>3, <2>4, HolderKept
<1>3. CASE PlanDue(m)
  BY <1>1, <1>3 DEF PlanDue, HolderInv, HolderOfWip, Exclusive, RunnerHasLiveDeadline
<1>4. CASE \/ SendMessage(m) \/ EnqueueCommit(m) \/ EnqueueRollback(m)
           \/ RetryProcessing(m) \/ RetryRecovery(m) \/ Archive(m) \/ Cancel(m)
  <2>1. vis' = vis
    BY <1>4 DEF SendMessage, EnqueueCommit, EnqueueRollback, RetryProcessing,
                RetryRecovery, Requeue, Archive, Cancel
  <2>2. state[m] # "wip"
    BY <1>4 DEF SendMessage, EnqueueCommit, EnqueueRollback, RetryProcessing,
                RetryRecovery, Archive, Cancel, TimelyEnv
  <2>3. \A n \in Msg \ {m} : state'[n] = state[n]
    BY <1>4 DEF SendMessage, EnqueueCommit, EnqueueRollback, RetryProcessing,
                RetryRecovery, Requeue, Archive, Cancel, TypeOK
  <2>4. \A n \in Msg : state[n] = "wip" => state'[n] = "wip"
    BY <2>2, <2>3
  <2>5. \A w \in Worker : pc[w] = "got" => state'[cur[w]] = "wip"
    BY <2>4, HolderHasMessage DEF HolderInv, HolderOfWip
  <2> QED
    BY <1>1, <2>1, <2>4, <2>5, HolderKept
<1> QED
  BY <1>2, <1>3, <1>4 DEF MessageStep

LEMMA HolderStep ==
    ASSUME TimelyEnv
    PROVE  TypeOK /\ HolderInv /\ [Next]_vars => HolderInv'
<1> SUFFICES ASSUME TypeOK, HolderInv, [Next]_vars
             PROVE  HolderInv'
  OBVIOUS
<1>1. CASE \E w \in Worker : WorkerStep(w)
  BY <1>1, HolderWorker
<1>2. CASE \E m \in Msg : MessageStep(m)
  BY <1>2, HolderMessage
<1>3. CASE VisibilityDaemon
  <2>1. UNCHANGED <<pc, cur>>
    BY <1>3 DEF VisibilityDaemon
  <2>2. \A m \in Msg : ~Expired(m) => state'[m] = state[m] /\ vis'[m] = vis[m]
    BY <1>3 DEF VisibilityDaemon
  <2>3. \A w \in Worker : pc[w] = "got" => ~Expired(cur[w])
    BY <1>3 DEF VisibilityDaemon, TimelyEnv
  <2>4. \A w \in Worker : pc[w] = "got" => state'[cur[w]] = "wip"
    BY <2>2, <2>3, HolderHasMessage DEF HolderInv, HolderOfWip
  <2> QED
    BY <2>1, <2>2, <2>4, HolderKept DEF Expired
<1>4. CASE Purge
  <2>1. UNCHANGED <<pc, cur, vis>>
    BY <1>4 DEF Purge
  <2>2. \A m \in Msg : state[m] = "wip" => state'[m] = "wip"
    BY <1>4 DEF Purge, Purgeable
  <2>3. \A w \in Worker : pc[w] = "got" => state'[cur[w]] = "wip"
    BY <2>2, HolderHasMessage DEF HolderInv, HolderOfWip
  <2> QED
    BY <2>1, <2>2, <2>3, HolderKept
<1>5. CASE UNCHANGED vars
  BY <1>5 DEF vars, HolderInv, HolderOfWip, Exclusive, RunnerHasLiveDeadline
<1> QED
  BY <1>1, <1>2, <1>3, <1>4, <1>5 DEF Next

LEMMA HolderInit == Init => HolderInv
BY DEF Init, HolderInv, HolderOfWip, Exclusive, RunnerHasLiveDeadline

(* In a timely environment no two workers ever hold the same message, with
   any number of crashes, redeliveries, retries, archivings and purges. *)
THEOREM ExclusiveWhenTimely ==
    ASSUME TimelyEnv
    PROVE  Spec => []Exclusive
<1>1. TypeOK /\ HolderInv /\ [Next]_vars => HolderInv'
  BY HolderStep
<1>2. HolderInv => Exclusive
  BY DEF HolderInv
<1> QED
  BY <1>1, <1>2, HolderInit, TypeCorrect, PTL DEF Spec

-----------------------------------------------------------------------------
(* Moreover the transactions that enqueue in one group commit in the order of
   the ids, no worker targets a message, and operators use the buttons the
   form shows: they retry failed messages and archive completed ones. *)
OrderlyEnv ==
    /\ TimelyEnv
    /\ Env \cap {"lateCommit", "target", "retryAny", "archiveWaiting"} = {}
    /\ QType = "fifo"

(* Ids are drawn in order, and committed in order within a group. *)
EnqueuedInOrder ==
    \A m, n \in Msg : m < n =>
        /\ state[n] # "absent" => state[m] # "absent"
        /\ Group[m] = Group[n] /\ Visible(n) => state[m] # "inserted"

(* A message in one of these states was taken by a worker. *)
TakenState == Released \cup {"wip", "retry", "failed"}

TakenIsStarted == \A m \in Msg : state[m] \in TakenState => started[m]

StartedIsEnqueued == \A m \in Msg : started[m] => state[m] \notin {"absent", "inserted"}

OrderInv == EnqueuedInOrder /\ TakenIsStarted /\ StartedIsEnqueued /\ FifoOrder

(* How a step of Next, other than sending, enqueueing and taking, may change the
   state of a message. *)
Moves ==
    \A m \in Msg :
        \/ state'[m] = state[m]
        \/ /\ state[m] \notin {"absent", "inserted", "gone"} \cup Released
           /\ state'[m] \in RowState \ {"absent", "inserted"}
           /\ state'[m] \in TakenState => state[m] \in TakenState
        \/ state[m] \in Released /\ state'[m] \in {"archived", "gone"}
        \/ state[m] = "inserted" /\ state'[m] = "gone"

(* Such a step preserves the order. *)
LEMMA MovesKeepOrder ==
    ASSUME TypeOK, OrderInv, Moves, UNCHANGED started
    PROVE  OrderInv'
<1>1. EnqueuedInOrder'
  <2> SUFFICES ASSUME NEW m \in Msg, NEW n \in Msg, m < n
               PROVE  /\ state'[n] # "absent" => state'[m] # "absent"
                      /\ Group[m] = Group[n] /\ Visible(n)' => state'[m] # "inserted"
    BY DEF EnqueuedInOrder
  <2>1. /\ state'[n] # "absent" => state[n] # "absent"
        /\ Visible(n)' => Visible(n)
    BY DEF Moves, TypeOK, RowState, Visible, VisibleState, Released
  <2>2. /\ state[m] # "absent" => state'[m] # "absent"
        /\ state[m] # "inserted" => state'[m] # "inserted"
    BY DEF Moves
  <2> QED
    BY <2>1, <2>2 DEF OrderInv, EnqueuedInOrder
<1>2. TakenIsStarted'
  BY DEF OrderInv, TakenIsStarted, Moves, TakenState, Released
<1>3. StartedIsEnqueued'
  BY DEF OrderInv, StartedIsEnqueued, Moves, Released
<1>4. FifoOrder'
  <2>1. \A m \in Msg : state[m] \in Released \cup {"gone"} =>
                       state'[m] \in Released \cup {"gone"}
    BY DEF Moves, Released
  <2> QED
    BY <2>1 DEF OrderInv, FifoOrder
<1> QED
  BY <1>1, <1>2, <1>3, <1>4 DEF OrderInv

(* Taking n in a FIFO queue: its immediate predecessor is released, so was
   itself taken, so everything before it is released or deleted. *)
LEMMA PredecessorsReleased ==
    ASSUME TypeOK, OrderInv, NEW n \in Msg, Eligible(n), PrevReleased(n),
           NEW m \in Msg, m < n, Group[m] = Group[n]
    PROVE  state[m] \in Released \cup {"gone"}
<1>1. ASSUME state[m] \in RowState \ VisibleState
      PROVE  state[m] = "gone"
  <2>1. state[n] # "absent" /\ Visible(n)
    BY DEF Eligible, Visible, VisibleState
  <2>2. state[m] \notin {"absent", "inserted"}
    BY <2>1 DEF OrderInv, EnqueuedInOrder
  <2> QED
    BY <1>1, <2>2 DEF RowState
<1>2. ASSUME Visible(m)
      PROVE  state[m] \in Released
  <2>1. m \in Earlier(n)
    BY <1>2 DEF Earlier
  <2>2. PICK p \in Earlier(n) : (\A q \in Earlier(n) : q <= p) /\ state[p] \in Released
    BY <2>1 DEF PrevReleased
  <2>3. p \in Msg /\ Group[p] = Group[n] /\ m <= p
    BY <2>1, <2>2 DEF Earlier
  <2>4. started[p]
    BY <2>2, <2>3 DEF OrderInv, TakenIsStarted, TakenState
  <2>5. CASE m = p
    BY <2>2, <2>5
  <2>6. CASE m # p
    <3>1. m \in Nat /\ p \in Nat
      BY <2>3, MsgAssumption
    <3>2. m < p
      BY <2>3, <2>6, <3>1
    <3>3. state[m] \in Released \cup {"gone"}
      BY <2>3, <2>4, <3>2 DEF OrderInv, FifoOrder
    <3> QED
      BY <1>2, <3>3 DEF Visible, VisibleState
  <2> QED
    BY <2>5, <2>6
<1>3. state[m] \in RowState
  BY DEF TypeOK
<1> QED
  BY <1>1, <1>2, <1>3 DEF Visible

LEMMA OrderWorker ==
    ASSUME OrderlyEnv, TypeOK, HolderInv, OrderInv, NEW w \in Worker, WorkerStep(w)
    PROVE  OrderInv'
<1>1. ASSUME NEW n \in Msg, Eligible(n), PrevReleased(n), Take(w, n)
      PROVE  OrderInv'
  <2>1. /\ state'[n] = "wip" /\ \A m \in Msg \ {n} : state'[m] = state[m]
        /\ started'[n] /\ \A m \in Msg \ {n} : started'[m] = started[m]
    BY <1>1 DEF Take, TypeOK
  <2>2. Visible(n) /\ state[n] # "absent" /\ state[n] \notin Released \cup {"gone"}
    BY <1>1 DEF Eligible, Visible, VisibleState, Released
  <2>3. EnqueuedInOrder'
    <3>1. \A m \in Msg : /\ state'[m] = "absent" <=> state[m] = "absent"
                         /\ state'[m] = "inserted" => state[m] = "inserted"
                         /\ Visible(m)' => Visible(m)
      BY <2>1, <2>2 DEF Visible
    <3> QED
      BY <3>1 DEF OrderInv, EnqueuedInOrder
  <2>4. TakenIsStarted' /\ StartedIsEnqueued'
    BY <2>1 DEF OrderInv, TakenIsStarted, StartedIsEnqueued
  <2>5. FifoOrder'
    <3> SUFFICES ASSUME NEW m \in Msg, NEW k \in Msg, m < k, Group[m] = Group[k],
                        started'[k]
                 PROVE  state'[m] \in Released \cup {"gone"}
      BY DEF FifoOrder
    <3>1. CASE k = n
      <4>1. state[m] \in Released \cup {"gone"}
        BY <1>1, <3>1, PredecessorsReleased
      <4> QED
        BY <2>1, <2>2, <4>1
    <3>2. CASE k # n
      <4>1. started[k]
        BY <2>1, <3>2
      <4>2. state[m] \in Released \cup {"gone"}
        BY <4>1 DEF OrderInv, FifoOrder
      <4> QED
        BY <2>1, <2>2, <4>2
    <3> QED
      BY <3>1, <3>2
  <2> QED
    BY <2>3, <2>4, <2>5 DEF OrderInv
<1>2. CASE GetMessageStd(w) \/ GetMessageFifo(w) \/ GetTarget(w)
  BY <1>1, <1>2 DEF GetMessageStd, GetMessageFifo, GetTarget, OrderlyEnv
<1>3. CASE \/ Store(w) \/ StoreConflict(w) \/ StoreRaises(w) \/ LogCommit(w)
           \/ Run(w) \/ RecordRefused(w) \/ Crash(w)
  <2>1. UNCHANGED <<state, started>>
    BY <1>3 DEF Store, StoreConflict, StoreRaises, LogCommit, Run, RecordRefused,
                Crash, rowVars
  <2> QED
    BY <2>1, MovesKeepOrder DEF Moves
<1>4. CASE StoreMarksFailed(w) \/ Record(w) \/ RecordOperational(w)
  <2>1. UNCHANGED started /\ pc[w] # "idle"
    BY <1>4 DEF StoreMarksFailed, Record, RecordOperational
  <2>2. cur[w] \in Msg /\ state[cur[w]] = "wip"
    BY <2>1, HolderHasMessage DEF HolderInv, HolderOfWip
  <2>3. /\ state'[cur[w]] \in RowState \ {"absent", "inserted"}
        /\ \A m \in Msg \ {cur[w]} : state'[m] = state[m]
    BY <1>4, <2>2 DEF StoreMarksFailed, Record, RecordOperational, TypeOK,
                      ResultStates, RowState, VisibleState
  <2>4. Moves
    BY <2>2, <2>3 DEF Moves, TakenState, Released
  <2> QED
    BY <2>1, <2>4, MovesKeepOrder
<1> QED
  BY <1>2, <1>3, <1>4 DEF WorkerStep

LEMMA OrderEnqueue ==
    ASSUME OrderlyEnv, TypeOK, OrderInv, NEW n \in Msg,
           SendMessage(n) \/ EnqueueCommit(n)
    PROVE  OrderInv'
<1>1. /\ UNCHANGED started
      /\ \A m \in Msg \ {n} : state'[m] = state[m]
  BY DEF SendMessage, EnqueueCommit, TypeOK
<1>2. CASE SendMessage(n)
  <2>1. state[n] = "absent" /\ state'[n] = "inserted"
    BY <1>2 DEF SendMessage, TypeOK
  <2>2. \A m \in Msg : m < n => state[m] # "absent"
    BY <1>2 DEF SendMessage
  <2>3. \A m \in Msg : n < m => state[m] = "absent"
    BY <2>1 DEF OrderInv, EnqueuedInOrder
  <2>4. n \in Nat
    BY MsgAssumption
  <2>5. EnqueuedInOrder'
    <3> SUFFICES ASSUME NEW m \in Msg, NEW k \in Msg, m < k
                 PROVE  /\ state'[k] # "absent" => state'[m] # "absent"
                        /\ Group[m] = Group[k] /\ Visible(k)' => state'[m] # "inserted"
      BY DEF EnqueuedInOrder
    <3>1. CASE k = n
      <4>1. m # n
        BY <3>1, <2>4
      <4> QED
        BY <1>1, <2>1, <2>2, <3>1, <4>1 DEF Visible, VisibleState
    <3>2. CASE k # n /\ m = n
      BY <1>1, <2>3, <3>2 DEF Visible, VisibleState
    <3>3. CASE k # n /\ m # n
      BY <1>1, <3>3 DEF OrderInv, EnqueuedInOrder, Visible
    <3> QED
      BY <3>1, <3>2, <3>3
  <2>6. TakenIsStarted'
    BY <1>1, <2>1 DEF OrderInv, TakenIsStarted, TakenState, Released
  <2>7. ~started[n]
    BY <2>1 DEF OrderInv, StartedIsEnqueued
  <2>8. StartedIsEnqueued' /\ FifoOrder'
    BY <1>1, <2>1, <2>7 DEF OrderInv, StartedIsEnqueued, FifoOrder, Released
  <2> QED
    BY <2>5, <2>6, <2>8 DEF OrderInv
<1>3. CASE EnqueueCommit(n)
  <2>1. state[n] = "inserted" /\ state'[n] = "pending"
    BY <1>3 DEF EnqueueCommit, TypeOK
  <2>2. \A m \in Msg : m < n /\ Group[m] = Group[n] => state[m] # "inserted"
    BY <1>3 DEF EnqueueCommit, OrderlyEnv
  <2>3. EnqueuedInOrder'
    <3> SUFFICES ASSUME NEW m \in Msg, NEW k \in Msg, m < k
                 PROVE  /\ state'[k] # "absent" => state'[m] # "absent"
                        /\ Group[m] = Group[k] /\ Visible(k)' => state'[m] # "inserted"
      BY DEF EnqueuedInOrder
    <3>1. state'[k] # "absent" => state'[m] # "absent"
      BY <1>1, <2>1 DEF OrderInv, EnqueuedInOrder
    <3>2. CASE k = n
      BY <1>1, <2>1, <2>2, <3>1, <3>2
    <3>3. CASE k # n
      BY <1>1, <2>1, <3>1, <3>3 DEF OrderInv, EnqueuedInOrder, Visible
    <3> QED
      BY <3>2, <3>3
  <2>4. TakenIsStarted' /\ StartedIsEnqueued' /\ FifoOrder'
    BY <1>1, <2>1 DEF OrderInv, TakenIsStarted, TakenState, StartedIsEnqueued,
                      FifoOrder, Released
  <2> QED
    BY <2>3, <2>4 DEF OrderInv
<1> QED
  BY <1>2, <1>3

LEMMA OrderStep ==
    ASSUME OrderlyEnv
    PROVE  TypeOK /\ HolderInv /\ OrderInv /\ [Next]_vars => OrderInv'
<1> SUFFICES ASSUME TypeOK, HolderInv, OrderInv, [Next]_vars
             PROVE  OrderInv'
  OBVIOUS
<1>1. CASE \E w \in Worker : WorkerStep(w)
  BY <1>1, OrderWorker
<1>2. CASE \E m \in Msg : MessageStep(m)
  <2>1. PICK m \in Msg : MessageStep(m)
    BY <1>2
  <2>2. CASE SendMessage(m) \/ EnqueueCommit(m)
    BY <2>2, OrderEnqueue
  <2>3. CASE Expire(m) \/ PlanDue(m)
    BY <2>3, MovesKeepOrder DEF Expire, PlanDue, Moves
  <2>4. CASE EnqueueRollback(m) \/ RetryProcessing(m) \/ Archive(m) \/ Cancel(m)
    <3>1. UNCHANGED started /\ \A n \in Msg \ {m} : state'[n] = state[n]
      BY <2>4 DEF EnqueueRollback, RetryProcessing, Requeue, Archive, Cancel, TypeOK
    <3>2. \/ state[m] = "inserted" /\ state'[m] = "gone"
          \/ state[m] = "failed" /\ state'[m] = "retry"
          \/ state[m] \in {"failed", "terminated", "done"} /\ state'[m] = "archived"
          \/ state[m] \in {"pending", "retry"} /\ state'[m] = "cancelled"
      BY <2>4 DEF EnqueueRollback, RetryProcessing, Requeue, Archive, Cancel, TypeOK,
                  OrderlyEnv
    <3>3. Moves
      BY <3>1, <3>2 DEF Moves, TakenState, Released, RowState, VisibleState
    <3> QED
      BY <3>1, <3>3, MovesKeepOrder
  <2>5. ~RetryRecovery(m)
    BY DEF RetryRecovery, OrderlyEnv, TimelyEnv
  <2> QED
    BY <2>1, <2>2, <2>3, <2>4, <2>5 DEF MessageStep
<1>3. CASE VisibilityDaemon
  <2>1. UNCHANGED started
    BY <1>3 DEF VisibilityDaemon
  <2>2. \A m \in Msg : \/ state'[m] = state[m]
                       \/ state[m] = "wip" /\ state'[m] \in {"pending", "failed"}
    BY <1>3 DEF VisibilityDaemon, Expired, AfterTimeout
  <2>3. Moves
    BY <2>2 DEF Moves, TakenState, Released, RowState, VisibleState
  <2> QED
    BY <2>1, <2>3, MovesKeepOrder
<1>4. CASE Purge
  <2>1. UNCHANGED started
    BY <1>4 DEF Purge
  <2>2. \A m \in Msg : \/ state'[m] = state[m]
                       \/ Visible(m) /\ state'[m] = "gone"
    BY <1>4 DEF Purge, Purgeable
  <2>3. Moves
    BY <2>2 DEF Moves, TakenState, Released, RowState, Visible, VisibleState
  <2> QED
    BY <2>1, <2>3, MovesKeepOrder
<1>5. CASE UNCHANGED vars
  BY <1>5, MovesKeepOrder DEF vars, Moves
<1> QED
  BY <1>1, <1>2, <1>3, <1>4, <1>5 DEF Next

LEMMA OrderInit == Init => OrderInv
BY DEF Init, OrderInv, EnqueuedInOrder, TakenIsStarted, TakenState, Released,
       StartedIsEnqueued, FifoOrder, Visible, VisibleState

(* In an orderly environment a FIFO message is taken only when every earlier
   message of its group is released or deleted, although the query looks at
   one predecessor: for any messages, groups, workers, crashes and retries. *)
THEOREM FifoOrderWhenOrderly ==
    ASSUME OrderlyEnv
    PROVE  Spec => []FifoOrder
<1>1. TypeOK /\ HolderInv /\ [Next]_vars => HolderInv'
  BY HolderStep DEF OrderlyEnv
<1>2. TypeOK /\ HolderInv /\ OrderInv /\ [Next]_vars => OrderInv'
  BY OrderStep
<1>3. OrderInv => FifoOrder
  BY DEF OrderInv
<1> QED
  BY <1>1, <1>2, <1>3, HolderInit, OrderInit, TypeCorrect, PTL DEF Spec

(* In an orderly environment two messages of a FIFO group are never executed
   at the same time. *)
THEOREM FifoSerialWhenOrderly ==
    ASSUME OrderlyEnv
    PROVE  Spec => []FifoSerial
<1>1. TypeOK /\ HolderInv /\ [Next]_vars => HolderInv'
  BY HolderStep DEF OrderlyEnv
<1>2. TypeOK /\ HolderInv /\ OrderInv /\ [Next]_vars => OrderInv'
  BY OrderStep
<1>3. TypeOK /\ HolderInv /\ OrderInv => FifoSerial
  <2> SUFFICES ASSUME TypeOK, HolderInv, OrderInv,
                      NEW v \in Worker, NEW w \in Worker, v # w,
                      pc[v] \in {"running", "ran"}, pc[w] \in {"running", "ran"},
                      Group[cur[v]] = Group[cur[w]]
               PROVE  FALSE
    BY DEF FifoSerial
  <2>1. cur[v] \in Msg /\ cur[w] \in Msg /\ cur[v] # cur[w]
    BY HolderHasMessage DEF HolderInv, Exclusive
  <2>2. cur[v] < cur[w] \/ cur[w] < cur[v]
    <3>1. cur[v] \in Nat /\ cur[w] \in Nat
      BY <2>1, MsgAssumption
    <3> QED
      BY <2>1, <3>1
  <2>3. state[cur[v]] = "wip" /\ state[cur[w]] = "wip"
    BY DEF HolderInv, HolderOfWip
  <2>4. started[cur[v]] /\ started[cur[w]]
    BY <2>1, <2>3 DEF OrderInv, TakenIsStarted, TakenState
  <2>5. "wip" \in Released \cup {"gone"}
    BY <2>1, <2>2, <2>3, <2>4 DEF OrderInv, FifoOrder
  <2> QED
    BY <2>5 DEF Released
<1> QED
  BY <1>1, <1>2, <1>3, HolderInit, OrderInit, TypeCorrect, PTL DEF Spec

-----------------------------------------------------------------------------
(* PgsqlQueue implements Ledger in timely environments: its initial states are
   initial states of the ledger, and each of its steps is a step of the ledger
   or changes nothing the ledger sees. *)

(* What the ledger sees of a message. *)
LEMMA ItemIs ==
    ASSUME NEW m \in Msg
    PROVE  /\ state[m] \in {"absent", "inserted"} => Items[m] = "new"
           /\ state[m] \in {"pending", "retry", "wip"} => Items[m] = "open"
           /\ state[m] = "done" => Items[m] = "done"
           /\ state[m] \notin {"absent", "inserted", "pending", "retry", "wip", "done"}
                 => Items[m] = "closed"
BY DEF Items

(* What the ledger sees of a worker. *)
LEMMA LeaseIs ==
    ASSUME NEW w \in Worker
    PROVE  /\ pc[w] \in {"idle", "got"} => Leases[w] = <<NoMsg, "none">>
           /\ pc[w] = "running" => Leases[w] = <<cur[w], "working">>
           /\ pc[w] = "ran" /\ out[w] = "done" => Leases[w] = <<cur[w], "worked">>
           /\ pc[w] = "ran" /\ out[w] # "done" => Leases[w] = <<cur[w], "over">>
BY DEF Leases

(* Who holds a lease on a message is running it. *)
LEMMA LesseeRuns ==
    ASSUME TypeOK, NEW w \in Worker, NEW m \in Msg, Leases[w][1] = m
    PROVE  pc[w] \in {"running", "ran"} /\ cur[w] = m
<1>1. pc[w] \in {"idle", "got", "running", "ran"} /\ m # NoMsg
  BY MsgAssumption DEF TypeOK
<1>2. CASE pc[w] \in {"idle", "got"}
  <2>1. Leases[w] = <<NoMsg, "none">>
    BY <1>2, LeaseIs
  <2> QED
    BY <1>1, <2>1
<1>3. CASE pc[w] \in {"running", "ran"}
  <2>1. PICK phase \in {"working", "worked", "over"} : Leases[w] = <<cur[w], phase>>
    BY <1>3, LeaseIs
  <2> QED
    BY <1>3, <2>1
<1> QED
  BY <1>1, <1>2, <1>3

(* A message that is not in progress, or whose deadline is over, has no lease. *)
LEMMA NotLeased ==
    ASSUME TypeOK, HolderInv, NEW m \in Msg, state[m] # "wip" \/ vis[m] # "live"
    PROVE  ~Contract!Leased(m)
<1> SUFFICES ASSUME NEW w \in Worker, Leases[w][1] = m
             PROVE  FALSE
  BY DEF Contract!Leased
<1>1. pc[w] \in {"running", "ran"} /\ cur[w] = m
  BY LesseeRuns
<1> QED
  BY <1>1 DEF HolderInv, HolderOfWip, RunnerHasLiveDeadline

(* Neither has one that a worker has only taken. *)
LEMMA NotLeasedYet ==
    ASSUME TypeOK, HolderInv, NEW w \in Worker, pc[w] = "got"
    PROVE  ~Contract!Leased(cur[w])
<1> SUFFICES ASSUME NEW v \in Worker, Leases[v][1] = cur[w]
             PROVE  FALSE
  BY DEF Contract!Leased
<1>1. cur[w] \in Msg
  BY HolderHasMessage
<1>2. pc[v] \in {"running", "ran"} /\ cur[v] = cur[w]
  BY <1>1, LesseeRuns
<1> QED
  BY <1>2 DEF HolderInv, Exclusive

(* A step of one worker changes one lease at most. *)
LEMMA OneLease ==
    ASSUME TypeOK, NEW w \in Worker, NEW x, Leases'[w] = x,
           \A v \in Worker \ {w} : pc'[v] = pc[v] /\ cur'[v] = cur[v] /\ out'[v] = out[v]
    PROVE  Leases' = [Leases EXCEPT ![w] = x]
<1>1. \A v \in Worker \ {w} : Leases'[v] = Leases[v]
  BY DEF Leases
<1>2. Leases = [v \in Worker |-> Leases[v]] /\ Leases' = [v \in Worker |-> Leases'[v]]
  BY DEF Leases
<1> QED
  BY <1>1, <1>2

(* A step that changes one row changes one item at most. *)
LEMMA OneItem ==
    ASSUME NEW m \in Msg, NEW x, Items'[m] = x,
           \A n \in Msg \ {m} : state'[n] = state[n]
    PROVE  Items' = [Items EXCEPT ![m] = x]
<1>1. \A n \in Msg \ {m} : Items'[n] = Items[n]
  BY DEF Items
<1>2. Items = [n \in Msg |-> Items[n]] /\ Items' = [n \in Msg |-> Items'[n]]
  BY DEF Items
<1> QED
  BY <1>1, <1>2

LEMMA LeasesKept == UNCHANGED <<pc, cur, out>> => Leases' = Leases
BY DEF Leases

LEMMA ItemsKept ==
    ASSUME \A m \in Msg : Items'[m] = Items[m]
    PROVE  Items' = Items
<1>1. Items = [n \in Msg |-> Items[n]] /\ Items' = [n \in Msg |-> Items'[n]]
  BY DEF Items
<1> QED
  BY <1>1

-----------------------------------------------------------------------------
(* Steps the ledger knows. *)

(* Messages nobody runs are given up, withdrawn, filed away or deleted. *)
LEMMA Shelved ==
    ASSUME UNCHANGED <<pc, cur, out, effects>>, NEW S \in SUBSET Msg,
           \A m \in S : /\ Items[m] \in {"open", "done"} /\ ~Contract!Leased(m)
                        /\ Items'[m] = "closed",
           \A m \in Msg \ S : Items'[m] = Items[m]
    PROVE  Contract!Next
<1>1. Items' = [m \in Msg |-> Items'[m]]
  BY DEF Items
<1>2. Items' = [m \in Msg |-> IF m \in S THEN "closed" ELSE Items[m]]
  BY <1>1
<1>3. Contract!Shelve(S)
  BY <1>2, LeasesKept DEF Contract!Shelve
<1> QED
  BY <1>3 DEF Contract!Next

(* The case of one message, which may have been closed before. *)
LEMMA ShelvedOne ==
    ASSUME UNCHANGED <<pc, cur, out, effects>>, NEW m \in Msg,
           Items[m] \in {"open", "done", "closed"}, ~Contract!Leased(m),
           Items'[m] = "closed", \A n \in Msg \ {m} : state'[n] = state[n]
    PROVE  [Contract!Next]_(Contract!vars)
<1>1. \A n \in Msg \ {m} : Items'[n] = Items[n]
  BY DEF Items
<1>2. CASE Items[m] = "closed"
  BY <1>1, <1>2, LeasesKept, ItemsKept DEF Contract!vars
<1>3. CASE Items[m] \in {"open", "done"}
  <2>1. Contract!Next
    BY <1>1, <1>3, Shelved
  <2> QED
    BY <2>1
<1> QED
  BY <1>2, <1>3

(* A step that the ledger does not see. *)
LEMMA Unseen ==
    ASSUME UNCHANGED <<effects>>, Leases' = Leases,
           \A m \in Msg : Items'[m] = Items[m]
    PROVE  UNCHANGED Contract!vars
BY ItemsKept DEF Contract!vars

(* A worker that leaves its message gives its lease back, if it had one. *)
LEMMA LeaseFreed ==
    ASSUME TypeOK, NEW w \in Worker, Leave(w)
    PROVE  Leases' = [Leases EXCEPT ![w] = <<NoMsg, "none">>]
<1>1. Leases'[w] = <<NoMsg, "none">>
  BY DEF Leave, Leases, TypeOK
<1> QED
  BY <1>1, OneLease DEF Leave, TypeOK

(* A worker drops what it holds without writing a row. *)
LEMMA LosesLease ==
    ASSUME TypeOK, NEW w \in Worker, Leave(w), UNCHANGED <<state, effects>>
    PROVE  [Contract!Next]_(Contract!vars)
<1>1. Leases' = [Leases EXCEPT ![w] = <<NoMsg, "none">>]
  BY LeaseFreed
<1>2. Items' = Items
  BY DEF Items
<1>3. CASE Leases[w] = <<NoMsg, "none">>
  <2>1. Leases = [v \in Worker |-> Leases[v]]
    BY DEF Leases
  <2>2. Leases' = Leases
    BY <1>1, <1>3, <2>1
  <2> QED
    BY <1>2, <2>2 DEF Contract!vars
<1>4. CASE Leases[w] # <<NoMsg, "none">>
  <2>1. Contract!LoseLease(w)
    BY <1>1, <1>2, <1>4 DEF Contract!LoseLease, Contract!Free
  <2> QED
    BY <2>1 DEF Contract!Next
<1> QED
  BY <1>3, <1>4

(* The result of a job is written in one transaction with leaving it. *)
LEMMA Reports ==
    ASSUME TypeOK, HolderInv, NEW w \in Worker, Leave(w), pc[w] = "ran",
           UNCHANGED effects, \A n \in Msg \ {cur[w]} : state'[n] = state[n],
           \/ out[w] = "done" /\ Items'[cur[w]] = "done"
           \/ out[w] # "done" /\ Items'[cur[w]] \in {"open", "closed"}
    PROVE  Contract!Next
<1> DEFINE m == cur[w]
<1>1. m \in Msg /\ m # NoMsg /\ state[m] = "wip"
  BY HolderHasMessage, MsgAssumption DEF HolderInv, HolderOfWip
<1>2. Items[m] = "open"
  BY <1>1, ItemIs
<1>3. Leases' = [Leases EXCEPT ![w] = <<NoMsg, "none">>]
  BY LeaseFreed
<1>4. Items' = [Items EXCEPT ![m] = Items'[m]]
  BY <1>1, OneItem
<1>5. Leases[w] = <<m, IF out[w] = "done" THEN "worked" ELSE "over">>
  BY LeaseIs
<1>6. /\ Leases[w] # Contract!Free /\ Leases[w][1] = m
      /\ Contract!Holds(w, IF out[w] = "done" THEN "worked" ELSE "over")
  BY <1>1, <1>5 DEF Contract!Free, Contract!Holds
<1>7. Contract!Report(w)
  <2>1. CASE out[w] = "done"
    BY <1>2, <1>3, <1>4, <1>6, <2>1 DEF Contract!Report, Contract!Free
  <2>2. CASE out[w] # "done"
    BY <1>2, <1>3, <1>4, <1>6, <2>2 DEF Contract!Report, Contract!Free
  <2> QED
    BY <2>1, <2>2
<1> QED
  BY <1>7 DEF Contract!Next

-----------------------------------------------------------------------------
(* The steps of PgsqlQueue, one by one. *)

LEMMA WorkerSimulation ==
    ASSUME TypeOK, HolderInv, NEW w \in Worker, WorkerStep(w)
    PROVE  [Contract!Next]_(Contract!vars)
<1>1. ASSUME NEW m \in Msg, Eligible(m), Take(w, m)
      PROVE  [Contract!Next]_(Contract!vars)
  <2>1. Items[m] = "open" /\ Items'[m] = "open"
    BY <1>1, ItemIs DEF Eligible, Take, TypeOK, Items
  <2>2. \A n \in Msg \ {m} : Items'[n] = Items[n]
    BY <1>1 DEF Take, TypeOK, Items
  <2>3. \A v \in Worker : Leases'[v] = Leases[v]
    BY <1>1 DEF Take, TypeOK, Leases
  <2>4. Leases' = Leases
    <3>1. Leases = [v \in Worker |-> Leases[v]] /\ Leases' = [v \in Worker |-> Leases'[v]]
      BY DEF Leases
    <3> QED
      BY <2>3, <3>1
  <2> QED
    BY <1>1, <2>1, <2>2, <2>4, Unseen DEF Take
<1>2. CASE GetMessageStd(w) \/ GetMessageFifo(w) \/ GetTarget(w)
  BY <1>1, <1>2 DEF GetMessageStd, GetMessageFifo, GetTarget
<1>3. CASE Store(w)
  <2> DEFINE m == cur[w]
  <2>1. m \in Msg /\ state[m] = "wip" /\ Items[m] = "open"
    BY <1>3, HolderHasMessage, ItemIs DEF Store, HolderInv, HolderOfWip
  <2>2. ~Contract!Leased(m) /\ Leases[w] = Contract!Free
    BY <1>3, NotLeasedYet, LeaseIs DEF Store, Contract!Free
  <2>3. Leases'[w] = <<m, "working">>
    BY <1>3 DEF Store, TypeOK, Leases
  <2>4. Leases' = [Leases EXCEPT ![w] = <<m, "working">>]
    BY <1>3, <2>3, OneLease DEF Store, TypeOK
  <2>5. Items' = Items
    BY <1>3 DEF Store, Items
  <2>6. Contract!Grant(w, m)
    BY <1>3, <2>1, <2>2, <2>4, <2>5 DEF Store, Contract!Grant
  <2> QED
    BY <2>1, <2>6 DEF Contract!Next
<1>4. CASE StoreConflict(w) \/ StoreRaises(w) \/ RecordRefused(w) \/ Crash(w)
  BY <1>4, LosesLease DEF StoreConflict, StoreRaises, RecordRefused, Crash, rowVars
<1>5. CASE StoreMarksFailed(w)
  <2> DEFINE m == cur[w]
  <2>1. m \in Msg /\ state[m] = "wip" /\ Items[m] = "open"
    BY <1>5, HolderHasMessage, ItemIs DEF StoreMarksFailed, HolderInv, HolderOfWip
  <2>2. ~Contract!Leased(m)
    BY <1>5, NotLeasedYet DEF StoreMarksFailed
  <2>3. Items'[m] = "closed"
    BY <1>5, <2>1 DEF StoreMarksFailed, TypeOK, Items
  <2>4. Items' = [Items EXCEPT ![m] = "closed"]
    BY <1>5, <2>1, <2>3, OneItem DEF StoreMarksFailed, TypeOK
  <2>5. Leases' = Leases
    <3>1. Leases = [v \in Worker |-> Leases[v]] /\ Leases[w] = <<NoMsg, "none">>
      BY <1>5, LeaseIs DEF StoreMarksFailed, Leases
    <3> QED
      BY <1>5, <3>1, LeaseFreed DEF StoreMarksFailed
  <2>6. Contract!Shelve({m})
    <3>1. Items' = [n \in Msg |-> IF n \in {m} THEN "closed" ELSE Items[n]]
      BY <2>1, <2>4 DEF Items
    <3> QED
      BY <1>5, <2>1, <2>2, <2>5, <3>1 DEF StoreMarksFailed, Contract!Shelve
  <2> QED
    BY <2>1, <2>6 DEF Contract!Next
<1>6. CASE LogCommit(w)
  BY <1>6, LeasesKept, Unseen DEF LogCommit, rowVars, Items
<1>7. CASE Run(w)
  <2> DEFINE m == cur[w]
  <2>1. m \in Msg /\ m # NoMsg /\ Leases[w] = <<m, "working">>
    BY <1>7, HolderHasMessage, MsgAssumption, LeaseIs DEF Run
  <2>2. Contract!Holds(w, "working") /\ Leases[w][1] = m
    BY <2>1 DEF Contract!Holds
  <2>3. PICK o \in Outcome :
          /\ out' = [out EXCEPT ![w] = ResultState(o, m)]
          /\ effects' = [effects EXCEPT ![m] = IF CommitsJob(o) THEN @ + 1 ELSE @]
    BY <1>7 DEF Run
  <2>4. Items' = Items
    BY <1>7 DEF Run, rowVars, Items
  <2>5. /\ pc'[w] = "ran" /\ cur'[w] = m /\ out'[w] = ResultState(o, m)
        /\ \A v \in Worker \ {w} : pc'[v] = pc[v] /\ cur'[v] = cur[v] /\ out'[v] = out[v]
    BY <1>7, <2>3 DEF Run, TypeOK
  <2>6. CASE o = "ok"
    <3>1. out'[w] = "done" /\ effects' = [effects EXCEPT ![m] = @ + 1]
      BY <2>3, <2>5, <2>6 DEF ResultState, CommitsJob
    <3>2. Leases'[w] = <<m, "worked">>
      BY <2>5, <3>1 DEF Leases
    <3>3. Leases' = [Leases EXCEPT ![w] = <<m, "worked">>]
      BY <2>5, <3>2, OneLease
    <3>4. Contract!Succeed(w)
      BY <2>2, <2>4, <3>1, <3>3 DEF Contract!Succeed
    <3> QED
      BY <3>4 DEF Contract!Next
  <2>7. CASE o # "ok"
    <3>1. out'[w] # "done"
      BY <2>5, <2>7 DEF ResultState
    <3>2. Leases'[w] = <<m, "over">>
      BY <2>5, <3>1 DEF Leases
    <3>3. Leases' = [Leases EXCEPT ![w] = <<m, "over">>]
      BY <2>5, <3>2, OneLease
    <3>4. \E n \in {0, 1} : effects' = [effects EXCEPT ![m] = @ + n]
      <4>1. effects[m] \in Nat
        BY <2>1 DEF TypeOK
      <4>2. effects[m] + 0 = effects[m]
        BY <4>1
      <4> QED
        BY <2>3, <4>2
    <3>5. Contract!Fail(w)
      BY <2>2, <2>4, <3>3, <3>4 DEF Contract!Fail
    <3> QED
      BY <3>5 DEF Contract!Next
  <2> QED
    BY <2>6, <2>7
<1>8. CASE Record(w)
  <2>1. cur[w] \in Msg /\ state'[cur[w]] = out[w]
    BY <1>8, HolderHasMessage DEF Record, TypeOK
  <2>2. out[w] \in {"done", "terminated", "failed", "retry"}
    BY <1>8 DEF Record, TypeOK, ResultStates
  <2>3. \/ out[w] = "done" /\ Items'[cur[w]] = "done"
        \/ out[w] # "done" /\ Items'[cur[w]] \in {"open", "closed"}
    BY <2>1, <2>2 DEF Items
  <2>4. \A n \in Msg \ {cur[w]} : state'[n] = state[n]
    BY <1>8 DEF Record, TypeOK
  <2> QED
    BY <1>8, <2>3, <2>4, Reports DEF Record
<1>9. CASE RecordOperational(w)
  <2>1. cur[w] \in Msg /\ state'[cur[w]] = "failed"
    BY <1>9, HolderHasMessage DEF RecordOperational, TypeOK
  <2>2. out[w] # "done" /\ Items'[cur[w]] \in {"open", "closed"}
    BY <1>9, <2>1 DEF RecordOperational, Items
  <2>3. \A n \in Msg \ {cur[w]} : state'[n] = state[n]
    BY <1>9 DEF RecordOperational, TypeOK
  <2> QED
    BY <1>9, <2>2, <2>3, Reports DEF RecordOperational
<1> QED
  BY <1>2, <1>3, <1>4, <1>5, <1>6, <1>7, <1>8, <1>9 DEF WorkerStep

LEMMA MessageSimulation ==
    ASSUME TimelyEnv, TypeOK, HolderInv, NEW m \in Msg, MessageStep(m)
    PROVE  [Contract!Next]_(Contract!vars)
<1>1. ASSUME UNCHANGED <<pc, cur, out, effects>>, NEW x, Items[m] = "new",
             state' = [state EXCEPT ![m] = x], x \in {"pending", "gone"}
      PROVE  [Contract!Next]_(Contract!vars)
  <2>1. Items'[m] \in {"open", "closed"}
    BY <1>1 DEF TypeOK, Items
  <2>2. Items' = [Items EXCEPT ![m] = Items'[m]]
    BY <1>1, OneItem DEF TypeOK
  <2>3. Contract!Submit(m)
    BY <1>1, <2>1, <2>2, LeasesKept DEF Contract!Submit
  <2> QED
    BY <2>3 DEF Contract!Next
<1>2. CASE SendMessage(m)
  <2>1. Items[m] = "new" /\ Items'[m] = "new"
    BY <1>2 DEF SendMessage, TypeOK, Items
  <2>2. \A n \in Msg : Items'[n] = Items[n]
    BY <1>2, <2>1 DEF SendMessage, TypeOK, Items
  <2> QED
    BY <1>2, <2>2, LeasesKept, Unseen DEF SendMessage
<1>3. CASE EnqueueCommit(m) \/ EnqueueRollback(m)
  <2>1. Items[m] = "new"
    BY <1>3, ItemIs DEF EnqueueCommit, EnqueueRollback
  <2> QED
    BY <1>1, <1>3, <2>1 DEF EnqueueCommit, EnqueueRollback
<1>4. CASE Expire(m) \/ PlanDue(m)
  BY <1>4, LeasesKept, Unseen DEF Expire, PlanDue, workerVars, Items
<1>5. ASSUME Requeue(m), Visible(m), state[m] # "wip"
      PROVE  [Contract!Next]_(Contract!vars)
  <2>1. ~Contract!Leased(m) /\ Leases' = Leases
    BY <1>5, NotLeased, LeasesKept DEF Requeue
  <2>2. Items'[m] = "open" /\ \A n \in Msg \ {m} : state'[n] = state[n]
    BY <1>5 DEF Requeue, TypeOK, Items
  <2>3. Items' = [Items EXCEPT ![m] = "open"]
    BY <2>2, OneItem
  <2>4. CASE Items[m] = "open"
    <3>1. \A n \in Msg : Items'[n] = Items[n]
      BY <2>2, <2>4 DEF Items
    <3> QED
      BY <1>5, <2>1, <3>1, Unseen DEF Requeue
  <2>5. CASE Items[m] \in {"done", "closed"}
    <3>1. Contract!Reopen(m)
      BY <1>5, <2>1, <2>3, <2>5 DEF Requeue, Contract!Reopen
    <3> QED
      BY <3>1 DEF Contract!Next
  <2>6. Items[m] \in {"open", "done", "closed"}
    BY <1>5, ItemIs DEF Visible, VisibleState
  <2> QED
    BY <2>4, <2>5, <2>6
<1>6. CASE RetryProcessing(m)
  BY <1>5, <1>6 DEF RetryProcessing, Visible, VisibleState
<1>7. ~RetryRecovery(m)
  BY DEF RetryRecovery, TimelyEnv
<1>8. CASE Archive(m) \/ Cancel(m)
  <2>1. /\ state[m] \in {"failed", "terminated", "done", "pending", "cancelled", "retry"}
        /\ state'[m] \in {"archived", "cancelled"}
        /\ UNCHANGED <<pc, cur, out, effects>>
        /\ \A n \in Msg \ {m} : state'[n] = state[n]
    BY <1>8 DEF Archive, Cancel, TypeOK
  <2>2. Items[m] \in {"open", "done", "closed"} /\ Items'[m] = "closed"
    BY <2>1 DEF Items
  <2>3. ~Contract!Leased(m)
    BY <2>1, NotLeased
  <2> QED
    BY <2>1, <2>2, <2>3, ShelvedOne
<1> QED
  BY <1>2, <1>3, <1>4, <1>6, <1>7, <1>8 DEF MessageStep

LEMMA Simulation ==
    ASSUME TimelyEnv
    PROVE  TypeOK /\ HolderInv /\ [Next]_vars => [Contract!Next]_(Contract!vars)
<1> SUFFICES ASSUME TypeOK, HolderInv, [Next]_vars
             PROVE  [Contract!Next]_(Contract!vars)
  OBVIOUS
<1>1. CASE \E w \in Worker : WorkerStep(w)
  BY <1>1, WorkerSimulation
<1>2. CASE \E m \in Msg : MessageStep(m)
  BY <1>2, MessageSimulation
<1>3. CASE VisibilityDaemon
  <2> DEFINE S == {m \in Msg : Expired(m) /\ AfterTimeout(m) = "failed"}
  <2>1. \A m \in S : Items[m] = "open" /\ ~Contract!Leased(m)
    BY ItemIs, NotLeased DEF Expired
  <2>2. \A m \in S : Items'[m] = "closed"
    BY <1>3 DEF VisibilityDaemon, Items
  <2>3. \A m \in Msg \ S : Items'[m] = Items[m]
    <3>1. \A m \in Msg : AfterTimeout(m) \in {"pending", "failed"}
      BY DEF AfterTimeout
    <3>2. \A m \in Msg \ S : \/ state'[m] = state[m]
                             \/ state[m] = "wip" /\ state'[m] = "pending"
      BY <1>3, <3>1 DEF VisibilityDaemon, Expired
    <3> QED
      BY <3>2 DEF Items
  <2>4. UNCHANGED <<pc, cur, out, effects>> /\ S \in SUBSET Msg
    BY <1>3 DEF VisibilityDaemon
  <2> QED
    BY <2>1, <2>2, <2>3, <2>4, Shelved
<1>4. CASE Purge
  <2>1. PICK old \in SUBSET Msg :
           state' = [m \in Msg |-> IF m \in old /\ Purgeable(m) THEN "gone" ELSE state[m]]
    BY <1>4 DEF Purge
  <2> DEFINE S == {m \in old : Purgeable(m) /\ Items[m] # "closed"}
  <2>2. \A m \in S : Items[m] \in {"open", "done"} /\ ~Contract!Leased(m)
    BY ItemIs, NotLeased DEF Purgeable, Visible, VisibleState
  <2>3. \A m \in S : Items'[m] = "closed"
    BY <2>1 DEF Items
  <2>4. \A m \in Msg \ S : Items'[m] = Items[m]
    <3>1. \A m \in Msg \ S : \/ state'[m] = state[m]
                             \/ Items[m] = "closed" /\ state'[m] = "gone"
      BY <2>1 DEF Purgeable, Visible
    <3> QED
      BY <3>1 DEF Items
  <2>5. UNCHANGED <<pc, cur, out, effects>> /\ S \in SUBSET Msg
    BY <1>4 DEF Purge
  <2> QED
    BY <2>2, <2>3, <2>4, <2>5, Shelved
<1>5. CASE UNCHANGED vars
  BY <1>5, LeasesKept, Unseen DEF vars, Items
<1> QED
  BY <1>1, <1>2, <1>3, <1>4, <1>5 DEF Next

LEMMA InitialLedger == Init => Contract!Init
<1> SUFFICES ASSUME Init
             PROVE  Contract!Init
  OBVIOUS
<1>1. Items = [m \in Msg |-> "new"]
  BY DEF Init, Items
<1>2. Leases = [w \in Worker |-> Contract!Free]
  BY DEF Init, Leases, Contract!Free
<1> QED
  BY <1>1, <1>2 DEF Init, Contract!Init

(* While deadlines are long enough, and whatever else happens (crashes, lost
   handovers, retries, rollbacks, purges), the queue implements the ledger:
   nothing accepted is closed under a worker, or without a result or a
   request, and only a worker whose own job committed makes a message done. *)
THEOREM ImplementsLedger ==
    ASSUME TimelyEnv
    PROVE  Spec => KeepsContract
<1>1. TypeOK /\ HolderInv /\ [Next]_vars => HolderInv'
  BY HolderStep
<1>2. TypeOK /\ HolderInv /\ [Next]_vars => [Contract!Next]_(Contract!vars)
  BY Simulation
<1> QED
  BY <1>1, <1>2, HolderInit, InitialLedger, TypeCorrect, PTL
     DEF Spec, KeepsContract, Contract!Spec
=============================================================================

-------------------------- MODULE PgsqlRowsProofs --------------------------
(***************************************************************************)
(* What the rows of the PostgreSQL provider record of its executions: the  *)
(* processing rows, the attempt counter, and states that are final.        *)
(***************************************************************************)
EXTENDS PgsqlQueueProofs, FiniteSetTheorems

(* Only storing and recording write processing rows. *)
LEMMA ProcessingKept ==
    ASSUME NEW w \in Worker, WorkerStep(w), ~Store(w), ~Record(w)
    PROVE  UNCHANGED <<proc, runs>>
BY DEF WorkerStep, GetMessageStd, GetMessageFifo, GetTarget, Take, StoreConflict,
       StoreRaises, StoreMarksFailed, LogCommit, Run, RecordOperational,
       RecordRefused, Crash, rowVars

LEMMA ProcessingKeptElsewhere ==
    ASSUME \/ \E m \in Msg : MessageStep(m)
           \/ VisibilityDaemon
           \/ Purge
    PROVE  UNCHANGED <<proc, runs, row, pc, cur>>
BY DEF MessageStep, SendMessage, EnqueueCommit, EnqueueRollback, Expire, PlanDue,
       RetryProcessing, RetryRecovery, Requeue, Archive, Cancel, workerVars,
       VisibilityDaemon, Purge

LEMMA SupersededStep == TypeOK /\ SupersededClosed /\ [Next]_vars => SupersededClosed'
<1> SUFFICES ASSUME TypeOK, SupersededClosed, [Next]_vars
             PROVE  SupersededClosed'
  OBVIOUS
<1>1. ASSUME NEW w \in Worker, Store(w)
      PROVE  SupersededClosed'
  <2> DEFINE m == cur[w]
  <2>1. m \in Msg /\ runs[m] \in 0..MaxRuns
    BY <1>1, HolderHasMessage DEF Store, TypeOK
  <2>2. /\ runs'[m] = runs[m] + 1 /\ proc'[m] = ProcessingRows(m)
        /\ \A n \in Msg \ {m} : runs'[n] = runs[n] /\ proc'[n] = proc[n]
    BY <1>1, <2>1 DEF Store, TypeOK
  <2>3. ASSUME NEW k \in 1..MaxRuns, k < runs[m] + 1
        PROVE  proc'[m][k] # "wip"
    <3>1. k <= runs[m] /\ k # runs[m] + 1
      BY <2>1, <2>3
    <3>2. proc'[m][k] = IF k = runs[m] /\ proc[m][k] = "wip" THEN "reset" ELSE proc[m][k]
      BY <2>2, <3>1 DEF ProcessingRows
    <3>3. k < runs[m] => proc[m][k] # "wip"
      BY <2>1 DEF SupersededClosed
    <3>4. k < runs[m] \/ k = runs[m]
      BY <2>1, <3>1
    <3> QED
      BY <3>2, <3>3, <3>4
  <2> QED
    BY <2>1, <2>2, <2>3 DEF SupersededClosed
<1>2. ASSUME NEW w \in Worker, Record(w)
      PROVE  SupersededClosed'
  <2>1. cur[w] \in Msg /\ row[w] \in 1..MaxRuns
    BY <1>2, HolderHasMessage DEF Record, TypeOK
  <2>2. out[w] # "wip"
    BY DEF TypeOK, ResultStates
  <2>3. runs' = runs /\ proc' = [proc EXCEPT ![cur[w]][row[w]] = out[w]]
    BY <1>2 DEF Record, ProcessingResult
  <2>4. \A n \in Msg, k \in 1..MaxRuns : proc'[n][k] \in {proc[n][k], out[w]}
    BY <2>1, <2>3 DEF TypeOK
  <2> QED
    BY <2>2, <2>3, <2>4 DEF SupersededClosed
<1>3. CASE UNCHANGED <<proc, runs>>
  BY <1>3 DEF SupersededClosed
<1> QED
  BY <1>1, <1>2, <1>3, ProcessingKept, ProcessingKeptElsewhere DEF Next, vars

(* Whatever the environment does, executions that were superseded do not stay
   in progress in the processing rows. *)
THEOREM SupersededAlwaysClosed == Spec => []SupersededClosed
<1>1. Init => SupersededClosed
  BY BoundAssumption DEF Init, SupersededClosed
<1> QED
  BY <1>1, SupersededStep, TypeCorrect, PTL DEF Spec

-----------------------------------------------------------------------------
(* A worker that executes a message has one of its processing rows. *)
RowExists == \A w \in Worker : pc[w] \in {"running", "ran"} => row[w] <= runs[cur[w]]

ProcessingInv == RowExists /\ DoneHasProcessing

LEMMA ProcessingStep == TypeOK /\ ProcessingInv /\ [Next]_vars => ProcessingInv'
<1> SUFFICES ASSUME TypeOK, ProcessingInv, [Next]_vars
             PROVE  ProcessingInv'
  OBVIOUS
<1>1. ASSUME NEW w \in Worker, Store(w)
      PROVE  ProcessingInv'
  <2> DEFINE m == cur[w]
  <2>1. m \in Msg /\ runs[m] \in 0..MaxRuns
    BY <1>1, HolderHasMessage DEF Store, TypeOK
  <2>2. /\ runs'[m] = runs[m] + 1 /\ proc'[m] = ProcessingRows(m)
        /\ \A n \in Msg \ {m} : runs'[n] = runs[n] /\ proc'[n] = proc[n]
        /\ state' = state /\ cur' = cur
    BY <1>1, <2>1 DEF Store, TypeOK
  <2>3. /\ row'[w] = runs[m] + 1
        /\ \A v \in Worker \ {w} : row'[v] = row[v] /\ pc'[v] = pc[v]
    BY <1>1 DEF Store, TypeOK
  <2>4. RowExists'
    <3> SUFFICES ASSUME NEW v \in Worker, pc'[v] \in {"running", "ran"}
                 PROVE  row'[v] <= runs'[cur[v]]
      BY <2>2 DEF RowExists
    <3>1. CASE v = w
      BY <2>1, <2>2, <2>3, <3>1, BoundAssumption
    <3>2. CASE v # w
      <4>1. cur[v] \in Msg /\ row[v] \in 0..MaxRuns /\ row[v] <= runs[cur[v]]
        BY <2>3, <3>2, HolderHasMessage DEF ProcessingInv, RowExists, TypeOK
      <4>2. runs[cur[v]] \in Nat /\ runs'[cur[v]] \in {runs[cur[v]], runs[cur[v]] + 1}
        BY <2>2, <4>1, BoundAssumption DEF TypeOK
      <4> QED
        BY <2>3, <3>2, <4>1, <4>2, BoundAssumption
    <3> QED
      BY <3>1, <3>2
  <2>5. DoneHasProcessing'
    <3>1. ASSUME NEW k \in 1..runs[m], proc[m][k] = "done"
          PROVE  k \in 1..runs'[m] /\ proc'[m][k] = "done"
      <4>1. k \in 1..MaxRuns /\ k # runs[m] + 1 /\ k \in 1..(runs[m] + 1)
        BY <2>1, BoundAssumption
      <4> QED
        BY <2>2, <3>1, <4>1 DEF ProcessingRows
    <3>2. state[m] = "done" => \E k \in 1..runs'[m] : proc'[m][k] = "done"
      BY <2>1, <3>1 DEF ProcessingInv, DoneHasProcessing
    <3> QED
      BY <2>2, <3>2 DEF ProcessingInv, DoneHasProcessing
  <2> QED
    BY <2>4, <2>5 DEF ProcessingInv
<1>2. ASSUME NEW w \in Worker, Record(w)
      PROVE  ProcessingInv'
  <2> DEFINE m == cur[w]
  <2>1. m \in Msg /\ row[w] \in 1..MaxRuns
    BY <1>2, HolderHasMessage DEF Record, TypeOK
  <2>2. /\ runs' = runs /\ state'[m] = out[w]
        /\ proc' = [proc EXCEPT ![m][row[w]] = out[w]]
        /\ \A n \in Msg \ {m} : state'[n] = state[n]
    BY <1>2, <2>1 DEF Record, ProcessingResult, TypeOK
  <2>3. RowExists'
    BY <1>2, <2>2 DEF Record, Leave, ProcessingInv, RowExists, TypeOK
  <2>4. row[w] \in 1..runs[m]
    <3>1. row[w] <= runs[m] /\ runs[m] \in 0..MaxRuns
      BY <1>2, <2>1 DEF Record, ProcessingInv, RowExists, TypeOK
    <3> QED
      BY <2>1, <3>1, BoundAssumption
  <2>5. proc'[m][row[w]] = out[w] /\ \A n \in Msg \ {m} : proc'[n] = proc[n]
    BY <2>1, <2>2 DEF TypeOK
  <2>6. DoneHasProcessing'
    BY <2>2, <2>4, <2>5 DEF ProcessingInv, DoneHasProcessing
  <2> QED
    BY <2>3, <2>6 DEF ProcessingInv
<1>3. ASSUME UNCHANGED <<proc, runs>>, \A m \in Msg : state'[m] = "done" => state[m] = "done"
      PROVE  DoneHasProcessing'
  BY <1>3 DEF ProcessingInv, DoneHasProcessing
<1>4. ASSUME NEW w \in Worker, WorkerStep(w), ~Store(w), ~Record(w)
      PROVE  ProcessingInv'
  <2>1. UNCHANGED <<proc, runs>>
    BY <1>4, ProcessingKept
  <2>2. \A v \in Worker : pc'[v] \in {"running", "ran"} =>
                             /\ pc[v] \in {"running", "ran"}
                             /\ cur'[v] = cur[v] /\ row'[v] = row[v]
    <3>1. CASE \E m \in Msg : Take(w, m)
      BY <3>1 DEF Take, TypeOK
    <3>2. CASE Leave(w)
      BY <3>2 DEF Leave, TypeOK
    <3>3. CASE LogCommit(w) \/ Run(w)
      BY <3>3 DEF LogCommit, Run, TypeOK
    <3> QED
      BY <1>4, <3>1, <3>2, <3>3
         DEF WorkerStep, GetMessageStd, GetMessageFifo, GetTarget, StoreConflict,
             StoreRaises, StoreMarksFailed, RecordOperational, RecordRefused, Crash
  <2>3. \A m \in Msg : state'[m] = "done" => state[m] = "done"
    BY <1>4 DEF WorkerStep, GetMessageStd, GetMessageFifo, GetTarget, Take,
                StoreConflict, StoreRaises, StoreMarksFailed, LogCommit, Run,
                RecordOperational, RecordRefused, Crash, rowVars, TypeOK
  <2> QED
    BY <1>3, <2>1, <2>2, <2>3 DEF ProcessingInv, RowExists
<1>5. ASSUME \/ \E m \in Msg : MessageStep(m)
             \/ VisibilityDaemon
             \/ Purge
      PROVE  ProcessingInv'
  <2>1. UNCHANGED <<proc, runs, row, pc, cur>>
    BY <1>5, ProcessingKeptElsewhere
  <2>2. \A m \in Msg : state'[m] = "done" => state[m] = "done"
    <3>1. CASE \E m \in Msg : MessageStep(m)
      BY <3>1 DEF MessageStep, SendMessage, EnqueueCommit, EnqueueRollback, Expire,
                  PlanDue, RetryProcessing, RetryRecovery, Requeue, Archive, Cancel, TypeOK
    <3>2. CASE VisibilityDaemon
      BY <3>2 DEF VisibilityDaemon, AfterTimeout
    <3>3. CASE Purge
      BY <3>3 DEF Purge
    <3> QED
      BY <1>5, <3>1, <3>2, <3>3
  <2> QED
    BY <1>3, <2>1, <2>2 DEF ProcessingInv, RowExists
<1>6. CASE UNCHANGED vars
  BY <1>6 DEF vars, ProcessingInv, RowExists, DoneHasProcessing
<1> QED
  BY <1>1, <1>2, <1>4, <1>5, <1>6 DEF Next

(* Whatever the environment does, a done message has a done processing row. *)
THEOREM DoneAlwaysHasProcessing == Spec => []DoneHasProcessing
<1>1. Init => ProcessingInv
  BY DEF Init, ProcessingInv, RowExists, DoneHasProcessing
<1>2. ProcessingInv => DoneHasProcessing
  BY DEF ProcessingInv
<1> QED
  BY <1>1, <1>2, ProcessingStep, TypeCorrect, PTL DEF Spec

-----------------------------------------------------------------------------
(* The attempts a message may come to: the limit of the processor, and one
   more for each retry an operator asked for. *)
AttemptLimit == MaxAttempt + (Retries - budget)

(* A message that will be stored again unless something else happens to it. *)
MayRunAgain(m) ==
    \/ state[m] \in {"absent", "inserted", "pending", "retry"}
    \/ \E w \in Worker : cur[w] = m /\ (pc[w] = "got" \/ out[w] = "retry")

(* Such a message is below the limit, and so is what decides that it may run
   again: the number of attempts the last storing left in the row. *)
AttemptInv ==
    \A m \in Msg : /\ attempt[m] <= AttemptLimit
                   /\ attempt[m] > 0 => maxAtt[m] <= AttemptLimit
                   /\ MayRunAgain(m) => attempt[m] < AttemptLimit

LEMMA LimitType ==
    TypeOK => AttemptLimit \in Nat /\ AttemptLimit >= MaxAttempt /\ AttemptLimit > 0
BY MaxAttemptAssumption, BoundAssumption DEF TypeOK, AttemptLimit

(* An attempt below the row's own limit is below the limit of all. *)
LEMMA BelowOwnLimit ==
    ASSUME TypeOK, AttemptInv, NEW m \in Msg, attempt[m] < maxAtt[m]
    PROVE  attempt[m] < AttemptLimit
<1>1. attempt[m] \in Nat /\ maxAtt[m] \in Nat
  BY DEF TypeOK
<1> QED
  BY <1>1, LimitType DEF AttemptInv

LEMMA AttemptKept ==
    ASSUME TypeOK, AttemptInv, UNCHANGED <<attempt, maxAtt, budget>>,
           \A m \in Msg : MayRunAgain(m)' => MayRunAgain(m) \/ attempt[m] < maxAtt[m]
    PROVE  AttemptInv'
<1>1. AttemptLimit' = AttemptLimit
  BY DEF AttemptLimit
<1> QED
  BY <1>1, BelowOwnLimit DEF AttemptInv

LEMMA AttemptWorker ==
    ASSUME TypeOK, HolderInv, AttemptInv, NEW w \in Worker, WorkerStep(w)
    PROVE  AttemptInv'
<1>1. ASSUME NEW m \in Msg, Eligible(m), Take(w, m)
      PROVE  AttemptInv'
  <2>1. UNCHANGED <<attempt, maxAtt, budget>> /\ MayRunAgain(m)
    BY <1>1 DEF Take, Eligible, MayRunAgain
  <2>2. ASSUME NEW n \in Msg \ {m}, MayRunAgain(n)'
        PROVE  MayRunAgain(n)
    BY <1>1, <2>2 DEF Take, MayRunAgain, TypeOK
  <2> QED
    BY <2>1, <2>2, AttemptKept
<1>2. CASE GetMessageStd(w) \/ GetMessageFifo(w) \/ GetTarget(w)
  BY <1>1, <1>2 DEF GetMessageStd, GetMessageFifo, GetTarget
<1>3. CASE Store(w) \/ StoreMarksFailed(w)
  <2>0. PICK m \in Msg : m = cur[w]
    BY <1>3, HolderHasMessage DEF Store, StoreMarksFailed
  <2>1. m = cur[w] /\ pc[w] = "got" /\ budget' = budget
    BY <1>3, <2>0 DEF Store, StoreMarksFailed
  <2>2. AttemptLimit' = AttemptLimit
    BY <2>1 DEF AttemptLimit
  <2>3. attempt[m] < AttemptLimit /\ attempt[m] \in Nat
    BY <2>1 DEF AttemptInv, MayRunAgain, TypeOK
  <2>4. PICK n \in {0, 1} : attempt' = [attempt EXCEPT ![m] = attempt[m] + n]
    <3>1. CASE Store(w)
      BY <2>1, <3>1 DEF Store
    <3>2. CASE StoreMarksFailed(w)
      BY <2>1, <3>2 DEF StoreMarksFailed
    <3> QED
      BY <1>3, <3>1, <3>2
  <2>5. attempt'[m] = attempt[m] + n /\ \A k \in Msg \ {m} : attempt'[k] = attempt[k]
    BY <2>1, <2>4 DEF TypeOK
  <2>6. maxAtt'[m] = MaxAttempt /\ \A k \in Msg \ {m} : maxAtt'[k] = maxAtt[k]
    BY <1>3, <2>1 DEF Store, StoreMarksFailed, TypeOK
  <2>7. attempt'[m] <= AttemptLimit /\ maxAtt'[m] <= AttemptLimit
    BY <2>3, <2>5, <2>6, LimitType
  <2>8. \A v \in Worker \ {w} : cur[v] = m => FALSE
    BY <2>1, MsgAssumption DEF HolderInv, Exclusive, TypeOK
  <2>9. /\ pc'[w] # "got" /\ out'[w] # "retry"
        /\ state'[m] \in {"wip", "failed"}
        /\ \A k \in Msg \ {m} : state'[k] = state[k]
        /\ \A v \in Worker \ {w} : pc'[v] = pc[v] /\ cur'[v] = cur[v] /\ out'[v] = out[v]
    <3>1. state[m] = "wip" /\ out[w] = "none"
      BY <2>1 DEF HolderInv, HolderOfWip, TypeOK
    <3>2. CASE Store(w)
      BY <3>1, <3>2 DEF Store, TypeOK
    <3>3. CASE StoreMarksFailed(w)
      BY <2>1, <3>3 DEF StoreMarksFailed, Leave, TypeOK
    <3> QED
      BY <1>3, <3>2, <3>3
  <2>10. ~MayRunAgain(m)'
    BY <2>8, <2>9 DEF MayRunAgain
  <2>11. \A k \in Msg \ {m} : MayRunAgain(k)' => MayRunAgain(k)
    BY <2>9 DEF MayRunAgain
  <2>12. ASSUME NEW k \in Msg
         PROVE  /\ attempt'[k] <= AttemptLimit'
                /\ attempt'[k] > 0 => maxAtt'[k] <= AttemptLimit'
                /\ MayRunAgain(k)' => attempt'[k] < AttemptLimit'
    <3>1. CASE k = m
      BY <2>2, <2>7, <2>10, <3>1
    <3>2. CASE k # m
      BY <2>2, <2>5, <2>6, <2>11, <3>2 DEF AttemptInv
    <3> QED
      BY <3>1, <3>2
  <2> QED
    BY <2>12 DEF AttemptInv
<1>4. CASE StoreConflict(w) \/ StoreRaises(w) \/ RecordRefused(w) \/ Crash(w)
  <2>1. Leave(w) /\ UNCHANGED <<state, attempt, maxAtt, budget>>
    BY <1>4 DEF StoreConflict, StoreRaises, RecordRefused, Crash, rowVars
  <2>2. \A m \in Msg : MayRunAgain(m)' => MayRunAgain(m)
    BY <2>1 DEF MayRunAgain, Leave, TypeOK
  <2> QED
    BY <2>1, <2>2, AttemptKept
<1>5. CASE LogCommit(w)
  BY <1>5, AttemptKept DEF LogCommit, rowVars, MayRunAgain
<1>6. CASE Run(w)
  <2> DEFINE m == cur[w]
  <2>1. m \in Msg /\ UNCHANGED <<state, attempt, maxAtt, budget, cur>>
    BY <1>6, HolderHasMessage DEF Run, rowVars
  <2>2. PICK o \in Outcome : out' = [out EXCEPT ![w] = ResultState(o, m)]
    BY <1>6 DEF Run
  <2>3. out'[w] = "retry" => attempt[m] < maxAtt[m]
    BY <2>2 DEF ResultState, TypeOK
  <2>4. /\ pc'[w] = "ran"
        /\ \A v \in Worker \ {w} : pc'[v] = pc[v] /\ out'[v] = out[v]
    BY <1>6, <2>2 DEF Run, TypeOK
  <2>5. \A k \in Msg : MayRunAgain(k)' => MayRunAgain(k) \/ attempt[k] < maxAtt[k]
    BY <2>1, <2>3, <2>4 DEF MayRunAgain
  <2> QED
    BY <2>1, <2>5, AttemptKept
<1>7. CASE Record(w) \/ RecordOperational(w)
  <2> DEFINE m == cur[w]
  <2>1. m \in Msg /\ Leave(w) /\ UNCHANGED <<attempt, maxAtt, budget>>
    BY <1>7, HolderHasMessage DEF Record, RecordOperational
  <2>2. /\ state'[m] \in {"done", "terminated", "failed", "retry"}
        /\ state'[m] = "retry" => out[w] = "retry"
        /\ \A k \in Msg \ {m} : state'[k] = state[k]
    BY <1>7, <2>1 DEF Record, RecordOperational, TypeOK, ResultStates
  <2>3. /\ pc'[w] = "idle" /\ out'[w] = "none"
        /\ \A v \in Worker \ {w} : pc'[v] = pc[v] /\ cur'[v] = cur[v] /\ out'[v] = out[v]
    BY <2>1 DEF Leave, TypeOK
  <2>4. \A k \in Msg : MayRunAgain(k)' => MayRunAgain(k)
    BY <2>1, <2>2, <2>3 DEF MayRunAgain
  <2> QED
    BY <2>1, <2>4, AttemptKept
<1> QED
  BY <1>2, <1>3, <1>4, <1>5, <1>6, <1>7 DEF WorkerStep

LEMMA AttemptMessage ==
    ASSUME TypeOK, AttemptInv, NEW m \in Msg, MessageStep(m)
    PROVE  AttemptInv'
<1>1. ASSUME UNCHANGED <<pc, cur, out, attempt, maxAtt, budget>>,
             \A n \in Msg : state'[n] \in {"absent", "inserted", "pending", "retry"}
                           => state[n] \in {"absent", "inserted", "pending", "retry"}
      PROVE  AttemptInv'
  BY <1>1, AttemptKept DEF MayRunAgain
<1>2. CASE SendMessage(m) \/ EnqueueCommit(m) \/ EnqueueRollback(m)
  BY <1>1, <1>2 DEF SendMessage, EnqueueCommit, EnqueueRollback, TypeOK
<1>3. CASE Expire(m) \/ PlanDue(m)
  BY <1>1, <1>3 DEF Expire, PlanDue, workerVars
<1>4. CASE Archive(m) \/ Cancel(m)
  BY <1>1, <1>4 DEF Archive, Cancel, TypeOK
<1>5. CASE RetryProcessing(m) \/ RetryRecovery(m)
  <2>1. Requeue(m)
    BY <1>5 DEF RetryProcessing, RetryRecovery
  <2>2. AttemptLimit' = AttemptLimit + 1
    BY <2>1, BoundAssumption, MaxAttemptAssumption DEF Requeue, TypeOK, AttemptLimit
  <2>3. ASSUME NEW k \in Msg
        PROVE  /\ attempt'[k] <= AttemptLimit'
               /\ attempt'[k] > 0 => maxAtt'[k] <= AttemptLimit'
               /\ MayRunAgain(k)' => attempt'[k] < AttemptLimit'
    <3>1. attempt'[k] = attempt[k] /\ maxAtt'[k] \in {maxAtt[k], maxAtt[k] + 1}
      BY <2>1 DEF Requeue, TypeOK
    <3>2. attempt[k] \in Nat /\ maxAtt[k] \in Nat /\ AttemptLimit \in Nat
      BY LimitType DEF TypeOK
    <3>3. /\ attempt[k] <= AttemptLimit
          /\ attempt[k] > 0 => maxAtt[k] <= AttemptLimit
      BY DEF AttemptInv
    <3> QED
      BY <2>2, <3>1, <3>2, <3>3
  <2> QED
    BY <2>3 DEF AttemptInv
<1> QED
  BY <1>2, <1>3, <1>4, <1>5 DEF MessageStep

LEMMA AttemptStep ==
    ASSUME TimelyEnv
    PROVE  TypeOK /\ HolderInv /\ AttemptInv /\ [Next]_vars => AttemptInv'
<1> SUFFICES ASSUME TypeOK, HolderInv, AttemptInv, [Next]_vars
             PROVE  AttemptInv'
  OBVIOUS
<1>1. CASE \E w \in Worker : WorkerStep(w)
  BY <1>1, AttemptWorker
<1>2. CASE \E m \in Msg : MessageStep(m)
  BY <1>2, AttemptMessage
<1>3. CASE VisibilityDaemon
  <2>1. UNCHANGED <<pc, cur, out, attempt, maxAtt, budget>>
    BY <1>3 DEF VisibilityDaemon
  <2>2. \A m \in Msg : state'[m] = state[m] \/ state'[m] = "failed" \/ attempt[m] < maxAtt[m]
    BY <1>3 DEF VisibilityDaemon, AfterTimeout
  <2>3. \A m \in Msg : MayRunAgain(m)' => MayRunAgain(m) \/ attempt[m] < maxAtt[m]
    BY <2>1, <2>2 DEF MayRunAgain
  <2> QED
    BY <2>1, <2>3, AttemptKept
<1>4. CASE Purge
  <2>1. UNCHANGED <<pc, cur, out, attempt, maxAtt, budget>>
    BY <1>4 DEF Purge
  <2>2. \A m \in Msg : state'[m] = state[m] \/ state'[m] = "gone"
    BY <1>4 DEF Purge
  <2>3. \A m \in Msg : MayRunAgain(m)' => MayRunAgain(m)
    BY <2>1, <2>2 DEF MayRunAgain
  <2> QED
    BY <2>1, <2>3, AttemptKept
<1>5. CASE UNCHANGED vars
  BY <1>5, AttemptKept DEF vars, MayRunAgain
<1> QED
  BY <1>1, <1>2, <1>3, <1>4, <1>5 DEF Next

(* While deadlines are long enough a message is executed no more often than
   its processor allows, and once more for each retry an operator asked for:
   redeliveries, retries by outcome and operators share one counter, and the
   limit that a retry raises is reset by the next storing. *)
THEOREM AttemptsBoundedWhenTimely ==
    ASSUME TimelyEnv
    PROVE  Spec => []AttemptsBounded
<1>1. Init => AttemptInv
  <2> SUFFICES ASSUME Init
               PROVE  AttemptInv
    OBVIOUS
  <2>1. AttemptLimit > 0 /\ AttemptLimit \in Nat
    BY TypeInit, LimitType
  <2> QED
    BY <2>1 DEF Init, AttemptInv
<1>2. TypeOK /\ HolderInv /\ [Next]_vars => HolderInv'
  BY HolderStep
<1>3. TypeOK /\ HolderInv /\ AttemptInv /\ [Next]_vars => AttemptInv'
  BY AttemptStep
<1>4. AttemptInv => AttemptsBounded
  BY DEF AttemptInv, AttemptsBounded, AttemptLimit
<1> QED
  BY <1>1, <1>2, <1>3, <1>4, HolderInit, TypeCorrect, PTL DEF Spec

-----------------------------------------------------------------------------
(* While deadlines are long enough and operators retry only what the form lets
   them retry, a completed message is never taken back: late results, daemons,
   crashes and purges leave it completed, archive it or delete it. *)
THEOREM CompletedStaysWhenTimely ==
    ASSUME TimelyEnv, "retryAny" \notin Env
    PROVE  Spec => CompletedStays
<1> DEFINE Final == {"done", "terminated"}
<1>1. ASSUME TypeOK, HolderInv, [Next]_vars, NEW m \in Msg, state[m] \in Final
      PROVE  state'[m] \in {state[m], "archived", "gone"}
  <2>1. ASSUME NEW w \in Worker, WorkerStep(w)
        PROVE  state'[m] = state[m]
    <3>1. CASE GetMessageStd(w) \/ GetMessageFifo(w) \/ GetTarget(w)
      <4>1. PICK n \in Msg : Eligible(n) /\ Take(w, n)
        BY <3>1 DEF GetMessageStd, GetMessageFifo, GetTarget
      <4>2. n # m
        BY <1>1, <4>1 DEF Eligible
      <4> QED
        BY <4>1, <4>2 DEF Take, TypeOK
    <3>2. CASE \/ Store(w) \/ StoreConflict(w) \/ StoreRaises(w) \/ LogCommit(w)
               \/ Run(w) \/ RecordRefused(w) \/ Crash(w)
      BY <3>2 DEF Store, StoreConflict, StoreRaises, LogCommit, Run, RecordRefused,
                  Crash, rowVars
    <3>3. CASE StoreMarksFailed(w) \/ Record(w) \/ RecordOperational(w)
      <4>1. pc[w] # "idle"
        BY <3>3 DEF StoreMarksFailed, Record, RecordOperational
      <4>2. cur[w] # m
        BY <1>1, <4>1 DEF HolderInv, HolderOfWip
      <4> QED
        BY <1>1, <3>3, <4>2 DEF StoreMarksFailed, Record, RecordOperational, TypeOK
    <3> QED
      BY <2>1, <3>1, <3>2, <3>3 DEF WorkerStep
  <2>2. ASSUME NEW n \in Msg, MessageStep(n)
        PROVE  state'[m] \in {state[m], "archived", "gone"}
    BY <1>1, <2>2 DEF MessageStep, SendMessage, EnqueueCommit, EnqueueRollback, Expire,
                      PlanDue, RetryProcessing, RetryRecovery, Requeue, Archive, Cancel,
                      TimelyEnv, TypeOK
  <2>3. CASE VisibilityDaemon
    BY <1>1, <2>3 DEF VisibilityDaemon, Expired
  <2>4. CASE Purge
    BY <1>1, <2>4 DEF Purge
  <2>5. CASE UNCHANGED vars
    BY <2>5 DEF vars
  <2> QED
    BY <1>1, <2>1, <2>2, <2>3, <2>4, <2>5 DEF Next
<1>2. TypeOK /\ HolderInv /\ [Next]_vars =>
          [\A m \in Msg : state[m] \in {"done", "terminated"}
                          => state'[m] \in {state[m], "archived", "gone"}]_state
  BY <1>1
<1>3. TypeOK /\ HolderInv /\ [Next]_vars => HolderInv'
  BY HolderStep
<1> QED
  BY <1>2, <1>3, HolderInit, TypeCorrect, PTL DEF Spec, CompletedStays

-----------------------------------------------------------------------------
(* How often the job of a message commits: at least once to be done, and once
   more for each execution that was abandoned. *)

(* Tasks end before their deadline, operators retry failed messages only, and
   no job keeps its work while it reports a failure (which may be retried). *)
OnceEnv ==
    /\ TimelyEnv
    /\ "retryAny" \notin Env
    /\ "imqerror" \notin Outcome

(* States from which a message may still be executed. *)
OpenState == {"absent", "inserted", "pending", "retry", "wip", "failed", "cancelled"}

(* The job of m may commit (again): nobody holds the commit of an execution. *)
MayCommit(m) ==
    state[m] \in OpenState /\ \A w \in Worker : cur[w] = m => out[w] # "done"

(* Each commit but one, and each commit if another may follow, is one of an
   abandoned execution. *)
Traced(m) ==
    /\ effects[m] <= 1 + Cardinality(Abandoned(m))
    /\ MayCommit(m) => effects[m] <= Cardinality(Abandoned(m))

(* A worker's own processing row is in progress. *)
RowInProgress ==
    \A w \in Worker : pc[w] \in {"running", "ran"} =>
        /\ row[w] <= runs[cur[w]]
        /\ proc[cur[w]][row[w]] = "wip"

TraceInv == RowInProgress /\ \A m \in Msg : Traced(m)

-----------------------------------------------------------------------------
LEMMA RowsFinite ==
    ASSUME NEW r \in 0..MaxRuns, NEW S \in SUBSET (1..r)
    PROVE  IsFiniteSet(S) /\ Cardinality(S) \in Nat
<1>1. r \in Int
  BY BoundAssumption
<1>2. IsFiniteSet(1..r)
  BY <1>1, FS_Interval
<1>3. IsFiniteSet(S)
  BY <1>2, FS_Subset
<1> QED
  BY <1>3, FS_CardinalityType

LEMMA AbandonedFinite ==
    ASSUME TypeOK, NEW m \in Msg
    PROVE  /\ IsFiniteSet(Abandoned(m)) /\ Cardinality(Abandoned(m)) \in Nat
           /\ effects[m] \in Nat
<1>1. runs[m] \in 0..MaxRuns /\ effects[m] \in Nat
  BY DEF TypeOK
<1>2. Abandoned(m) \in SUBSET (1..runs[m])
  BY DEF Abandoned
<1> QED
  BY <1>1, <1>2, RowsFinite

LEMMA AbandonedFiniteNext ==
    ASSUME TypeOK', NEW m \in Msg
    PROVE  IsFiniteSet(Abandoned(m)') /\ Cardinality(Abandoned(m)') \in Nat
<1>1. runs'[m] \in 0..MaxRuns
  BY DEF TypeOK
<1>2. Abandoned(m)' \in SUBSET (1..runs'[m])
  BY DEF Abandoned
<1> QED
  BY <1>1, <1>2, RowsFinite

(* No commit, no execution taken out of the abandoned ones, and no new way to
   commit: the message stays traced. *)
LEMMA TracedKept ==
    ASSUME TypeOK, TypeOK', NEW m \in Msg, Traced(m), effects'[m] = effects[m],
           Abandoned(m) \subseteq Abandoned(m)', MayCommit(m)' => MayCommit(m)
    PROVE  Traced(m)'
<1>1. /\ Cardinality(Abandoned(m)) \in Nat /\ effects[m] \in Nat
      /\ IsFiniteSet(Abandoned(m)') /\ Cardinality(Abandoned(m)') \in Nat
  BY AbandonedFinite, AbandonedFiniteNext
<1>2. Cardinality(Abandoned(m)) <= Cardinality(Abandoned(m)')
  BY <1>1, FS_Subset
<1> QED
  BY <1>1, <1>2 DEF Traced

(* A commit that was made is kept, or its execution becomes an abandoned one. *)
LEMMA TracedByLoss ==
    ASSUME TypeOK, TypeOK', NEW m \in Msg, Traced(m), effects'[m] = effects[m],
           NEW k, k \notin Abandoned(m), Abandoned(m) \cup {k} \subseteq Abandoned(m)'
    PROVE  Traced(m)'
<1>1. /\ Cardinality(Abandoned(m)) \in Nat /\ effects[m] \in Nat
      /\ IsFiniteSet(Abandoned(m)) /\ IsFiniteSet(Abandoned(m)')
      /\ Cardinality(Abandoned(m)') \in Nat
  BY AbandonedFinite, AbandonedFiniteNext
<1>2. Cardinality(Abandoned(m) \cup {k}) = Cardinality(Abandoned(m)) + 1
  BY <1>1, FS_AddElement
<1>3. Cardinality(Abandoned(m) \cup {k}) <= Cardinality(Abandoned(m)')
  BY <1>1, FS_Subset
<1> QED
  BY <1>1, <1>2, <1>3 DEF Traced

(* Rows stay abandoned while nobody writes them. *)
LEMMA AbandonedGrows ==
    ASSUME TypeOK, NEW m \in Msg, runs'[m] \in Nat, runs'[m] >= runs[m],
           \A k \in Abandoned(m) : proc'[m][k] \in {"wip", "reset"},
           \A v \in Worker : \/ row'[v] = 0
                             \/ cur'[v] = cur[v] /\ row'[v] = row[v]
                             \/ row'[v] > runs[m]
    PROVE  Abandoned(m) \subseteq Abandoned(m)'
<1> SUFFICES ASSUME NEW k \in Abandoned(m)
             PROVE  k \in Abandoned(m)'
  OBVIOUS
<1>1. runs[m] \in Nat /\ k \in 1..runs[m] /\ \A w \in Worker : ~(cur[w] = m /\ row[w] = k)
  BY BoundAssumption DEF Abandoned, TypeOK
<1>2. k \in 1..runs'[m]
  BY <1>1
<1>3. ASSUME NEW v \in Worker, cur'[v] = m, row'[v] = k
      PROVE  FALSE
  <2>1. k # 0 /\ ~(k > runs[m])
    BY <1>1
  <2> QED
    BY <1>1, <1>3, <2>1
<1> QED
  BY <1>2, <1>3 DEF Abandoned

(* A worker alone on its message changes what others hold in no way. *)
LEMMA Alone ==
    ASSUME TypeOK, HolderInv, NEW w \in Worker, pc[w] # "idle",
           NEW v \in Worker \ {w}
    PROVE  cur[v] # cur[w]
BY HolderHasMessage, MsgAssumption DEF HolderInv, Exclusive, TypeOK

-----------------------------------------------------------------------------
(* Steps that neither end an execution nor begin one. *)
LEMMA TraceQuiet ==
    ASSUME TypeOK, TypeOK', TraceInv, UNCHANGED <<proc, runs, row, effects, out>>,
           \A w \in Worker : cur'[w] = cur[w] \/ (row[w] = 0 /\ out[w] = "none"),
           \A w \in Worker : pc'[w] \in {"running", "ran"} => pc[w] \in {"running", "ran"},
           \A m \in Msg : state'[m] \in OpenState => state[m] \in OpenState
    PROVE  TraceInv'
<1>1. RowInProgress'
  BY DEF TraceInv, RowInProgress, TypeOK
<1>2. ASSUME NEW m \in Msg
      PROVE  Traced(m)'
  <2>1. \A k \in Abandoned(m) : proc'[m][k] \in {"wip", "reset"}
    BY DEF Abandoned
  <2>2. runs'[m] \in Nat /\ runs'[m] >= runs[m]
    BY BoundAssumption DEF TypeOK
  <2>3. Abandoned(m) \subseteq Abandoned(m)'
    BY <2>1, <2>2, AbandonedGrows
  <2>4. \A w \in Worker : out[w] = "done" => cur'[w] = cur[w]
    OBVIOUS
  <2>5. MayCommit(m)' => MayCommit(m)
    BY <2>4 DEF MayCommit
  <2> QED
    BY <2>3, <2>5, TracedKept DEF TraceInv
<1> QED
  BY <1>1, <1>2 DEF TraceInv

(* A worker leaves its message without writing its processing row: the
   execution it may have begun is abandoned, with its commit if it had one. *)
LEMMA TraceLeave ==
    ASSUME TypeOK, TypeOK', HolderInv, TraceInv, NEW w \in Worker, pc[w] # "idle",
           Leave(w), UNCHANGED <<proc, runs, effects>>,
           \A n \in Msg : state'[n] \in OpenState => state[n] \in OpenState
    PROVE  TraceInv'
<1>1. /\ row'[w] = 0 /\ cur'[w] = NoMsg /\ pc'[w] = "idle"
      /\ \A v \in Worker \ {w} : /\ pc'[v] = pc[v] /\ cur'[v] = cur[v]
                                 /\ row'[v] = row[v] /\ out'[v] = out[v]
  BY DEF Leave, TypeOK
<1>2. RowInProgress'
  BY <1>1 DEF TraceInv, RowInProgress
<1>3. ASSUME NEW m \in Msg
      PROVE  Abandoned(m) \subseteq Abandoned(m)'
  <2>1. \A k \in Abandoned(m) : proc'[m][k] \in {"wip", "reset"}
    BY DEF Abandoned
  <2>2. runs'[m] \in Nat /\ runs'[m] >= runs[m]
    BY BoundAssumption DEF TypeOK
  <2> QED
    BY <1>1, <2>1, <2>2, AbandonedGrows
<1>4. ASSUME NEW m \in Msg
      PROVE  Traced(m)'
  <2>1. CASE cur[w] = m /\ out[w] = "done"
    <3>1. pc[w] = "ran" /\ row[w] \in 1..MaxRuns
      BY <2>1 DEF TypeOK
    <3>2. row[w] <= runs[m] /\ runs[m] \in 0..MaxRuns /\ proc[m][row[w]] = "wip"
      BY <2>1, <3>1 DEF TraceInv, RowInProgress, TypeOK
    <3>3. row[w] \in 1..runs[m]
      BY <3>1, <3>2, BoundAssumption
    <3>4. row[w] \notin Abandoned(m)
      BY <2>1 DEF Abandoned
    <3>5. \A v \in Worker : cur'[v] # m
      BY <1>1, <2>1, Alone, MsgAssumption
    <3>6. row[w] \in Abandoned(m)'
      BY <3>2, <3>3, <3>5 DEF Abandoned
    <3> QED
      BY <1>3, <3>4, <3>6, TracedByLoss DEF TraceInv
  <2>2. CASE ~(cur[w] = m /\ out[w] = "done")
    <3>1. MayCommit(m)' => MayCommit(m)
      BY <1>1, <2>2 DEF MayCommit
    <3> QED
      BY <1>3, <3>1, TracedKept DEF TraceInv
  <2> QED
    BY <2>1, <2>2
<1> QED
  BY <1>2, <1>4 DEF TraceInv

LEMMA TraceStore ==
    ASSUME TypeOK, TypeOK', HolderInv, TraceInv, NEW w \in Worker, Store(w)
    PROVE  TraceInv'
<1>1. PICK m \in Msg : m = cur[w]
  BY HolderHasMessage DEF Store
<1>2. /\ pc[w] = "got" /\ state[m] = "wip"
      /\ runs[m] \in Nat /\ runs[m] + 1 \in 1..MaxRuns
  BY <1>1, BoundAssumption DEF Store, HolderInv, HolderOfWip, TypeOK
<1>3. /\ UNCHANGED <<state, cur, out, effects>>
      /\ row' = [row EXCEPT ![w] = runs[m] + 1]
      /\ pc' = [pc EXCEPT ![w] = "running"]
      /\ runs' = [runs EXCEPT ![m] = runs[m] + 1]
      /\ proc' = [proc EXCEPT ![m] = ProcessingRows(m)]
  BY <1>1 DEF Store
<1>4. /\ row'[w] = runs[m] + 1 /\ runs'[m] = runs[m] + 1 /\ proc'[m] = ProcessingRows(m)
      /\ \A v \in Worker \ {w} : pc'[v] = pc[v] /\ row'[v] = row[v] /\ cur[v] # m
      /\ \A n \in Msg \ {m} : runs'[n] = runs[n] /\ proc'[n] = proc[n]
  <2>1. /\ row \in [Worker -> 0..MaxRuns] /\ pc \in [Worker -> {"idle", "got", "running", "ran"}]
        /\ runs \in [Msg -> 0..MaxRuns] /\ DOMAIN proc = Msg
    BY DEF TypeOK
  <2>2. \A v \in Worker \ {w} : cur[v] # m
    BY <1>1, <1>2, Alone
  <2>3. row'[w] = runs[m] + 1 /\ \A v \in Worker \ {w} : pc'[v] = pc[v] /\ row'[v] = row[v]
    BY <1>3, <2>1
  <2>4. /\ runs'[m] = runs[m] + 1 /\ \A n \in Msg \ {m} : runs'[n] = runs[n]
        /\ proc'[m] = ProcessingRows(m) /\ \A n \in Msg \ {m} : proc'[n] = proc[n]
    BY <1>3, <2>1
  <2> QED
    BY <2>2, <2>3, <2>4
<1>5. RowInProgress'
  <2> SUFFICES ASSUME NEW v \in Worker, pc'[v] \in {"running", "ran"}
               PROVE  row'[v] <= runs'[cur[v]] /\ proc'[cur[v]][row'[v]] = "wip"
    BY <1>3 DEF RowInProgress
  <2>1. CASE v = w
    <3>1. ProcessingRows(m)[runs[m] + 1] = "wip"
      BY <1>2 DEF ProcessingRows
    <3> QED
      BY <1>1, <1>2, <1>4, <2>1, <3>1
  <2>2. CASE v # w
    <3>1. pc[v] \in {"running", "ran"} /\ cur[v] # m /\ row'[v] = row[v]
      BY <1>4, <2>2
    <3>2. cur[v] \in Msg \ {m}
      BY <3>1, HolderHasMessage
    <3> QED
      BY <1>4, <3>1, <3>2 DEF TraceInv, RowInProgress
  <2> QED
    BY <2>1, <2>2
<1>6. ASSUME NEW n \in Msg
      PROVE  Traced(n)'
  <2>1. \A k \in Abandoned(n) : proc'[n][k] \in {"wip", "reset"}
    <3>1. CASE n # m
      BY <1>4, <3>1 DEF Abandoned
    <3>2. CASE n = m
      <4>1. ASSUME NEW k \in Abandoned(n)
            PROVE  /\ k \in 1..MaxRuns /\ k # runs[m] + 1
                   /\ proc[m][k] \in {"wip", "reset"}
        <5>1. k \in 1..runs[m] /\ proc[m][k] \in {"wip", "reset"}
          BY <3>2 DEF Abandoned
        <5> QED
          BY <1>2, <5>1, BoundAssumption
      <4> QED
        BY <1>4, <3>2, <4>1 DEF ProcessingRows
    <3> QED
      BY <3>1, <3>2
  <2>2. /\ runs[n] \in Nat /\ runs'[n] \in Nat /\ runs'[n] >= runs[n]
    <3>1. runs[n] \in Nat
      BY BoundAssumption DEF TypeOK
    <3>2. runs'[n] = runs[n] \/ runs'[n] = runs[n] + 1
      BY <1>4
    <3> QED
      BY <3>1, <3>2
  <2>3. Abandoned(n) \subseteq Abandoned(n)'
    <3>1. CASE n = m
      <4>1. row'[w] > runs[n]
        BY <1>2, <1>4, <3>1
      <4> QED
        BY <1>3, <1>4, <2>1, <2>2, <4>1, AbandonedGrows
    <3>2. CASE n # m
      <4>1. runs'[n] = runs[n] /\ proc'[n] = proc[n]
        BY <1>4, <3>2
      <4>2. \A v \in Worker : cur'[v] = n => row'[v] = row[v] /\ cur[v] = n
        BY <1>1, <1>3, <1>4, <3>2
      <4> QED
        BY <4>1, <4>2 DEF Abandoned
    <3> QED
      BY <3>1, <3>2
  <2>4. MayCommit(n)' => MayCommit(n)
    BY <1>3 DEF MayCommit
  <2> QED
    BY <1>3, <2>3, <2>4, TracedKept DEF TraceInv
<1> QED
  BY <1>5, <1>6 DEF TraceInv

LEMMA TraceRun ==
    ASSUME OnceEnv, TypeOK, TypeOK', HolderInv, TraceInv, NEW w \in Worker, Run(w)
    PROVE  TraceInv'
<1>1. PICK m \in Msg : m = cur[w]
  BY HolderHasMessage DEF Run
<1>2. /\ UNCHANGED <<state, proc, runs, cur, row>>
      /\ pc' = [pc EXCEPT ![w] = "ran"] /\ pc[w] = "running"
  BY DEF Run, rowVars
<1>3. PICK o \in Outcome :
         /\ out' = [out EXCEPT ![w] = ResultState(o, m)]
         /\ effects' = [effects EXCEPT ![m] = IF CommitsJob(o) THEN @ + 1 ELSE @]
  BY <1>1 DEF Run
<1>4. RowInProgress'
  BY <1>2 DEF TraceInv, RowInProgress, TypeOK
<1>5. \A n \in Msg : Abandoned(n)' = Abandoned(n)
  BY <1>2 DEF Abandoned
<1>6. out'[w] = ResultState(o, m) /\ \A v \in Worker \ {w} : out'[v] = out[v]
  BY <1>3 DEF TypeOK
<1>7. \A v \in Worker \ {w} : cur[v] # m
  BY <1>1, <1>2, Alone
<1>8. out[w] = "none"
  BY <1>2 DEF TypeOK
<1>9. ASSUME NEW n \in Msg, n # m \/ o # "ok"
      PROVE  Traced(n)'
  <2>1. effects'[n] = effects[n]
    <3>1. n = m => ~CommitsJob(o)
      BY <1>9 DEF CommitsJob, OnceEnv
    <3> QED
      BY <1>3, <3>1 DEF TypeOK
  <2>2. MayCommit(n)' => MayCommit(n)
    BY <1>1, <1>2, <1>6, <1>8 DEF MayCommit
  <2> QED
    BY <1>5, <2>1, <2>2, TracedKept DEF TraceInv
<1>10. ASSUME o = "ok"
       PROVE  Traced(m)'
  <2>1. state[m] = "wip"
    BY <1>1, <1>2 DEF HolderInv, HolderOfWip
  <2>2. MayCommit(m)
    BY <1>7, <1>8, <2>1 DEF MayCommit, OpenState
  <2>3. effects'[m] = effects[m] + 1
    BY <1>3, <1>10 DEF CommitsJob, TypeOK
  <2>4. ~MayCommit(m)'
    BY <1>1, <1>2, <1>6, <1>10 DEF MayCommit, ResultState
  <2>5. effects[m] <= Cardinality(Abandoned(m)) /\ Traced(m)
    BY <2>2 DEF TraceInv, Traced
  <2>6. Cardinality(Abandoned(m)) \in Nat /\ effects[m] \in Nat
    BY AbandonedFinite
  <2>7. effects'[m] <= 1 + Cardinality(Abandoned(m)')
    BY <1>5, <2>3, <2>5, <2>6
  <2> QED
    BY <2>4, <2>7 DEF Traced
<1> QED
  BY <1>4, <1>9, <1>10 DEF TraceInv

LEMMA TraceRecord ==
    ASSUME TypeOK, TypeOK', HolderInv, TraceInv, NEW w \in Worker, Record(w)
    PROVE  TraceInv'
<1>1. PICK m \in Msg : m = cur[w]
  BY HolderHasMessage DEF Record
<1>2. /\ pc[w] = "ran" /\ state[m] = "wip" /\ row[w] \in 1..MaxRuns
      /\ UNCHANGED <<runs, effects>> /\ Leave(w)
      /\ proc' = [proc EXCEPT ![m][row[w]] = out[w]]
      /\ state' = [state EXCEPT ![m] = out[w]]
  BY <1>1 DEF Record, HolderInv, HolderOfWip, TypeOK, ProcessingResult
<1>3. /\ row'[w] = 0 /\ cur'[w] = NoMsg /\ pc'[w] = "idle"
      /\ \A v \in Worker \ {w} : /\ pc'[v] = pc[v] /\ cur'[v] = cur[v]
                                 /\ row'[v] = row[v] /\ out'[v] = out[v]
  BY <1>2 DEF Leave, TypeOK
<1>4. /\ \A n \in Msg \ {m} : proc'[n] = proc[n] /\ state'[n] = state[n]
      /\ \A k \in 1..MaxRuns : k # row[w] => proc'[m][k] = proc[m][k]
      /\ state'[m] = out[w]
  BY <1>2 DEF TypeOK
<1>5. \A v \in Worker \ {w} : cur[v] # m
  BY <1>1, <1>2, Alone
<1>6. RowInProgress'
  <2> SUFFICES ASSUME NEW v \in Worker, pc'[v] \in {"running", "ran"}
               PROVE  row'[v] <= runs'[cur'[v]] /\ proc'[cur'[v]][row'[v]] = "wip"
    BY DEF RowInProgress
  <2>1. v # w /\ pc[v] \in {"running", "ran"} /\ cur[v] # m
    BY <1>3, <1>5
  <2>2. cur[v] \in Msg \ {m}
    BY <2>1, HolderHasMessage
  <2> QED
    BY <1>2, <1>3, <1>4, <2>1, <2>2 DEF TraceInv, RowInProgress
<1>7. ASSUME NEW n \in Msg
      PROVE  Traced(n)'
  <2>1. \A k \in Abandoned(n) : proc'[n][k] \in {"wip", "reset"}
    <3>1. CASE n # m
      BY <1>4, <3>1 DEF Abandoned
    <3>2. CASE n = m
      <4>1. ASSUME NEW k \in Abandoned(n)
            PROVE  k \in 1..MaxRuns /\ k # row[w] /\ proc[m][k] \in {"wip", "reset"}
        <5>1. k \in 1..runs[m] /\ k # row[w] /\ proc[m][k] \in {"wip", "reset"}
          BY <1>1, <3>2 DEF Abandoned
        <5>2. runs[m] \in 0..MaxRuns
          BY DEF TypeOK
        <5> QED
          BY <5>1, <5>2, BoundAssumption
      <4> QED
        BY <1>4, <3>2, <4>1
    <3> QED
      BY <3>1, <3>2
  <2>2. runs[n] \in Nat /\ runs'[n] = runs[n]
    BY <1>2, BoundAssumption DEF TypeOK
  <2>3. Abandoned(n) \subseteq Abandoned(n)'
    BY <1>3, <2>1, <2>2, AbandonedGrows
  <2>4. MayCommit(n)' => MayCommit(n)
    <3>1. CASE n # m
      BY <1>1, <1>3, <1>4, <3>1 DEF MayCommit
    <3>2. CASE n = m
      <4>1. MayCommit(n)' => out[w] # "done"
        BY <1>4, <3>2 DEF MayCommit, OpenState
      <4> QED
        BY <1>1, <1>2, <1>5, <3>2, <4>1 DEF MayCommit, OpenState
    <3> QED
      BY <3>1, <3>2
  <2> QED
    BY <1>2, <2>3, <2>4, TracedKept DEF TraceInv
<1> QED
  BY <1>6, <1>7 DEF TraceInv

LEMMA TraceStep ==
    ASSUME OnceEnv
    PROVE  TypeOK /\ HolderInv /\ TraceInv /\ [Next]_vars => TraceInv'
<1> SUFFICES ASSUME TypeOK, HolderInv, TraceInv, [Next]_vars
             PROVE  TraceInv'
  OBVIOUS
<1>0. TypeOK'
  BY TypeStep
<1>1. ASSUME NEW w \in Worker, WorkerStep(w)
      PROVE  TraceInv'
  <2>1. ASSUME NEW m \in Msg, Eligible(m), Take(w, m)
        PROVE  TraceInv'
    <3>1. /\ UNCHANGED <<proc, runs, row, effects, out>>
          /\ pc[w] = "idle" /\ row[w] = 0 /\ out[w] = "none"
          /\ \A v \in Worker \ {w} : pc'[v] = pc[v] /\ cur'[v] = cur[v]
          /\ pc'[w] = "got"
      BY <2>1 DEF Take, TypeOK
    <3>2. \A n \in Msg : state'[n] \in OpenState => state[n] \in OpenState
      BY <2>1 DEF Take, Eligible, OpenState, TypeOK
    <3>3. \A v \in Worker : cur'[v] = cur[v] \/ (row[v] = 0 /\ out[v] = "none")
      BY <3>1
    <3>4. \A v \in Worker : pc'[v] \in {"running", "ran"} => pc[v] \in {"running", "ran"}
      BY <3>1
    <3> QED
      BY <1>0, <3>1, <3>2, <3>3, <3>4, TraceQuiet
  <2>2. CASE GetMessageStd(w) \/ GetMessageFifo(w) \/ GetTarget(w)
    BY <2>1, <2>2 DEF GetMessageStd, GetMessageFifo, GetTarget
  <2>3. CASE LogCommit(w)
    BY <1>0, <2>3, TraceQuiet DEF LogCommit, rowVars
  <2>4. CASE StoreConflict(w) \/ StoreRaises(w) \/ RecordRefused(w) \/ Crash(w)
    <3>1. /\ Leave(w) /\ pc[w] # "idle" /\ UNCHANGED <<state, proc, runs, effects>>
      BY <2>4 DEF StoreConflict, StoreRaises, RecordRefused, Crash, rowVars
    <3> QED
      BY <1>0, <3>1, TraceLeave
  <2>5. CASE StoreMarksFailed(w) \/ RecordOperational(w)
    <3>1. /\ Leave(w) /\ pc[w] # "idle" /\ UNCHANGED <<proc, runs, effects>>
          /\ state' = [state EXCEPT ![cur[w]] = "failed"]
      BY <2>5 DEF StoreMarksFailed, RecordOperational
    <3>2. state[cur[w]] = "wip"
      BY <3>1 DEF HolderInv, HolderOfWip
    <3>3. \A n \in Msg : state'[n] \in OpenState => state[n] \in OpenState
      BY <3>1, <3>2 DEF OpenState, TypeOK
    <3> QED
      BY <1>0, <3>1, <3>3, TraceLeave
  <2> QED
    BY <1>0, <1>1, <2>2, <2>3, <2>4, <2>5, TraceStore, TraceRun, TraceRecord DEF WorkerStep
<1>2. ASSUME UNCHANGED <<proc, runs, row, effects, out, cur, pc>>,
             \A m \in Msg : state'[m] \in OpenState => state[m] \in OpenState
      PROVE  TraceInv'
  BY <1>0, <1>2, TraceQuiet
<1>3. ASSUME NEW m \in Msg, MessageStep(m)
      PROVE  TraceInv'
  <2>1. UNCHANGED <<proc, runs, row, effects, out, cur, pc>>
    BY <1>3 DEF MessageStep, SendMessage, EnqueueCommit, EnqueueRollback, Expire, PlanDue,
                RetryProcessing, RetryRecovery, Requeue, Archive, Cancel, workerVars
  <2>2. /\ \A n \in Msg \ {m} : state'[n] = state[n]
        /\ state[m] \in OpenState \/ state'[m] \in {state[m], "archived"}
    BY <1>3 DEF MessageStep, SendMessage, EnqueueCommit, EnqueueRollback, Expire, PlanDue,
                RetryProcessing, RetryRecovery, Requeue, Archive, Cancel, TypeOK,
                OpenState, OnceEnv
  <2>3. \A n \in Msg : state'[n] \in OpenState => state[n] \in OpenState
    BY <2>2 DEF OpenState
  <2> QED
    BY <1>2, <2>1, <2>3
<1>4. CASE VisibilityDaemon
  <2>1. \A m \in Msg : state'[m] = state[m] \/ state[m] = "wip"
    BY <1>4 DEF VisibilityDaemon, Expired
  <2> QED
    BY <1>2, <1>4, <2>1 DEF VisibilityDaemon, OpenState
<1>5. CASE Purge
  <2>1. \A m \in Msg : state'[m] = state[m] \/ state'[m] = "gone"
    BY <1>5 DEF Purge
  <2> QED
    BY <1>2, <1>5, <2>1 DEF Purge, OpenState
<1>6. CASE UNCHANGED vars
  BY <1>2, <1>6 DEF vars
<1> QED
  BY <1>1, <1>3, <1>4, <1>5, <1>6 DEF Next

(* While deadlines are long enough, the job of a message commits once, and
   once more at most for each execution whose worker was lost before it could
   record the result: for any crashes, conflicts, retries and redeliveries,
   the processing rows tell how often a job may have been done twice. *)
THEOREM DuplicatesAlwaysTraced ==
    ASSUME OnceEnv
    PROVE  Spec => []DuplicatesTraced
<1>1. Init => TraceInv
  <2> SUFFICES ASSUME Init
               PROVE  TraceInv
    OBVIOUS
  <2>1. RowInProgress
    BY DEF Init, RowInProgress
  <2>2. ASSUME NEW m \in Msg
        PROVE  Traced(m)
    <3>1. Cardinality(Abandoned(m)) \in Nat /\ effects[m] = 0
      BY TypeInit, AbandonedFinite DEF Init
    <3> QED
      BY <3>1 DEF Traced
  <2> QED
    BY <2>1, <2>2 DEF TraceInv
<1>2. TypeOK /\ HolderInv /\ [Next]_vars => HolderInv'
  BY HolderStep DEF OnceEnv
<1>3. TypeOK /\ HolderInv /\ TraceInv /\ [Next]_vars => TraceInv'
  BY TraceStep
<1>4. TraceInv => DuplicatesTraced
  BY DEF TraceInv, Traced, DuplicatesTraced
<1> QED
  BY <1>1, <1>2, <1>3, <1>4, HolderInit, TypeCorrect, PTL DEF Spec
=============================================================================

----------------------------- MODULE PgsqlQueue -----------------------------
(***************************************************************************)
(* One queue of the PostgreSQL provider: the rows of imq_message, the      *)
(* workers that take, run and record them, the daemon that takes back      *)
(* messages whose visibility deadline is over, the operators who retry,    *)
(* archive and cancel, and the retention purge.                            *)
(*                                                                         *)
(* One action is one committed transaction (or one step of a worker        *)
(* between two commits).  Cursors are REPEATABLE READ, so a transaction    *)
(* that writes a row changed since its snapshot aborts: snap[w] says       *)
(* whether the snapshot of worker w still shows the row w works on.        *)
(***************************************************************************)
EXTENDS Naturals, FiniteSets

CONSTANTS
    Msg,         (* message ids: the imq_message.id sequence               *)
    Group,       (* Group[m]: the FIFO group of m                          *)
    EnqTime,     (* EnqTime[m]: enqueued_time, truncated to the second     *)
    QType,       (* "std" or "fifo"                                        *)
    Worker,      (* worker processes                                       *)
    Kind,        (* Kind[w]: "cron" (ir.cron) or "standalone" (imq_worker) *)
    MaxAttempt,  (* max_attempt of the processor                           *)
    Outcome,     (* how the job code may end                               *)
    Env,         (* what the environment may do, see EnvEvents             *)
    Retries,     (* bound: operator retries in a behaviour                 *)
    MaxRuns      (* bound: processing rows of a message                    *)

(***************************************************************************)
(* What may happen around the code.                                        *)
(*   crash         a worker dies while it runs a task                      *)
(*   handover      a worker dies, or storing fails, between the commit     *)
(*                 that takes a message and the commit that stores it      *)
(*   overrun       a deadline passes while the worker it was set by runs   *)
(*   slowHandover  the daemon runs between those two commits and finds     *)
(*                 the over deadline of an earlier attempt                 *)
(*   logCommit     the job emits a captured log record                     *)
(*   lateCommit    enqueues of a group commit in another order than ids    *)
(*   rollback      the enqueueing transaction may roll back                *)
(*   target        a worker is started with --message                      *)
(*   retryFailed   the Retry button (shown on failed messages only)        *)
(*   retryAny      retry_processing() called on any message not in wip     *)
(*   recovery      the Retry (recovery) button, on a message in wip        *)
(*   archive       archive() on a failed, terminated or done message       *)
(*   archiveWaiting  archive() on a pending or cancelled message           *)
(*   cancel        cancel()                                                *)
(*   purge         the retention cron deletes old rows                     *)
(***************************************************************************)
EnvEvents == {"crash", "handover", "overrun", "slowHandover", "logCommit",
              "lateCommit", "rollback", "target", "retryFailed", "retryAny",
              "recovery", "archive", "archiveWaiting", "cancel", "purge"}

Outcomes == {"ok", "imqerror", "terminate", "retryable", "operational",
             "exception"}

NoMsg == 0

ASSUME MsgAssumption == Msg \subseteq Nat \ {NoMsg}
ASSUME GroupAssumption == DOMAIN Group = Msg
ASSUME EnqTimeAssumption == EnqTime \in [Msg -> Nat]
ASSUME QTypeAssumption == QType \in {"std", "fifo"}
ASSUME KindAssumption == Kind \in [Worker -> {"cron", "standalone"}]
ASSUME MaxAttemptAssumption == MaxAttempt \in Nat \ {0}
ASSUME OutcomeAssumption == Outcome \subseteq Outcomes
ASSUME EnvAssumption == Env \subseteq EnvEvents
ASSUME BoundAssumption == Retries \in Nat /\ MaxRuns \in Nat

VARIABLES
    (* columns of imq_message *)
    state,     (* the row's state; absent, inserted and gone: no visible row *)
    started,   (* start_time IS NOT NULL                                     *)
    ended,     (* end_time IS NOT NULL                                       *)
    planned,   (* planned_time: none, in the future or past                  *)
    vis,       (* visibility_time: none, live (ahead) or over                *)
    attempt,   (* attempt                                                    *)
    maxAtt,    (* max_number_of_attempts                                     *)
    runs,      (* number of processing rows; processing_id is the last       *)
    proc,      (* proc[m][k]: state of the k-th processing row of m          *)
    (* workers *)
    pc,        (* idle, got (taken), running (stored), ran (job over)        *)
    cur,       (* the message worked on                                      *)
    snap,      (* none, fresh or stale: the snapshot of the main cursor      *)
    out,       (* the state process_message returned                         *)
    row,       (* index of the processing row the worker created             *)
    (* history *)
    effects,   (* number of job transactions of m that committed             *)
    budget     (* operator retries left                                      *)

rowVars == <<state, started, ended, planned, vis, attempt, maxAtt, runs, proc>>
workerVars == <<pc, cur, snap, out, row>>
vars == <<state, started, ended, planned, vis, attempt, maxAtt, runs, proc,
          pc, cur, snap, out, row, effects, budget>>

-----------------------------------------------------------------------------
(* IMQ_MESSAGE_STATES; no code path creates a row in "new". *)
VisibleState == {"pending", "wip", "retry", "done", "terminated", "failed",
                 "archived", "reset", "cancelled"}
RowState == VisibleState \cup {"absent", "inserted", "gone"}

(* States that let the next message of the group go. *)
Released == {"done", "terminated", "archived"}

(* What process_message may return as state. *)
ResultStates == {"done", "terminated", "failed", "retry", "psycopg2_Error"}

ProcState == VisibleState \cup {"none"}

Visible(m) == state[m] \in VisibleState

(* A commit that changed row m: snapshots taken before it are stale. *)
Touched(S) == [v \in Worker |-> IF cur[v] \in S /\ snap[v] = "fresh"
                                THEN "stale" ELSE snap[v]]

LeaveKeepsMessage(w) ==
    /\ pc' = [pc EXCEPT ![w] = "idle"]
    /\ out' = [out EXCEPT ![w] = "none"]
    /\ row' = [row EXCEPT ![w] = 0]
    /\ UNCHANGED cur

(* The worker leaves its message and goes back to polling. *)
Leave(w) ==
    /\ pc' = [pc EXCEPT ![w] = "idle"]
    /\ cur' = [cur EXCEPT ![w] = NoMsg]
    /\ out' = [out EXCEPT ![w] = "none"]
    /\ row' = [row EXCEPT ![w] = 0]

-----------------------------------------------------------------------------
(* Enqueueing: the row is inserted in the transaction of the caller, which
   commits or rolls back later.  Ids come from a sequence. *)

SendMessage(m) ==
    /\ state[m] = "absent"
    /\ \A n \in Msg : n < m => state[n] # "absent"
    /\ state' = [state EXCEPT ![m] = "inserted"]
    /\ UNCHANGED <<started, ended, planned, vis, attempt, maxAtt, runs, proc,
                   pc, cur, snap, out, row, effects, budget>>

EnqueueCommit(m) ==
    /\ state[m] = "inserted"
    /\ \/ "lateCommit" \in Env
       \/ \A n \in Msg : n < m /\ Group[n] = Group[m] => state[n] # "inserted"
    /\ state' = [state EXCEPT ![m] = "pending"]
    /\ UNCHANGED <<started, ended, planned, vis, attempt, maxAtt, runs, proc,
                   pc, cur, snap, out, row, effects, budget>>

EnqueueRollback(m) ==
    /\ "rollback" \in Env
    /\ state[m] = "inserted"
    /\ state' = [state EXCEPT ![m] = "gone"]
    /\ UNCHANGED <<started, ended, planned, vis, attempt, maxAtt, runs, proc,
                   pc, cur, snap, out, row, effects, budget>>

-----------------------------------------------------------------------------
(* Taking a message: one UPDATE ... WHERE id = (SELECT ...) and its commit. *)

EligibleAlsoWip(m) == state[m] \in {"pending", "retry", "wip"} /\ planned[m] # "future"

Eligible(m) == state[m] \in {"pending", "retry"} /\ planned[m] # "future"

EarlierWaiting(m) ==
    {n \in Msg : n < m /\ Group[n] = Group[m] /\ state[n] \in {"pending", "retry"}}

(* The rows of m's group that LAG ... ORDER BY id sees before m. *)
Earlier(m) == {n \in Msg : n < m /\ Group[n] = Group[m] /\ Visible(n)}

PrevReleasedOrFailed(m) ==
    \/ Earlier(m) = {}
    \/ \E p \in Earlier(m) : /\ \A q \in Earlier(m) : q <= p
                             /\ state[p] \in Released \cup {"failed"}

(* prev_state IN ('done', 'terminated', 'archived') OR prev_state IS NULL *)
PrevReleased(m) ==
    \/ Earlier(m) = {}
    \/ \E p \in Earlier(m) : /\ \A q \in Earlier(m) : q <= p
                             /\ state[p] \in Released

Take(w, m) ==
    /\ pc[w] = "idle"
    /\ state' = [state EXCEPT ![m] = "wip"]
    /\ started' = [started EXCEPT ![m] = TRUE]
    /\ pc' = [pc EXCEPT ![w] = "got"]
    /\ cur' = [cur EXCEPT ![w] = m]
    /\ snap' = [Touched({m}) EXCEPT ![w] = "fresh"]
    /\ UNCHANGED <<ended, planned, vis, attempt, maxAtt, runs, proc, out, row,
                   effects, budget>>

(* ORDER BY enqueued_time: rows of the same second in any order. *)
GetMessageStd(w) ==
    /\ QType = "std"
    /\ \E m \in Msg : /\ Eligible(m)
                      /\ \A n \in Msg : Eligible(n) => EnqTime[m] <= EnqTime[n]
                      /\ Take(w, m)

GetMessageFifo(w) ==
    /\ QType = "fifo"
    /\ \E m \in Msg : Eligible(m) /\ PrevReleased(m) /\ Take(w, m)

(* With a target the candidate rows are the target alone, in the CTE of the
   FIFO query too: LAG then has no previous row. *)
GetTarget(w) ==
    /\ "target" \in Env
    /\ \E m \in Msg : Eligible(m) /\ Take(w, m)

GetMessage(w) == GetMessageStd(w) \/ GetMessageFifo(w)

-----------------------------------------------------------------------------
(* Storing: store_message, the attempt counter, the processing row and the
   visibility deadline, committed together before the job runs. *)

ProcessingRowsKept(m) ==
    [k \in 1..MaxRuns |-> IF k = runs[m] + 1 THEN state[m] ELSE proc[m][k]]

(* A new row in the state of the message; a previous one still in wip is reset. *)
ProcessingRows(m) ==
    [k \in 1..MaxRuns |->
        IF k = runs[m] + 1 THEN state[m]
        ELSE IF k = runs[m] /\ proc[m][k] = "wip" THEN "reset"
        ELSE proc[m][k]]

DeadlineKept(m) == vis[m]

(* now + visibility_timeout, of the processor if it forces one, of the queue
   otherwise: ahead of the clock. *)
Deadline(m) == "live"

(* The state column is not written: the query that took the row set it. *)
Store(w) ==
    LET m == cur[w] IN
    /\ pc[w] = "got"
    /\ Visible(m)
    /\ runs[m] < MaxRuns
    /\ attempt' = [attempt EXCEPT ![m] = @ + 1]
    /\ maxAtt' = [maxAtt EXCEPT ![m] = MaxAttempt]
    /\ vis' = [vis EXCEPT ![m] = Deadline(m)]
    /\ proc' = [proc EXCEPT ![m] = ProcessingRows(m)]
    /\ runs' = [runs EXCEPT ![m] = @ + 1]
    /\ row' = [row EXCEPT ![w] = runs[m] + 1]
    /\ pc' = [pc EXCEPT ![w] = "running"]
    /\ snap' = [Touched({m}) EXCEPT ![w] = "fresh"]
    /\ UNCHANGED <<state, started, ended, planned, cur, out, effects, budget>>

(* The row changed under the transaction that stores it, or is gone: nothing
   is written, whatever the kind of worker. *)
StoreConflict(w) ==
    /\ pc[w] = "got"
    /\ snap[w] = "stale" \/ ~Visible(cur[w])
    /\ Leave(w)
    /\ snap' = [snap EXCEPT ![w] = "none"]
    /\ UNCHANGED <<rowVars, effects, budget>>

(* Storing raises (a body that does not decode, an error creating a row): a
   cron worker rolls everything back, and so does a standalone one as long
   as store_message has not returned. *)
StoreRaises(w) ==
    /\ "handover" \in Env
    /\ pc[w] = "got"
    /\ Leave(w)
    /\ snap' = [snap EXCEPT ![w] = "none"]
    /\ UNCHANGED <<rowVars, effects, budget>>

(* Later than that the standalone worker marks the message failed, in the
   same transaction as what store_message wrote. *)
StoreMarksFailed(w) ==
    LET m == cur[w] IN
    /\ "handover" \in Env
    /\ pc[w] = "got"
    /\ Kind[w] = "standalone"
    /\ Visible(m)
    /\ \E n \in {0, 1} : attempt' = [attempt EXCEPT ![m] = @ + n]
    /\ maxAtt' = [maxAtt EXCEPT ![m] = MaxAttempt]
    /\ vis' = [vis EXCEPT ![m] = Deadline(m)]
    /\ state' = [state EXCEPT ![m] = "failed"]
    /\ ended' = [ended EXCEPT ![m] = TRUE]
    /\ Leave(w)
    /\ snap' = [Touched({m}) EXCEPT ![w] = "none"]
    /\ UNCHANGED <<started, planned, runs, proc, effects, budget>>

-----------------------------------------------------------------------------
(* Running the job, on a cursor of its own. *)

(* A captured log record is inserted and committed on the main cursor, which
   drops the snapshot.  When the snapshot is stale the insert fails, its
   foreign key check cannot lock the message row, and nothing changes. *)
LogCommit(w) ==
    /\ "logCommit" \in Env
    /\ pc[w] = "running"
    /\ snap[w] = "fresh"
    /\ snap' = [snap EXCEPT ![w] = "none"]
    /\ UNCHANGED <<rowVars, pc, cur, out, row, effects, budget>>

(* The except clauses of process_message. *)
ResultState(o, m) ==
    CASE o = "ok" -> "done"
      [] o = "terminate" -> "terminated"
      [] o = "operational" -> "psycopg2_Error"
      [] o = "retryable" /\ attempt[m] < maxAtt[m] -> "retry"
      [] OTHER -> "failed"

CommitsNever(o) == FALSE

(* Outcomes whose job transaction is committed, the others roll it back. *)
CommitsJob(o) == o \in {"ok", "imqerror"}

(* The job runs to its end.  Fields of the message and of the processor are
   read afterwards, which takes a snapshot if a log record dropped it. *)
Run(w) ==
    LET m == cur[w] IN
    /\ pc[w] = "running"
    /\ \E o \in Outcome :
          /\ out' = [out EXCEPT ![w] = ResultState(o, m)]
          /\ effects' = [effects EXCEPT ![m] = IF CommitsJob(o) THEN @ + 1 ELSE @]
    /\ pc' = [pc EXCEPT ![w] = "ran"]
    /\ snap' = [snap EXCEPT ![w] = IF @ = "none" THEN "fresh" ELSE @]
    /\ UNCHANGED <<rowVars, cur, row, budget>>

-----------------------------------------------------------------------------
(* Recording the result. *)

(* A conflict is lost by this worker, which writes nothing. *)
CanWrite(w) == snap[w] = "fresh" /\ Visible(cur[w])

ProcessingResultSkipped(w) == proc

(* The result also goes to the processing row this worker created. *)
ProcessingResult(w) == [proc EXCEPT ![cur[w]][row[w]] = out[w]]

Record(w) ==
    LET m == cur[w] IN
    /\ pc[w] = "ran"
    /\ out[w] # "psycopg2_Error"
    /\ CanWrite(w)
    /\ state' = [state EXCEPT ![m] = out[w]]
    /\ ended' = [ended EXCEPT ![m] = TRUE]
    /\ \/ UNCHANGED planned
       \/ out[w] = "retry" /\ planned' = [planned EXCEPT ![m] = "future"]
    /\ proc' = ProcessingResult(w)
    /\ Leave(w)
    /\ snap' = [Touched({m}) EXCEPT ![w] = "none"]
    /\ UNCHANGED <<started, vis, attempt, maxAtt, runs, effects, budget>>

(* psycopg2_Error is no value of the state column and the write raises
   ValueError: the standalone worker then marks the message failed. *)
RecordOperational(w) ==
    LET m == cur[w] IN
    /\ pc[w] = "ran"
    /\ out[w] = "psycopg2_Error"
    /\ Kind[w] = "standalone"
    /\ CanWrite(w)
    /\ state' = [state EXCEPT ![m] = "failed"]
    /\ ended' = [ended EXCEPT ![m] = TRUE]
    /\ Leave(w)
    /\ snap' = [Touched({m}) EXCEPT ![w] = "none"]
    /\ UNCHANGED <<started, planned, vis, attempt, maxAtt, runs, proc, effects, budget>>

(* Nothing is written: the row changed, or is gone, or the ValueError leaves
   the cron worker and ir.cron rolls back. *)
RecordRefused(w) ==
    /\ pc[w] = "ran"
    /\ \/ ~CanWrite(w)
       \/ out[w] = "psycopg2_Error" /\ Kind[w] = "cron"
    /\ Leave(w)
    /\ snap' = [snap EXCEPT ![w] = "none"]
    /\ UNCHANGED <<rowVars, effects, budget>>

(* The process is killed: its transactions roll back, its row stays. *)
Crash(w) ==
    /\ \/ "crash" \in Env /\ pc[w] \in {"running", "ran"}
       \/ "handover" \in Env /\ pc[w] = "got"
    /\ Leave(w)
    /\ snap' = [snap EXCEPT ![w] = "none"]
    /\ UNCHANGED <<rowVars, effects, budget>>

-----------------------------------------------------------------------------
(* Time. *)

Runs(w, m) == pc[w] \in {"running", "ran"} /\ cur[w] = m

Expire(m) ==
    /\ vis[m] = "live"
    /\ "overrun" \in Env \/ \A w \in Worker : ~Runs(w, m)
    /\ vis' = [vis EXCEPT ![m] = "over"]
    /\ UNCHANGED <<state, started, ended, planned, attempt, maxAtt, runs, proc,
                   workerVars, effects, budget>>

PlanDue(m) ==
    /\ planned[m] = "future"
    /\ planned' = [planned EXCEPT ![m] = "past"]
    /\ UNCHANGED <<state, started, ended, vis, attempt, maxAtt, runs, proc,
                   workerVars, effects, budget>>

-----------------------------------------------------------------------------
(* The visibility timeout daemon. *)

ExpiredAnyState(m) == Visible(m) /\ vis[m] = "over"

ExpiredNotExhausted(m) ==
    state[m] = "wip" /\ vis[m] = "over" /\ attempt[m] < maxAtt[m]

Expired(m) == state[m] = "wip" /\ vis[m] = "over"

AfterTimeoutUnbounded(m) == "pending"

AfterTimeout(m) == IF attempt[m] < maxAtt[m] THEN "pending" ELSE "failed"

VisibilityDaemon ==
    /\ \E m \in Msg : Expired(m)
    /\ \/ "slowHandover" \in Env
       \/ \A w \in Worker : pc[w] = "got" => ~Expired(cur[w])
    /\ state' = [m \in Msg |-> IF Expired(m) THEN AfterTimeout(m) ELSE state[m]]
    /\ vis' = [m \in Msg |-> IF Expired(m) THEN "none" ELSE vis[m]]
    /\ snap' = Touched({m \in Msg : Expired(m)})
    /\ UNCHANGED <<started, ended, planned, attempt, maxAtt, runs, proc,
                   pc, cur, out, row, effects, budget>>

-----------------------------------------------------------------------------
(* Operators.  Each reads and writes one row in one transaction. *)

Requeue(m) ==
    /\ budget > 0
    /\ budget' = budget - 1
    /\ state' = [state EXCEPT ![m] = "retry"]
    /\ maxAtt' = [maxAtt EXCEPT ![m] = @ + 1]
    /\ snap' = Touched({m})
    /\ UNCHANGED <<started, ended, planned, vis, attempt, runs, proc,
                   pc, cur, out, row, effects>>

RetryProcessing(m) ==
    /\ \/ "retryFailed" \in Env /\ state[m] = "failed"
       \/ "retryAny" \in Env /\ Visible(m) /\ state[m] # "wip"
    /\ Requeue(m)

RetryRecovery(m) ==
    /\ "recovery" \in Env
    /\ state[m] = "wip"
    /\ Requeue(m)

Archive(m) ==
    /\ \/ "archive" \in Env /\ state[m] \in {"failed", "terminated", "done"}
       \/ "archiveWaiting" \in Env /\ state[m] \in {"pending", "cancelled"}
    /\ state' = [state EXCEPT ![m] = "archived"]
    /\ snap' = Touched({m})
    /\ UNCHANGED <<started, ended, planned, vis, attempt, maxAtt, runs, proc,
                   pc, cur, out, row, effects, budget>>

Cancel(m) ==
    /\ "cancel" \in Env
    /\ state[m] \in {"pending", "retry"}
    /\ state' = [state EXCEPT ![m] = "cancelled"]
    /\ ended' = [ended EXCEPT ![m] = TRUE]
    /\ snap' = Touched({m})
    /\ UNCHANGED <<started, planned, vis, attempt, maxAtt, runs, proc,
                   pc, cur, out, row, effects, budget>>

(* Rows with an end_time, in a state that is not protected. *)
Purgeable(m) ==
    /\ ended[m]
    /\ Visible(m)
    /\ state[m] \notin {"failed", "retry", "reset", "wip", "archived"}

(* The rows old enough are some of those. *)
Purge ==
    /\ "purge" \in Env
    /\ \E old \in SUBSET Msg :
          /\ \E m \in old : Purgeable(m)
          /\ state' = [m \in Msg |-> IF m \in old /\ Purgeable(m) THEN "gone"
                                     ELSE state[m]]
          /\ snap' = Touched({m \in old : Purgeable(m)})
    /\ UNCHANGED <<started, ended, planned, vis, attempt, maxAtt, runs, proc,
                   pc, cur, out, row, effects, budget>>

-----------------------------------------------------------------------------
Init ==
    /\ state = [m \in Msg |-> "absent"]
    /\ started = [m \in Msg |-> FALSE]
    /\ ended = [m \in Msg |-> FALSE]
    /\ planned = [m \in Msg |-> "none"]
    /\ vis = [m \in Msg |-> "none"]
    /\ attempt = [m \in Msg |-> 0]
    /\ maxAtt = [m \in Msg |-> 4]
    /\ runs = [m \in Msg |-> 0]
    /\ proc = [m \in Msg |-> [k \in 1..MaxRuns |-> "none"]]
    /\ pc = [w \in Worker |-> "idle"]
    /\ cur = [w \in Worker |-> NoMsg]
    /\ snap = [w \in Worker |-> "none"]
    /\ out = [w \in Worker |-> "none"]
    /\ row = [w \in Worker |-> 0]
    /\ effects = [m \in Msg |-> 0]
    /\ budget = Retries

WorkerStep(w) ==
    \/ GetMessageStd(w)
    \/ GetMessageFifo(w)
    \/ GetTarget(w)
    \/ Store(w)
    \/ StoreConflict(w)
    \/ StoreRaises(w)
    \/ StoreMarksFailed(w)
    \/ LogCommit(w)
    \/ Run(w)
    \/ Record(w)
    \/ RecordOperational(w)
    \/ RecordRefused(w)
    \/ Crash(w)

MessageStep(m) ==
    \/ SendMessage(m)
    \/ EnqueueCommit(m)
    \/ EnqueueRollback(m)
    \/ Expire(m)
    \/ PlanDue(m)
    \/ RetryProcessing(m)
    \/ RetryRecovery(m)
    \/ Archive(m)
    \/ Cancel(m)

Next ==
    \/ \E w \in Worker : WorkerStep(w)
    \/ \E m \in Msg : MessageStep(m)
    \/ VisibilityDaemon
    \/ Purge

Spec == Init /\ [][Next]_vars

(* The cron entries and the worker loop come back for ever, an enqueueing
   transaction ends, time passes; crashes and operators owe nothing. *)
Fairness ==
    /\ WF_vars(VisibilityDaemon)
    /\ \A m \in Msg : /\ WF_vars(EnqueueCommit(m))
                      /\ WF_vars(Expire(m))
                      /\ WF_vars(PlanDue(m))
    /\ \A w \in Worker :
          WF_vars(\/ GetMessage(w) \/ Store(w) \/ StoreConflict(w) \/ Run(w)
                  \/ Record(w) \/ RecordOperational(w) \/ RecordRefused(w))

FairSpec == Spec /\ Fairness

-----------------------------------------------------------------------------
(* Properties. *)

(* Every column and every worker variable has the values the code gives it. *)
TypeOK ==
    /\ state \in [Msg -> RowState]
    /\ started \in [Msg -> BOOLEAN]
    /\ ended \in [Msg -> BOOLEAN]
    /\ planned \in [Msg -> {"none", "future", "past"}]
    /\ vis \in [Msg -> {"none", "live", "over"}]
    /\ attempt \in [Msg -> Nat]
    /\ maxAtt \in [Msg -> Nat]
    /\ runs \in [Msg -> 0..MaxRuns]
    /\ proc \in [Msg -> [1..MaxRuns -> ProcState]]
    /\ pc \in [Worker -> {"idle", "got", "running", "ran"}]
    /\ cur \in [Worker -> Msg \cup {NoMsg}]
    /\ snap \in [Worker -> {"none", "fresh", "stale"}]
    /\ out \in [Worker -> ResultStates \cup {"none"}]
    /\ row \in [Worker -> 0..MaxRuns]
    /\ effects \in [Msg -> Nat]
    /\ budget \in 0..Retries
    /\ \A w \in Worker : pc[w] = "idle" <=> cur[w] = NoMsg
    /\ \A w \in Worker : pc[w] = "ran" <=> out[w] # "none"
    /\ \A w \in Worker : pc[w] \in {"running", "ran"} <=> row[w] # 0

(* A message in progress can always be taken back: it has a visibility
   deadline, or a worker that has just taken it is about to set one.  The
   daemon never finds a message in wip with a NULL deadline. *)
WipHasDeadline ==
    \A m \in Msg : state[m] = "wip" =>
        \/ vis[m] # "none"
        \/ \E w \in Worker : pc[w] = "got" /\ cur[w] = m

(* A message is done only if the transaction of its job did commit, whatever
   the crashes, conflicts and late results of other executions. *)
DoneIsCommitted == \A m \in Msg : state[m] = "done" => effects[m] > 0

(* No message is executed, or about to be, by two workers at once. *)
Exclusive ==
    \A v, w \in Worker : v # w /\ pc[v] # "idle" /\ pc[w] # "idle" => cur[v] # cur[w]

(* Executions of m that their worker left without recording a result. *)
Abandoned(m) ==
    {k \in 1..runs[m] : /\ proc[m][k] \in {"wip", "reset"}
                        /\ \A w \in Worker : ~(cur[w] = m /\ row[w] = k)}

(* Exactly once, as far as it goes: the job of a message commits again only if
   an execution before it was abandoned, and the processing rows show which. *)
DuplicatesTraced == \A m \in Msg : effects[m] <= 1 + Cardinality(Abandoned(m))

(* Only the last processing row of a message may be in progress: the rows of
   executions that were abandoned are closed (done, failed, reset...). *)
SupersededClosed ==
    \A m \in Msg : \A k \in 1..MaxRuns : k < runs[m] => proc[m][k] # "wip"

(* A message is done only if the processing row of one execution says so. *)
DoneHasProcessing ==
    \A m \in Msg : state[m] = "done" => \E k \in 1..runs[m] : proc[m][k] = "done"

(* No more executions than the processor allows, and one more for each retry
   an operator asked for: retries by outcome, redeliveries by the daemon and
   the operators share one counter, and storing resets its limit. *)
AttemptsBounded == \A m \in Msg : attempt[m] <= MaxAttempt + (Retries - budget)

(* A FIFO message that was ever taken finds all earlier messages of its group
   released (or deleted), although the query looks at one predecessor only. *)
FifoOrder ==
    \A m, n \in Msg : m < n /\ Group[m] = Group[n] /\ started[n]
                      => state[m] \in Released \cup {"gone"}

(* Two messages of a FIFO group are never executed at the same time. *)
FifoSerial ==
    \A v, w \in Worker :
        v # w /\ pc[v] \in {"running", "ran"} /\ pc[w] \in {"running", "ran"}
        => Group[cur[v]] # Group[cur[w]]

(* A completed message is never taken back into the queue. *)
CompletedStays ==
    [][\A m \in Msg : state[m] \in {"done", "terminated"}
                      => state'[m] \in {state[m], "archived", "gone"}]_state

(* The purge deletes nothing that still has to run. *)
PurgeKeepsWaiting ==
    [][\A m \in Msg : state[m] = "pending" => state'[m] # "gone"]_state

(* A message whose worker died does not stay in progress. *)
WipEnds == \A m \in Msg : state[m] = "wip" ~> state[m] # "wip"

Settled(m) == state[m] \in {"done", "terminated", "failed", "archived",
                            "cancelled", "gone"}

(* A FIFO message whose predecessors are all released, the first of a group
   for one, gets its turn and is executed to an end, or fails for good. *)
FifoProgress ==
    \A n \in Msg :
        (state[n] = "pending" /\ \A m \in Earlier(n) : state[m] \in Released) ~> Settled(n)

-----------------------------------------------------------------------------
(* The queue as a ledger: what its rows and workers mean to a caller. *)

Items ==
    [m \in Msg |->
        CASE state[m] \in {"absent", "inserted"} -> "new"
          [] state[m] \in {"pending", "retry", "wip"} -> "open"
          [] state[m] = "done" -> "done"
          [] OTHER -> "closed"]

Leases ==
    [w \in Worker |->
        CASE pc[w] = "running" -> <<cur[w], "working">>
          [] pc[w] = "ran" -> <<cur[w], IF out[w] = "done" THEN "worked" ELSE "over">>
          [] OTHER -> <<NoMsg, "none">>]

Contract == INSTANCE Ledger WITH
    Item <- Msg, Holder <- Worker, NoItem <- NoMsg,
    item <- Items, lease <- Leases, worked <- effects

(* While deadlines are long enough the queue keeps the contract of a ledger:
   one lease at a time, results only by the worker whose job it was, nothing
   accepted that is closed under a worker or without a result or a request. *)
KeepsContract == Contract!Spec
=============================================================================

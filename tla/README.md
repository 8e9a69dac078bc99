# TLA+ models of Inouk Message Queue

Specifications of the queue, its workers and the loop that drives them, the TLC
runs that check them on small instances, and theorems about them checked by
TLAPS. The code is the reference: every definition names, in `PROJECT.json`
(`map`), the lines it was written from. Paths below are relative to `src/`.

## 1. The system

Inouk Message Queue (IMQ) is an Odoo add-on that queues method calls and messages
in a table of the application's own PostgreSQL database (provider `pgsql`) or in
AWS SQS, and runs them in workers.

| Component | State | Operations | Modelled in |
|---|---|---|---|
| Enqueue API: `api.py`, `api_pgsql.py` | rows of `imq_message`, queue and processor records | `enqueue`, `processor_method`, `send_message`, `check_message_duplicate` | `Enqueue`; `PgsqlQueue` (insertion, commit, rollback) |
| pgsql worker side: `models/worker_pgsql.py` | `state`, `start_time`, `visibility_time` of a row | get (standard and FIFO query), store, visibility timeout daemon | `PgsqlQueue` |
| Message model: `models/message.py`, `message_pgsql.py` | all columns of a message, its processing rows | retry, recovery, archive, cancel, `create_processing_object`, purge | `PgsqlQueue` |
| Processing rows and logs: `models/message_processing.py` | one row an execution, one row a log record | created at store, written with the result, deleted by the purge | `PgsqlQueue` (states), `ConsoleCapture` (rows of captured output) |
| Cron worker: `models/worker.py` | thread locals, the ir.cron transaction | `process_message_queue`, `process_message`, log handler, console capture | `PgsqlQueue`, `SqsQueue`, `ConsoleCapture` |
| Base worker: `workers/base.py` | the cursor of the job | `process_message` and its `except` clauses | `PgsqlQueue` (`Run`, `ResultState`, `CommitsJob`), `SqsQueue` (`JobOk` to `DeleteRaises`) |
| Standalone worker: `workers/standalone.py` | counters, health of its queues, caches | `run`, `_process_one_message`, signals, stop parameter, signaling | `WorkerLoop` (the loop), `Supervision` (its signs of life), `PgsqlQueue` and `SqsQueue` (the transactions), `ConsoleCapture` |
| Monitoring: `workers/monitoring*.py` | samples, metrics | memory and thread limits, liveness probe, other HTTP, textfile | `Supervision` (probe, thread limit), `WorkerLoop` (`ResourceExits`) |
| SQS provider: `api_sqs.py`, `models/*_sqs.py` | a remote queue | send, receive, store, delete, retry by sending again | `SqsQueue` |
| Queue, processor, notifications: `models/queue*.py`, `message_processor.py` | configuration | notifications, search and creation of a processor | `Enqueue` (processor records) |
| ir.cron patch, `data/ir_cron_worker.xml` | the schedule | worker every second, daemon every 5 s, purge every 6 h | fairness of `PgsqlQueue` |
| Commands: `cli/` | none | start a worker, inspect, READY count | constants of `WorkerLoop` and `Supervision` |
| Kubernetes examples: `k8s/` | none | liveness probe, restart | `Supervision` |
| Test launcher, controllers, helpers | none | | not modelled: demonstration, HTTP, formatting |

**How they interact.** Everything meets in the rows of `imq_message`. An
enqueueing transaction inserts a row; a worker takes it by one `UPDATE` committed
on a cursor of its own, stores what it knows about it on its main cursor and
commits, runs the job on a third cursor, and records the result on the main one.
The daemon takes back rows whose deadline is over; operators and the purge write
the same rows. All cursors are REPEATABLE READ: a transaction that updates a row
changed since its snapshot aborts. A standalone worker learns of writes of other
processes (registry, cached parameters) through the signaling sequences only.

**What is hard.** A worker may die between any two of its commits. A deadline may
pass under a running worker, so two executions of one message overlap, and the
late result meets a row that moved on. FIFO order rests on a query that sees
committed rows and the immediate predecessor. A worker asks for its stop
parameter by message count and is answered from a cache dropped by the clock. With
SQS four places hold what became of a message (SQS, the job's transaction, its row,
the caller's transaction), and nothing binds them. Threads of a job write to a
stream that lives in thread-local storage and is torn down under them. A supervisor
kills a worker that is silent, and a long job is silent.
`PROJECT.json` (`hazards`) lists each at its line.

**What makes each component correct.**

- *A message and its executions*: a message in progress can be taken back; done
  means committed; done means that an execution says so; only the last
  execution is open; no more executions than the processor allows; every message
  is settled in the end; a job commits once if nothing crashes.
- *FIFO*: a message is taken after all earlier ones of its group are released; two
  of a group never run together; a released predecessor lets the next go.
- *Enqueueing*: two equivalent messages are in flight only where the search could
  not see or the window had run out; a call is never ignored for a message that was
  rolled back or is too old; a message that is there has its processor, one only.
- *A message at SQS*: it stays there until it is deleted, and is deleted in the end;
  each fault costs one repetition or one row left behind, no more; a retry runs in
  the row that was retried.
- *Captured output*: a line is one row, of one thread of one processing, written once,
  and nothing of a message is left for the next.
- *Supervision*: a worker is killed only for what its jobs do, and polling always
  comes back.
- *The worker loop*: it stops within ten messages of learning that it must, after
  one message on a signal, before any message if born stopped; no healthy queue
  starves; a failing queue is left alone but not forgotten.

## 2. Modules

| Module | What |
|---|---|
| `PgsqlQueue` | one pgsql queue: rows, workers, daemon, operators, purge |
| `Ledger` | what a queue promises, whatever its provider: the abstract specification |
| `MCPgsqlQueue`, `PgsqlQueueProofs` | small instances; theorems on types, deadlines, exclusion and order, and that `PgsqlQueue` implements `Ledger` |
| `PgsqlRowsProofs` | theorems on processing rows, attempts, final states and repeated commits |
| `SqsQueue` | one SQS queue: SQS, the rows that mirror it, workers, retries |
| `MCSqsQueue`, `SqsQueueProofs` | its instances; theorems on types, commits and the rows of retries, and that `SqsQueue` implements `Ledger` |
| `SqsFaultsProofs` | theorems on what a fault can cost: repetitions, attempts and stranded rows |
| `WorkerLoop` | the main loop of a standalone worker |
| `MCWorkerLoop`, `WorkerLoopProofs` | small instances, theorems |
| `Supervision` | that loop composed with its liveness probe, its supervisor and the threads its jobs leak |
| `MCSupervision`, `SupervisionProofs` | its instances, theorems |
| `ConsoleCapture` | the output of jobs on its way to log rows |
| `MCConsoleCapture`, `ConsoleCaptureProofs` | its instance, theorems |
| `Enqueue` | how messages come in: duplicate check and processor records |
| `MCEnqueue`, `EnqueueProofs` | small instances, theorems |

### PgsqlQueue

One action is one committed transaction, or a step of a worker between two
commits. Variables are the columns (`state`, `started` for `start_time`, `ended`
for `end_time`, `planned`, `vis` for `visibility_time`, `attempt`, `maxAtt`,
`runs` and `proc` for the processing rows), the workers (`pc`, `cur`, `out`,
`row`), and what their snapshot is worth (`snap`).

- **Taking.** `GetMessageStd` and `GetMessageFifo` are the two `UPDATE ...
  RETURNING` statements and their commit; `GetTarget` the same with `--message`.
  The standard query orders by `enqueued_time`, which is truncated to the second:
  `EnqTime` gives messages of a second the same value and leaves their order open.
  SKIP LOCKED makes two workers that ask at once take different rows, which is what
  one action at a time gives. A row locked by another transaction (an operator's
  save) may let a younger one of another second go first; that is not modelled, no
  property depends on the order of a standard queue.
- **Storing.** `Store` is `store_message`, the attempt counter,
  `create_processing_object` and `change_message_visibility`, committed together.
  `StoreConflict` is the same after the row changed under the transaction;
  `StoreRaises` and `StoreMarksFailed` when it raises (the standalone worker
  catches errors after the row is stored, the cron worker does not).
- **Running.** `Run` is `process_message` by the way the job ends: `ok`,
  `IMQError`, `IMQTerminateException`, a retryable error (`IMQRetryableError`,
  serialization, integrity), an operational error of the database, anything else.
  `CommitsJob` says which commit the job's transaction; `ResultState` the state
  returned. `LogCommit` is a log record of the job, committed on the main cursor:
  it drops the snapshot taken before the job, and with it the protection against a
  lost update, which is how a late result may overwrite.
- **Recording.** `Record`, and its two failures: the state `psycopg2_Error` is no
  value of the column, so the write raises; a standalone worker then marks the
  message failed (`RecordOperational`), a cron worker leaves it (`RecordRefused`),
  because `models/worker.py:517` compares with a literal that holds quotes.
- **The others.** `VisibilityDaemon`, `Requeue` behind `RetryProcessing` and
  `RetryRecovery`, `Archive`, `Cancel`, `Purge` (rows with an `end_time`, in a state
  that is not protected).

Time is abstract. A deadline is `live` or `over`, a planned time `future` or
`past`; `Expire` and `PlanDue` move them. Which clock writes them does not matter to
the model, that they may come early does (`overrun`).

`Env` says what may happen around the code in an instance: `crash`, `handover`
(death or an error between taking and storing), `overrun`, `slowHandover` (the
daemon between taking and storing, finding the deadline of an earlier attempt),
`logCommit`, `lateCommit`, `rollback`, `target`, `retryFailed`, `retryAny`,
`recovery`, `archive`, `archiveWaiting`, `cancel`, `purge`. A property that
needs one to be absent is checked without it.

**The contract.** `Ledger` knows items that are new, open, done or closed, and leases
on them. `KeepsContract` is `Ledger`'s specification under a refinement mapping:
`Items` maps the columns (absent or not yet committed is new; pending, retry and wip
are open; the rest but done is closed), `Leases` the workers that have stored a
message. Taking a message maps to a stutter, its storage to `Grant`, the end of the
job to `Succeed` or `Fail`, the record of the result to `Report`, a crash or a
conflict to `LoseLease`, the daemon, cancellation and the purge to `Shelve`. What it
says beyond the invariants: nobody but the worker that ran the job makes an item done,
an item is never closed under a worker that has a lease, and each lease commits once.
It holds while deadlines are long enough and operators keep to messages that nobody
runs; with `overrun` two workers lease one item, which is the run `everything`'s
subject.

### SqsQueue

A standard queue of SQS. `remote` is what SQS knows of each message: visible, deleted,
or delivered to a worker whose receipt is the valid one. Rows are created by workers
that store a message, so `qid` (`queue_message_id`) ties the two, under the constraint
UNIQUE(queue_id, queue_message_id). An execution is `Receive`, `Store`, the job
(`JobOk`, `JobFails`, `JobAgain`, `JobOperational`), `Delete`, `Record`, in the order
of the code: the job commits, then the message is deleted, then the result is
recorded; for an `IMQError` the message is deleted first (`CommitLate`). `GiveUp` is
the cron worker deleting after the last attempt. `delete()` may raise: after a commit
the handler of exceptions makes a failure of it and deletes again
(`DeleteRaisesOnce`; a notification that raises there ends the same way), in a handler
it leaves `process_message` (`DeleteRaises`).

A retry (`RetrySend`, `RetryCommit`, `RetryAbort`) sends a new message at once and
gives its id to the row when the operator's transaction commits. A worker may be
faster: it finds no row, makes one, and the retry aborts on the constraint; or the row
changes and the retry aborts on its snapshot. There is a third way, which takes no fault:
the faster worker's row is retried as well, which gives that row another id, so the id
of the first retry is free again and its transaction commits. Its row then shows, in
`retry`, a message that was executed elsewhere and deleted, and nothing will ever finish
it (`Overtaken`).

`Faults` bounds the faults of a behaviour: crashes, deliveries while a worker still has
the message, operational errors, failures of the visibility change and of `delete()`.
The invariants count them (`Used`), so they say what one more fault may cost. Jobs here
emit no log records, which keeps a worker's snapshot in one piece until it records;
`PgsqlQueue` has the other case. FIFO queues of SQS are left to Amazon.

`Contract` is `Ledger` again, the contract of the other provider: a message is an item,
open while it is at SQS and then until its row has a result; a worker's lease begins
with `Store` and ends with `Record` or with the worker. What is one transaction in
PostgreSQL is three steps here: the deletion after the job is invisible to the
ledger, since the row in `wip` keeps the item open, and an `IMQError` stays at work until
its late commit. A retry closes the message that its row was done with and opens
another. `KeepsContract` holds while SQS delivers no message that a worker
still has (`overrun`, or `Visibility` `zero`), nobody sends a retry of one in progress
(`recovery`), and `delete()` does not fail: each of the four breaks it, the last because the
handler makes a failure of a job that committed.

### ConsoleCapture

One worker thread, its jobs one after the other, and the threads of each job, which
write pieces of text to the stream the job was given. The two twins of the code are the
values of `kind`: the standalone worker closes the stream and removes the log handler
after the job and again in `finally`, the cron worker does so only when
`process_message` returns, and never removes the handler. `Ident` gives two threads
the same `threading.get_ident()`, as Python does once one is over; `Key` is what
`_buffers` is keyed by. A write holds the stream's lock and is one action; a row is
committed with it. `stragglers` are threads that outlive their job; `insertFails` lets
an INSERT raise, after which the cursor is aborted and what follows is lost, as the
code has it (`broken`). The text itself is a numbered piece; how lines are cut from a
chunk is a choice of one or two pieces and a newline.

### WorkerLoop

One process: `pc` is `top` (limits and stop check), `select` (round robin over
healthy queues), `refresh` (the signaling check), `poll`, `task`, `exit`. Its state is
`should_stop`, `processed_count`, `queue_index`, `queue_failures`, ages for
`queue_last_success` and `last_signaling_check`, and `cached`, what `get_param`
answers from the process cache. `param` is the parameter in the database. Signals
arrive between any two steps: `Terminate` (SIGTERM, SIGINT), `ResetFailures`
(SIGUSR2), `StatusSummary` (SIGUSR1 and the periodic status, which runs
`_is_queue_healthy` on every queue and so writes the failure counters). `Restart` is
the supervisor. `Tick` makes ages older. History variables: `seen` and `late`
(messages since the caches were dropped with the parameter set), `born`, `taken`
(messages since a signal), `gap` (polls of others).

`NQueues`, `CheckEvery` (10 in the code), `MaxFailures` (10), `FailTimeout` (300 s),
`SignalPeriod` (5 s, at least 1) and `MaxMessages` are parameters; nothing in the
code treats their values specially but 0 for `MaxMessages`.

### Supervision

Extends `WorkerLoop`: every action of it is conjoined with what it does to the
heartbeat (`last_activity`, here the age `idle`), the counter of empty polls, and the
leaked threads. A sign of life is given for an empty poll, a processed message, and an
update of the metrics; not during a job, after a failed poll, or while resting because no queue
is healthy. `/livez` fails once `idle` reaches `Window`, and the supervisor kills
when it failed for `Patience` (three probes of 30 s in `k8s/examples/`). `Kill` ends the
process wherever it is. A job may take any time, also for ever: nothing makes `TaskProcessed`
or `TaskFailed` happen. Signals, fatal errors and the stop parameter come as in `WorkerLoop`
(`Outside`). Outside of jobs `Rounds` rounds of the loop fit between two
ticks, because a tick stands for a minute or more and a round for a second. `busy` is
history: how much of the silence was spent in jobs.

### Enqueue

`enqueue()` and `send_message()` in the transactions of their callers, and the
transaction in which a worker stores a message, for the parts of it that search and
create a processor record. A call is one action: what another process does between
the check and the insertion is invisible to the snapshot, so only the clock could
tell, and `_now` and `clock_timestamp()` are read one after the other. A transaction
begins with its snapshot, `seen` (whose rows it sees) and `flight` (which messages
were in flight), and sees its own rows besides; the clock goes on.

- `Called` is the part before sending: a negative interval is refused by `enqueue()`
  (`send_message()` does not look, although `README.md:249` gives the parameter the
  same meaning), and the processor is searched, then created. That remains when
  the call is ignored, or runs synchronously.
- `Key` is the deduplication id, or on a FIFO queue a hash of the body. The query
  names no queue: `Equivalent` takes messages of all queues, also those of a
  standard queue that carry an id.
- `EnqueuedTime` drops the fraction of a second, `Equivalent` compares it with the
  clock of the moment.
- `UniqueAllows` is the constraint as SQL evaluates it: one NULL column is enough
  to pass. `Store` needs at most one record, because the code reads its fields.
- `Settle` and `Retry` are what later becomes of a message, as far as being in flight
  goes. A message can be retried once a worker has stored it with an rpc processor.

`covers` is history: for which messages a transaction's calls were ignored, how old
they were, and under which interval.

The module is separate from `PgsqlQueue` since the two meet in one place: a
message that is committed. `PgsqlQueue` leaves out why it was accepted, `Enqueue`
how it runs.

## 3. Runs

Passing:

| Run | Instance | Shows |
|---|---|---|
| `everything` | 1 message, 1 cron + 1 standalone worker, all events but `handover` | `TypeOK`, `WipHasDeadline`, `DoneIsCommitted`, `SupersededClosed`, `DoneHasProcessing` |
| `fifo` | a group of 3, 2 workers, `crash handover archive cancel` | `Exclusive`, `FifoOrder`, `FifoSerial`, `DuplicatesTraced`, `CompletedStays`, the refinement `KeepsContract` |
| `live` | a group of 2, crashes, log commits, retried failures, operational errors, archive, cancel, purge, fairness | `AttemptsBounded`, `WipEnds`, `FifoProgress` |
| `sqs` | a message and its retry, 2 rows, 1 cron + 1 standalone worker, every outcome, one fault of any kind, fairness | `TypeOK`, `DoneIsCommitted`, `DuplicatesBounded`, `StrandedByFaults`, `AttemptsBounded`, `RetryStaysInRow`, `Drained` |
| `worker` | 2 queues, one deleted, a message limit of 3, a signal, a write of the parameter, a fatal error, a failed check, 3 messages, fairness | `StopsWithinTen`, `BornStopped`, `GracefulStop`, `NoHealthyQueueStarved`, `NoQueueForgotten`, `StopReachesDueWorker` |
| `supervised` | the same loop under the probe: 2 queues, one deleted, jobs that hang and leak up to 2 threads with a limit of 1, a signal, a write of the stop parameter, a fatal error, a failed check, fairness | `TypeObserved` (with `WorkerLoop`'s `TypeOK` and the bound on leaked threads), `KilledForJobsOnly`, `PollsAgain` |
| `capture` | 2 jobs of one worker thread, 3 threads of which two share an ident, 2 pieces a job, both kinds of worker, stragglers and failing INSERTs | `TypeOK`, `LinesWhole`, `WrittenOnce`, `NothingLeft` |
| `enqueue` | 3 transactions, a FIFO and a standard queue with a window of 1 s, 5 kinds of calls (plain, interval 0, hashed with an error on duplicates, other queue, synchronous), 2 messages, 2 ticks a second | `TypeOK`, `ProcessorKnown`, `ProcessorsTraced`, `DuplicatesTraced`, `SuppressedIsKept`, `WindowNotExceeded` |

Runs that TLC must find violated: each states what a document or comment says and
the code does not do (`findings` quotes them).

| Run | Says | What happens |
|---|---|---|
| `v_handover` | tasks are never lost | a worker dies between taking and storing: `wip`, no deadline, for ever |
| `v_purge` | in-flight work is preserved | a requeued message with an old `end_time` is purged while pending |
| `v_processor` | "Processor must be unique !" | two transactions side by side each create a record; NULL columns pass the constraint, and workers then fail to store the function's messages |
| `v_livez` | `/livez` is OK for a worker that is processing messages | nothing touches the heartbeat during a job: after 300 s the probe fails, and with the Kubernetes examples the worker is killed in the middle of it |

More of the kind, which a reader reproduces by one change of a `.cfg`:

- `fifo` with `slowHandover` in `Env` breaks `Exclusive` (`README.md:10` promises exactly
  once): the deadline of the last attempt is still there when a message is taken again,
  the daemon requeues it between taking and storing, and a second worker takes it.
- `fifo` with `lateCommit` breaks `FifoSerial` (`README.md:657` promises strict order): the
  group's transactions commit in another order than their ids. So do `archiveWaiting`
  (a waiting message archived in the middle of a group), `target` (`--message`), and
  `retryAny` with `Retries` 1 (a done message reopened).
- `sqs` with `Visibility = "zero"` and no faults breaks `DuplicatesBounded`: a processor that
  forces a visibility timeout and leaves it at 0 makes its message visible while it runs,
  where `models/message_processor.py:85` says the queue's own timeout applies.
- `sqs` with `IdCount` 3 breaks `StrandedByFaults` before any fault if `Stranded` loses its
  conjunct `~Overtaken(r, c)`: it takes two retries for one to be overtaken (section 2). With
  the conjunct it holds there too, and for any number of retries by `StrandedWithinFaults`.
- `sqs` without `overrun`, `recovery` and `deleteFails` in `Env`, with `SPECIFICATION Spec` and two
  enqueued messages, satisfies the refinement `KeepsContract` (232 thousand states with
  2 faults); any of the three, or `Visibility = "zero"`, breaks it. For all instances it
  is the theorem `ImplementsLedger` of `SqsQueueProofs`.
- `StopReachesDueWorker` has `StopCheckDue` in it because an idle worker whose message
  count is no multiple of ten never asks for the stop parameter, although
  `workers/standalone.py:784` and `README.md:536` say it stops within about a period.

Exactly-once processing (`README.md:10`, `:52`) holds in the form of
`DuplicatesTraced`: a worker that dies after the job's commit and before the state's
makes the job run again, and the processing row of the abandoned execution, left in
`wip` or `reset`, tells. For SQS it holds in the form of `DuplicatesBounded`: one fault, one
repetition.

**Bounds.** `MaxRuns` caps the processing rows of a message. In `live`
it is more than `MaxAttempt` and the operator's retries together, and so
never stops a worker. In `everything` it cuts behaviours after four executions: two more than
`MaxAttempt` allows, so a retry by an operator, a redelivery and an overlapping
execution of the same message all happen before it. In `fifo` it
equals `MaxAttempt` and, without operator retries, cuts nothing.
Two workers are what it takes for two executions to overlap, three messages for a group
with a message in the middle. `MaxAttempt` 2 has a first and a last attempt. In
`worker` `CheckEvery` 2 and 3 messages put the parameter's write before, at and
after a check; one failed check gives the bound its second round. `MaxFailures` 2
and `FailTimeout` 1 let a queue fail, cool down and fail again; ages are counted up
to the threshold that the code compares them with, which loses nothing.
In `supervised` `FailTimeout` 2 with `SignalPeriod` 1 and `Window` 4 lets the worker rest longer than a
tick, be reset by a signal and rest again (`KilledForJobsOnly` is tight there: the
silence it allows is reached), `Rounds` 2 is what the metrics need that are due every second empty
poll, and `MaxDelta` 1 with `Leak` 2 goes from under the limit to past it in one job.
In `sqs` two ids and two rows are a message, its retry, and the row of a worker faster
than that retry; one fault of seven kinds comes at every place; no counter cuts the
model, since a message that is retried for ever is deleted after its attempts. A row can be
retried twice only with a third id, which is more than the run has time for; that case is covered by the
theorems, and was found by them (an overtaken retry). In `capture` two
jobs are what it takes to find something left by another, two pieces a line in two parts
or a line and the start of the next; that nothing is missing between two pieces of a line
takes three and is left to the proof.
In `enqueue` three transactions are two that race and one that sees both, or
two senders and the worker that stores; two messages are a pair of duplicates. The
window of a second runs out at the last tick of the clock, and messages are made
before, at and after a full second.

**Fairness.** `PgsqlQueue`: the daemon and the worker are cron entries that come
back (`data/ir_cron_worker.xml`), a standalone worker loops, an enqueueing
transaction ends, clocks advance. All weak: a worker that may act keeps that
ability until it acts or another takes the message. Nothing is assumed of crashes,
operators, log records or the purge. `WorkerLoop`: the loop sleeps half a second and
polls again, jobs end, time passes. `Supervision`: the same without the end of jobs; the
supervisor kills and restarts. `SqsQueue`: SQS redelivers what is not deleted, an
operator's transaction ends, workers go on unless disturbed.

**Deadlock** is not checked: when every message is settled, or the worker has
exited and its bounds are used, or every transaction of `Enqueue` has ended, or the last
job of `ConsoleCapture` is torn down, or SQS is empty, the system rests. Progress is checked by the
liveness properties instead.

## 4. Proofs

All theorems hold for every value of the constants that satisfies the named
`ASSUME`s: any number of messages, workers and queues, any grouping, any bounds.

`PgsqlQueueProofs`

| Theorem | Statement | Argument |
|---|---|---|
| `TypeCorrect` | `[]TypeOK` | inductive as it stands, because it ties phase, message, outcome and processing row of a worker |
| `DeadlineWithoutHandoverLoss` | without `handover`, `[]WipHasDeadline` | `WipHasFreshHolder`: the worker that has just taken a message without deadline also holds a fresh snapshot, so it can neither lose the row nor conflict |
| `DoneOnlyIfCommitted` | `[]DoneIsCommitted`, any environment | `CommittedInv`: a worker about to write `done` has seen the commit |
| `ExclusiveWhenTimely` | without overruns, slow handovers and recovery, `[]Exclusive` | `HolderInv`: a worker holds a message in `wip` with a deadline ahead, which daemon and queries leave alone |
| `FifoOrderWhenOrderly` | in order commits, no target, no reopening, no archive of waiting messages: `[]FifoOrder` | `OrderInv`: what was ever taken stays so, and by `PredecessorsReleased` a released immediate predecessor was itself taken, so all before it are released |
| `FifoSerialWhenOrderly` | the same, `[]FifoSerial` | a running message is in `wip`, and in `wip` it is no released predecessor |

The last two are the reason why a query that looks at one predecessor is enough, and
each of their assumptions is needed: section 3 names the event that breaks each.

The rest of `PgsqlQueueProofs`, and `PgsqlRowsProofs`, build on them (`TimelyEnv` stands
for the assumptions of `ExclusiveWhenTimely`):

| Theorem | Statement | Argument |
|---|---|---|
| `SupersededAlwaysClosed` | `[]SupersededClosed`, any environment | inductive with `TypeOK`: `Store` resets the row before the one it adds, and a worker writes its own row only |
| `DoneAlwaysHasProcessing` | `[]DoneHasProcessing`, any environment | `RowExists`: the row a worker will write is one of its message's, and a `reset` touches rows in `wip` alone |
| `AttemptsBoundedWhenTimely` | `TimelyEnv`: `[]AttemptsBounded` | `AttemptInv`: a message that may run again has used less than its limit, `MaxAttempt` and a retry each; only the one holder of a message counts |
| `CompletedStaysWhenTimely` | `TimelyEnv`, no `retryAny`: `CompletedStays` | a worker's message is in `wip` (`HolderInv`), so no late result meets a completed row |
| `DuplicatesAlwaysTraced` | `TimelyEnv`, no `retryAny`, no `IMQError`: `[]DuplicatesTraced` | `TraceInv`: while the job may commit again, all its commits were of abandoned executions, whose rows stay in `wip` or `reset` |
| `ImplementsLedger` | `TimelyEnv`: `Spec => KeepsContract` | step simulation under `HolderInv`: one lemma for each action, with what a row and a worker look like to the ledger (`ItemIs`, `LeaseIs`) |

Both extra assumptions of `DuplicatesAlwaysTraced` are in the code's nature: an `IMQError`
commits the job and fails the message, which an operator may then retry, and a done
message that is reopened runs again; neither leaves an abandoned row.

`SqsQueueProofs`

| Theorem | Statement | Argument |
|---|---|---|
| `TypeCorrect` | `[]TypeOK` | `OverHasResult`: a worker about to delete has an outcome |
| `DoneOnlyIfCommitted` | `[]DoneIsCommitted`, any faults, retries and redeliveries | `CommitInv`: a worker about to write `done` holds a message whose job committed, and while its snapshot is fresh its row shows that message |
| `RetriesStay` | `[]RetryStaysInRow`, any environment | `LinkInv`: no two rows show one message, an open retry is later than what its row shows, a worker's row shows its message or was retried since, and a message deleted before its retry committed is in the row of a faster worker, or that row was retried |
| `ImplementsLedger` | `NoInterference`: `Spec => KeepsContract` | step simulation under `LinkInv` and `CareInv`: one worker has a message, with a good receipt until it deletes it and a row in `wip` until it records; the message of a done row is deleted and nobody has it; the row of a retry that may commit is not in `wip` |

`NoInterference` stands for an `Env` without `overrun`, `recovery` and `deleteFails`, and a
`Visibility` other than `zero`. Crashes, failing stores, operational errors and
retries may come at any place and as often as they like.

`SqsFaultsProofs`, unless `Visibility` is `zero`

| Theorem | Statement | Argument |
|---|---|---|
| `DuplicatesWithinFaults` | `[]DuplicatesBounded` | `AccountInv`: the commits made, those owed by the workers that have the message, and the delivery SQS may still make, are together one more than the faults used at most; a delivery turns into a worker's debt, a debt into a commit, and only a fault gives one back |
| `AttemptsWithinFaults` | `[]AttemptsBounded` | `PriceInv`: the attempts of a row, the delivery SQS may still make without a fault, and the attempt a worker that lost its receipt will still count, are together no more than `MaxAttempt`, the faults used and the retries committed; attempts before the last cost nothing |
| `StrandedWithinFaults` | `[]StrandedByFaults` | `SoundInv`: a message is sound while nobody has it, or its one worker has a good receipt and a good row, or its row is finished, about to be, or overtaken; an undisturbed step keeps all of them sound, a fault makes one unsound |

`LateIsDeleted` completes the first: the commit after the deletion (an `IMQError`) is no
delivery as well, because the receipt of that worker is used up.
The others rest on `HeldInv`: a receipt is lost to faults only, and of two workers that know
one row only the later has a fresh snapshot. The assumption is needed: a
message that is visible while it runs is delivered again without a fault (section 3).

`ConsoleCaptureProofs`, for any finite set of threads, any jobs, any sharing of idents

| Theorem | Statement | Argument |
|---|---|---|
| `TypeCorrect` | `[]TypeOK` | with `CaptureInv`: a stream in thread-local storage has a cursor that was not closed |
| `LeavesNothing` | `[]NothingLeft` | `StandaloneInv`: all a standalone worker has on its thread is of its current message, until the second tear-down in `finally` |
| `LinesAlwaysWhole` | `[]LinesWhole` | `BufferInv`, `RowInv`: a buffer is text of one thread with nothing of it missing behind its start, and becomes a row as it is |
| `WrittenExactlyOnce` | `[]WrittenOnce` | `OnceInv`: rows and buffers share no text; `KeptInv`: text that is owed is in a row, or in a buffer whose stream is still to be flushed |

The set of threads is finite (`ThreadAssumption`), which the tear-down needs to write the
leftovers of all of them.

`SupervisionProofs`

| Theorem | Statement | Argument |
|---|---|---|
| `ObservedTypeCorrect` | `[]TypeObserved` under `ObservedSpec` | `WithinWhileWorking`: a worker takes no message while it is over its thread limit, so leaks add up to one job's beyond it |
| `NeverKilledForResting` | if `LoopOutpacesTicks`, `[]KilledForJobsOnly` | `SilenceInv`: the silence outside of jobs is no longer than the age of the failure timeout that lasts longest, plus one timeout for each signal that reset it, or the worker is about to show activity |
| `PromisesKept` | `[]` of `GracefulStop`, `BornStopped`, `StopsWithinTen` and `NoHealthyQueueStarved` of `WorkerLoop`, under `ObservedSpec` | `LoopInv` of `WorkerLoopProofs` is kept by `Kill` too (`PromisesEnd`): a process may end anywhere, and what a restart begins with is what `Init` begins with |

`LoopOutpacesTicks` says that the failure timeout is positive and that the metrics are due
within the rounds of a tick. The code's timeout is 300 s (`workers/standalone.py:69`), and
the fifty empty polls after which it updates its metrics take half a second to a second
each, well within a tick of about a minute.

`WorkerLoopProofs`

| Theorem | Statement | Argument |
|---|---|---|
| `TypeCorrect` | `[]TypeOK`, so failures never pass the threshold | `PolledBelow`: the queue being polled is below it, whatever signals do |
| `StopsGracefully` | `[]GracefulStop` | a message taken after the signal leaves `pc` in `task`, `top` or `exit` with `should_stop` set |
| `BornWorkersStop` | `[]BornStopped` | `BornInv`: until a check fails the cache of such a process is empty or right, and its count is 0, when the check is due |
| `StopsOnParameter` | `[]StopsWithinTen` | `SeenInv`: a worker that has seen the parameter finds it on when it reads it, and every message brings that check nearer; only a failed check puts it off |
| `NobodyStarves` | `[]NoHealthyQueueStarved` | `GapInv`: the polls that passed a queue over and its distance from `index` stay below a round |

`EnqueueProofs`

| Theorem | Statement | Argument |
|---|---|---|
| `TypeCorrect` | `[]TypeOK` | needs that messages of a snapshot are committed (`SeenCommitted`), so that nobody else's rollback takes a row out of `inFlight` |
| `ProcessorAlwaysKnown` | `[]ProcessorKnown` | `ProcessorsThere`: until it ends, the transaction of a message sees a record of its processor, its own or a committed one |
| `ProcessorsOnlyRace` | `[]ProcessorsTraced` | a record is created only when none is seen, and what the creator saw does not change |
| `NothingSilentlyLost` | `[]SuppressedIsKept` | `CoversThere`: what a call was ignored for is committed or of the same transaction |
| `IgnoredOnlyInWindow` | `[]WindowNotExceeded` | `enqueued_time` is never later than the true time |
| `DuplicatesExplained` | `[]DuplicatesTraced` | `RowOrder` (ids follow the clock) and `PairsOld`: what the later call did not find was unseen, out of flight, or old |

The invariant `IInv` joins these with `RowsOwned`, `ProcsOwned`, `OwnInFlight` and
`JobCommitted` (a transaction that rolled back owns nothing; the message being stored
is committed). The theorems hold for any number of transactions, calls, queues and
any windows. Nothing is assumed of `Second` but that it is positive.

Only model-checked: liveness (`WipEnds`, `FifoProgress`, `NoQueueForgotten`,
`StopReachesDueWorker`, `PollsAgain`, `Drained`), which needs fairness and `ENABLED`. Every
invariant and every action property of the passing runs is a theorem, some under the
assumptions their tables name.

## 5. Plan

What is left: a bound for `AttemptsBounded` of `PgsqlQueue` with overruns, as `SqsQueue` has
one with faults; and the hazards that `PROJECT.json` lists without a property.

### Not modelled

- Queue depths, statistics, the READY count of `imq-ctl` and the metrics: reports by
  which nothing in the repository decides.
- Readiness and health endpoints: they read counters; `/livez` alone has a consequence.
- Notifications: they change no state; that one may raise is part of `SqsQueue`'s and
  `PgsqlQueue`'s outcomes.
- The log tier of the purge, launch hints, names, wrapping of arguments, the test launcher, the
  controllers, parsing and formatting.
- FIFO queues of SQS, whose order and deduplication are Amazon's.

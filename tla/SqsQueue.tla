------------------------------ MODULE SqsQueue ------------------------------
(***************************************************************************)
(* One standard queue of the SQS provider.  The messages live at SQS; a    *)
(* worker that receives one mirrors it in a row of imq_message, runs the   *)
(* job, deletes the message at SQS, and records the result in the row, in  *)
(* that order.  Nothing binds the four together: what SQS holds and what   *)
(* the database says may differ after any failure.                         *)
(*                                                                         *)
(* The jobs here emit no captured log record, so a worker's main cursor    *)
(* keeps one snapshot from the commit of the row to the record of the      *)
(* result (PgsqlQueue models the other case).                              *)
(***************************************************************************)
EXTENDS Naturals, FiniteSets

CONSTANTS
    Id,          (* bound: the message ids SQS hands out, in order          *)
    Row,         (* bound: ids of imq_message rows, from a sequence         *)
    Enqueued,    (* how many messages are enqueued, the other ids are for
                    retries                                                 *)
    Worker,      (* worker processes                                        *)
    Kind,        (* Kind[w]: "cron" or "standalone"                         *)
    MaxAttempt,  (* max_attempt of the processor                            *)
    Visibility,  (* visibility timeout forced by the processor: "none",
                    "zero" or "long"                                        *)
    Outcome,     (* how the job code may end                                *)
    Env,         (* what the environment may do, see EnvEvents              *)
    Faults       (* bound: faults in a behaviour                            *)

(***************************************************************************)
(*   crash        a worker dies while it has a message                     *)
(*   overrun      SQS delivers again a message a worker still has: its     *)
(*                visibility timeout is over (or SQS delivers twice)       *)
(*   operational  the job ends with psycopg2.OperationalError              *)
(*   storeFails   storing the message raises (visibility change refused)   *)
(*   deleteFails  delete() raises                                          *)
(*   retry        retry_processing() on a row that is not in wip           *)
(*   recovery     the Retry (recovery) button, on a row in wip             *)
(***************************************************************************)
EnvEvents == {"crash", "overrun", "operational", "storeFails", "deleteFails",
              "retry", "recovery"}

Outcomes == {"ok", "imqerror", "terminate", "retryable", "exception",
             "noProcessor"}

NoId == 0
NoRow == 0

ASSUME IdAssumption == Id \subseteq Nat \ {NoId} /\ Row \subseteq Nat \ {NoRow}
ASSUME EnqueuedAssumption == Enqueued \in Nat
ASSUME WorkerAssumption == Worker \cap {"none", "visible", "deleted"} = {}
ASSUME KindAssumption == Kind \in [Worker -> {"cron", "standalone"}]
ASSUME MaxAttemptAssumption == MaxAttempt \in Nat \ {0}
ASSUME VisibilityAssumption == Visibility \in {"none", "zero", "long"}
ASSUME OutcomeAssumption == Outcome \subseteq Outcomes
ASSUME EnvAssumption == Env \subseteq EnvEvents
ASSUME FaultsAssumption == Faults \in Nat

VARIABLES
    remote,    (* per id: none, visible, deleted, or the worker it was last
                  delivered to, whose receipt is the valid one              *)
    origin,    (* per id: the row a retry sent it for, NoRow when enqueued  *)
    retrial,   (* per id: the transaction of that retry: none, open, stale
                  (its row has changed since), committed or aborted         *)
    qid,       (* per row: queue_message_id, NoId when there is no row      *)
    state,     (* per row                                                   *)
    attempt,   (* per row                                                   *)
    pc,        (* idle, got (received), running (stored), over (the job
                  ended, the message is to be deleted), late (deleted, the
                  job is to be committed), ran (the result is to be
                  recorded), giveup (recorded, to be deleted once more)     *)
    cur,       (* the message received                                      *)
    rec,       (* its row, NoRow while the worker knows none                *)
    snap,      (* none, fresh or stale: does the snapshot show that row     *)
    last,      (* its attempt is the last one that the processor allows     *)
    out,       (* the state process_message returns                         *)
    commits,   (* per id: job transactions that committed                   *)
    faults     (* faults left                                               *)

vars == <<remote, origin, retrial, qid, state, attempt, pc, cur, rec, snap,
          last, out, commits, faults>>
sqsVars == <<remote, origin, retrial>>
rowVars == <<qid, state, attempt>>

Final == {"done", "terminated", "failed"}
RowState == {"none", "wip", "retry"} \cup Final

(* A commit that changed row r: transactions that read it before are stale. *)
TouchedWorkers(r) == [v \in Worker |-> IF rec[v] = r /\ snap[v] = "fresh"
                                       THEN "stale" ELSE snap[v]]
TouchedRetrials(r) == [c \in Id |-> IF origin[c] = r /\ retrial[c] = "open"
                                    THEN "stale" ELSE retrial[c]]

(* A commit of worker w itself: it reads again at once, or leaves. *)
Wrote(w, r, s) ==
    /\ snap' = [TouchedWorkers(r) EXCEPT ![w] = s]
    /\ retrial' = TouchedRetrials(r)

Fault(event) ==
    /\ event \in Env
    /\ faults > 0
    /\ faults' = faults - 1

LeaveKeepsMessage(w) ==
    /\ pc' = [pc EXCEPT ![w] = "idle"]
    /\ rec' = [rec EXCEPT ![w] = NoRow]
    /\ last' = [last EXCEPT ![w] = FALSE]
    /\ out' = [out EXCEPT ![w] = "none"]
    /\ UNCHANGED cur

Leave(w) ==
    /\ pc' = [pc EXCEPT ![w] = "idle"]
    /\ cur' = [cur EXCEPT ![w] = NoId]
    /\ rec' = [rec EXCEPT ![w] = NoRow]
    /\ last' = [last EXCEPT ![w] = FALSE]
    /\ out' = [out EXCEPT ![w] = "none"]

LeaveQuietly(w) ==
    /\ Leave(w)
    /\ snap' = [snap EXCEPT ![w] = "none"]
    /\ UNCHANGED <<sqsVars, rowVars, commits>>

-----------------------------------------------------------------------------
(* Sending. *)

NextId(c) == remote[c] = "none" /\ \A d \in Id : d < c => remote[d] # "none"

(* The message is at SQS before the caller commits, and stays there if the
   caller rolls back: how that transaction ends changes nothing here. *)
SendMessage(c) ==
    /\ NextId(c)
    /\ Cardinality({d \in Id : remote[d] # "none" /\ origin[d] = NoRow}) < Enqueued
    /\ remote' = [remote EXCEPT ![c] = "visible"]
    /\ UNCHANGED <<origin, retrial, rowVars, pc, cur, rec, snap, last, out, commits, faults>>

(* retry_processing: a new message is sent at once; the row gets its id and
   state retry when the transaction commits. *)
RetrySend(r, c) ==
    /\ \/ "retry" \in Env /\ state[r] \notin {"none", "wip"}
       \/ "recovery" \in Env /\ state[r] = "wip"
    /\ NextId(c)
    /\ remote' = [remote EXCEPT ![c] = "visible"]
    /\ origin' = [origin EXCEPT ![c] = r]
    /\ retrial' = [retrial EXCEPT ![c] = "open"]
    /\ UNCHANGED <<rowVars, pc, cur, rec, snap, last, out, commits, faults>>

Stored(c) == \E r \in Row : qid[r] = c

IdFreeUnchecked(c) == TRUE

(* UNIQUE(queue_id, queue_message_id) *)
IdFree(c) == ~Stored(c)

RetryCommit(c) ==
    LET r == origin[c] IN
    /\ retrial[c] = "open"
    /\ IdFree(c)
    /\ qid' = [qid EXCEPT ![r] = c]
    /\ state' = [state EXCEPT ![r] = "retry"]
    /\ retrial' = [TouchedRetrials(r) EXCEPT ![c] = "committed"]
    /\ snap' = TouchedWorkers(r)
    /\ UNCHANGED <<remote, origin, attempt, pc, cur, rec, last, out, commits, faults>>

(* The row has changed, or a worker has stored the new message in a row of its
   own and the id is not free. *)
RetryAbort(c) ==
    /\ \/ retrial[c] = "stale"
       \/ retrial[c] = "open" /\ ~IdFree(c)
    /\ retrial' = [retrial EXCEPT ![c] = "aborted"]
    /\ UNCHANGED <<remote, origin, rowVars, pc, cur, rec, snap, last, out, commits, faults>>

-----------------------------------------------------------------------------
(* Receiving and storing. *)

PickableOnce(c) == remote[c] = "visible" /\ ~Stored(c)

Pickable(c) == remote[c] = "visible"

(* The snapshot of the main cursor is taken with the queue, before SQS is
   asked: the row looked up in Store is the one that snapshot shows. *)
Receive(w, c) ==
    /\ pc[w] = "idle"
    /\ Pickable(c)
    /\ remote' = [remote EXCEPT ![c] = w]
    /\ pc' = [pc EXCEPT ![w] = "got"]
    /\ cur' = [cur EXCEPT ![w] = c]
    /\ rec' = [rec EXCEPT ![w] = IF Stored(c) THEN CHOOSE r \in Row : qid[r] = c
                                 ELSE NoRow]
    /\ snap' = [snap EXCEPT ![w] = "fresh"]
    /\ UNCHANGED <<origin, retrial, rowVars, last, out, commits, faults>>

NewRow(r) == qid[r] = NoId /\ \A s \in Row : s < r => qid[s] # NoId

(* The row worker w is to write: the one it found, or a new one. *)
Target(w, r) ==
    IF rec[w] # NoRow THEN r = rec[w] /\ snap[w] = "fresh"
    ELSE NewRow(r) /\ IdFree(cur[w])

AfterChange(w) ==
    IF Visibility = "zero" /\ remote[cur[w]] = w
    THEN [remote EXCEPT ![cur[w]] = "visible"] ELSE remote

WriteRow(w, r, s) ==
    /\ qid' = [qid EXCEPT ![r] = cur[w]]
    /\ state' = [state EXCEPT ![r] = s]
    /\ attempt' = [attempt EXCEPT ![r] = @ + 1]

Store(w) ==
    /\ pc[w] = "got"
    /\ \E r \in Row :
          /\ Target(w, r)
          /\ WriteRow(w, r, "wip")
          /\ rec' = [rec EXCEPT ![w] = r]
          /\ last' = [last EXCEPT ![w] = attempt[r] + 1 >= MaxAttempt]
          /\ Wrote(w, r, "fresh")
    /\ remote' = AfterChange(w)
    /\ pc' = [pc EXCEPT ![w] = "running"]
    /\ UNCHANGED <<origin, cur, out, commits, faults>>

(* The row was changed, or created, by somebody else since the snapshot. *)
StoreRefused(w) ==
    /\ pc[w] = "got"
    /\ IF rec[w] # NoRow THEN snap[w] = "stale" ELSE ~IdFree(cur[w])
    /\ LeaveQuietly(w)
    /\ UNCHANGED faults

StoreRaisesCron(w) ==
    /\ pc[w] = "got" /\ Kind[w] = "cron"
    /\ Visibility # "none"
    /\ Fault("storeFails")
    /\ LeaveQuietly(w)

(* The standalone worker marks the message failed; it is still at SQS. *)
StoreMarksFailed(w) ==
    /\ pc[w] = "got" /\ Kind[w] = "standalone"
    /\ Visibility # "none"
    /\ Fault("storeFails")
    /\ \E r \in Row : Target(w, r) /\ WriteRow(w, r, "failed") /\ Wrote(w, r, "none")
    /\ Leave(w)
    /\ UNCHANGED <<remote, origin, commits>>

-----------------------------------------------------------------------------
(* Running the job, and deleting its message. *)

Ends(w, result, next) ==
    /\ out' = [out EXCEPT ![w] = result]
    /\ pc' = [pc EXCEPT ![w] = next]
    /\ UNCHANGED <<sqsVars, rowVars, cur, rec, snap, last>>

JobOkUncommitted(w) ==
    /\ pc[w] = "running" /\ "ok" \in Outcome
    /\ Ends(w, "done", "over")
    /\ UNCHANGED <<commits, faults>>

JobOk(w) ==
    /\ pc[w] = "running" /\ "ok" \in Outcome
    /\ commits' = [commits EXCEPT ![cur[w]] = @ + 1]
    /\ Ends(w, "done", "over")
    /\ UNCHANGED faults

(* The results that are final: their message is to be deleted. *)
JobFails(w) ==
    /\ pc[w] = "running"
    /\ \/ "imqerror" \in Outcome /\ Ends(w, "imqerror", "over")
       \/ "terminate" \in Outcome /\ Ends(w, "terminated", "over")
       \/ "exception" \in Outcome /\ Ends(w, "failed", "over")
       \/ "retryable" \in Outcome /\ last[w] /\ Ends(w, "failed", "over")
       \/ /\ "noProcessor" \in Outcome /\ Kind[w] = "standalone"
          /\ Ends(w, "failed", "over")
    /\ UNCHANGED <<commits, faults>>

MayTryAlways(w) == TRUE

MayTryAgain(w) == ~last[w]

JobAgainDeletes(w) ==
    /\ pc[w] = "running"
    /\ "retryable" \in Outcome /\ MayTryAgain(w)
    /\ Ends(w, "retry", "over")
    /\ UNCHANGED <<commits, faults>>

(* The message is left to be delivered again. *)
JobAgain(w) ==
    /\ pc[w] = "running"
    /\ \/ "retryable" \in Outcome /\ MayTryAgain(w) /\ Ends(w, "retry", "ran")
       \/ "noProcessor" \in Outcome /\ Kind[w] = "cron" /\ Ends(w, "failed", "ran")
    /\ UNCHANGED <<commits, faults>>

JobOperational(w) ==
    /\ pc[w] = "running"
    /\ Fault("operational")
    /\ Ends(w, "psycopg2_Error", "ran")
    /\ UNCHANGED commits

DeletedNever(w) == UNCHANGED remote

(* delete() with the receipt of the last delivery deletes the message; with
   an older receipt it may have no effect. *)
Deleted(w) ==
    \/ remote' = [remote EXCEPT ![cur[w]] = "deleted"]
    \/ remote[cur[w]] # w /\ UNCHANGED remote

Delete(w) ==
    /\ pc[w] = "over"
    /\ Deleted(w)
    /\ pc' = [pc EXCEPT ![w] = IF out[w] = "imqerror" THEN "late" ELSE "ran"]
    /\ UNCHANGED <<origin, retrial, rowVars, cur, rec, snap, last, out, commits, faults>>

(* The job of an IMQError is committed after the message is deleted. *)
CommitLate(w) ==
    /\ pc[w] = "late"
    /\ commits' = [commits EXCEPT ![cur[w]] = @ + 1]
    /\ Ends(w, "failed", "ran")
    /\ UNCHANGED faults

(* delete() raises after the commit of the job: the handler of exceptions
   makes it a failure and deletes again. *)
DeleteRaisesOnce(w) ==
    /\ pc[w] = "over" /\ out[w] = "done"
    /\ Fault("deleteFails")
    /\ Ends(w, "failed", "over")
    /\ UNCHANGED commits

MarkFailed(w) ==
    /\ state' = [state EXCEPT ![rec[w]] = "failed"]
    /\ Wrote(w, rec[w], "none")
    /\ Leave(w)
    /\ UNCHANGED <<remote, origin, qid, attempt, commits>>

(* It raises in a handler, the one of exceptions included: process_message is
   left by the exception, a job transaction that is open is dropped. *)
DeleteRaises(w) ==
    /\ pc[w] = "over"
    /\ Fault("deleteFails")
    /\ IF Kind[w] = "standalone" /\ snap[w] = "fresh"
       THEN MarkFailed(w) ELSE LeaveQuietly(w)

-----------------------------------------------------------------------------
(* Recording the result. *)

Record(w) ==
    LET r == rec[w] IN
    /\ pc[w] = "ran"
    /\ out[w] # "psycopg2_Error"
    /\ snap[w] = "fresh"
    /\ state' = [state EXCEPT ![r] = out[w]]
    /\ IF Kind[w] = "cron" /\ out[w] # "done" /\ last[w]
       THEN /\ pc' = [pc EXCEPT ![w] = "giveup"]
            /\ Wrote(w, r, "fresh")
            /\ UNCHANGED <<cur, rec, last, out>>
       ELSE Leave(w) /\ Wrote(w, r, "none")
    /\ UNCHANGED <<remote, origin, qid, attempt, commits, faults>>

(* psycopg2_Error is no state: the standalone worker marks the message failed
   and leaves it at SQS. *)
RecordOperational(w) ==
    /\ pc[w] = "ran"
    /\ out[w] = "psycopg2_Error"
    /\ Kind[w] = "standalone" /\ snap[w] = "fresh"
    /\ MarkFailed(w)
    /\ UNCHANGED faults

RecordRefused(w) ==
    /\ pc[w] = "ran"
    /\ \/ snap[w] = "stale"
       \/ out[w] = "psycopg2_Error" /\ Kind[w] = "cron"
    /\ LeaveQuietly(w)
    /\ UNCHANGED faults

(* The cron worker deletes the message after the last attempt. *)
GiveUp(w) ==
    /\ pc[w] = "giveup"
    /\ Deleted(w)
    /\ Leave(w)
    /\ snap' = [snap EXCEPT ![w] = "none"]
    /\ UNCHANGED <<origin, retrial, rowVars, commits, faults>>

GiveUpRaises(w) ==
    /\ pc[w] = "giveup"
    /\ Fault("deleteFails")
    /\ LeaveQuietly(w)

Crash(w) ==
    /\ pc[w] # "idle"
    /\ Fault("crash")
    /\ LeaveQuietly(w)

-----------------------------------------------------------------------------
(* SQS: a message that was delivered and not deleted becomes visible again. *)

Overdue(c, w) ==
    /\ remote[c] = w
    /\ remote' = [remote EXCEPT ![c] = "visible"]
    /\ UNCHANGED <<origin, retrial, rowVars, pc, cur, rec, snap, last, out, commits>>

Timeout(c) ==
    \E w \in Worker : cur[w] # c /\ Overdue(c, w) /\ UNCHANGED faults

Overrun(c) ==
    \E w \in Worker : cur[w] = c /\ Overdue(c, w) /\ Fault("overrun")

-----------------------------------------------------------------------------
Init ==
    /\ remote = [c \in Id |-> "none"]
    /\ origin = [c \in Id |-> NoRow]
    /\ retrial = [c \in Id |-> "none"]
    /\ qid = [r \in Row |-> NoId]
    /\ state = [r \in Row |-> "none"]
    /\ attempt = [r \in Row |-> 0]
    /\ pc = [w \in Worker |-> "idle"]
    /\ cur = [w \in Worker |-> NoId]
    /\ rec = [w \in Worker |-> NoRow]
    /\ snap = [w \in Worker |-> "none"]
    /\ last = [w \in Worker |-> FALSE]
    /\ out = [w \in Worker |-> "none"]
    /\ commits = [c \in Id |-> 0]
    /\ faults = Faults

(* What a worker that is not disturbed does next. *)
Works(w) ==
    \/ Store(w) \/ StoreRefused(w)
    \/ JobOk(w) \/ JobFails(w) \/ JobAgain(w)
    \/ Delete(w) \/ CommitLate(w)
    \/ Record(w) \/ RecordOperational(w) \/ RecordRefused(w) \/ GiveUp(w)

Disturbed(w) ==
    \/ StoreRaisesCron(w) \/ StoreMarksFailed(w) \/ JobOperational(w)
    \/ DeleteRaisesOnce(w) \/ DeleteRaises(w) \/ GiveUpRaises(w)
    \/ Crash(w)

Next ==
    \/ \E c \in Id : SendMessage(c) \/ RetryCommit(c) \/ RetryAbort(c)
    \/ \E c \in Id : Timeout(c) \/ Overrun(c)
    \/ \E r \in Row, c \in Id : RetrySend(r, c)
    \/ \E w \in Worker, c \in Id : Receive(w, c)
    \/ \E w \in Worker : Works(w) \/ Disturbed(w)

Spec == Init /\ [][Next]_vars

(* The worker loop comes back for ever, SQS redelivers what is not deleted, a
   transaction ends; faults and operators owe nothing. *)
Fairness ==
    /\ WF_vars(\E c \in Id : Timeout(c))
    /\ WF_vars(\E c \in Id : RetryCommit(c) \/ RetryAbort(c))
    /\ \A w \in Worker : WF_vars(Works(w) \/ \E c \in Id : Receive(w, c))

FairSpec == Spec /\ Fairness
-----------------------------------------------------------------------------
(* Properties. *)

(* Every column and every worker variable has the values the code gives it. *)
TypeOK ==
    /\ remote \in [Id -> {"none", "visible", "deleted"} \cup Worker]
    /\ origin \in [Id -> Row \cup {NoRow}]
    /\ retrial \in [Id -> {"none", "open", "stale", "committed", "aborted"}]
    /\ qid \in [Row -> Id \cup {NoId}]
    /\ state \in [Row -> RowState]
    /\ attempt \in [Row -> Nat]
    /\ pc \in [Worker -> {"idle", "got", "running", "over", "late", "ran", "giveup"}]
    /\ cur \in [Worker -> Id \cup {NoId}]
    /\ rec \in [Worker -> Row \cup {NoRow}]
    /\ snap \in [Worker -> {"none", "fresh", "stale"}]
    /\ last \in [Worker -> BOOLEAN]
    /\ out \in [Worker -> Final \cup {"none", "retry", "imqerror", "psycopg2_Error"}]
    /\ commits \in [Id -> Nat]
    /\ faults \in 0..Faults
    /\ \A w \in Worker : pc[w] = "idle" <=> cur[w] = NoId
    /\ \A w \in Worker : pc[w] \notin {"idle", "got"} => rec[w] # NoRow
    /\ \A w \in Worker : pc[w] \in {"ran", "giveup"} => out[w] \notin {"none", "imqerror"}
    /\ \A c \in Id : retrial[c] # "none" <=> origin[c] # NoRow

Used == Faults - faults

(* A row is done only if the job of the message it shows committed, although
   a failing delete turns the result of a committed job into a failure. *)
DoneIsCommitted == \A r \in Row : state[r] = "done" => commits[qid[r]] > 0

(* Exactly once, as far as it goes: it takes one crash, failure or delivery
   too many for each further commit of the job of a message.  A visibility
   timeout of zero makes every delivery one too many. *)
DuplicatesBounded == \A c \in Id : commits[c] <= 1 + Used

(* A worker has executed message c of a retry in a row of its own, somebody has
   retried that row too, and only then the transaction that sent c committed,
   the id being free again: row r waits for a message that is gone. *)
Overtaken(r, c) ==
    /\ origin[c] = r /\ retrial[c] = "committed" /\ state[r] = "retry"
    /\ \E d \in Id : d > c /\ retrial[d] = "committed" /\ origin[d] # r

(* Deleted at SQS, but neither finished in its row nor in a worker's hands. *)
Stranded(c) ==
    /\ remote[c] = "deleted"
    /\ \A w \in Worker : cur[w] # c
    /\ \E r \in Row : qid[r] = c /\ state[r] \notin Final /\ ~Overtaken(r, c)

(* The message is deleted before its result is recorded: only a fault between
   the two leaves a row in wip or retry that nothing will ever finish, and one
   such row at most for each fault. *)
StrandedByFaults == Cardinality({c \in Id : Stranded(c)}) <= Used

(* store_message does not look at max_attempt: only faults and retries that
   committed give a message more attempts than its processor allows. *)
AttemptsBounded ==
    \A r \in Row :
        attempt[r] <= MaxAttempt + Used
                        + Cardinality({c \in Id : origin[c] = r /\ retrial[c] = "committed"})

(* A retry that committed is executed in the row that was retried, unless that
   row was retried once more: a worker that was faster than the commit has its
   own row, and makes the retry abort. *)
RetryStaysInRow ==
    \A c \in Id : retrial[c] = "committed" =>
        \A r \in Row \ {origin[c]} : qid[r] = c =>
            \E d \in Id : d > c /\ origin[d] = origin[c] /\ retrial[d] = "committed"

(* Whatever is sent is delivered until it leaves the queue: faults delay the
   deletion, none of them leaves a message at SQS for ever. *)
Drained == \A c \in Id : remote[c] = "visible" ~> remote[c] = "deleted"

-----------------------------------------------------------------------------
(* The queue as a ledger: what messages, rows and workers mean to a caller. *)

Shows(c, s) == \E r \in Row : qid[r] = c /\ state[r] = s

(* A message is open while it is at SQS, and then until its result is recorded. *)
Items ==
    [c \in Id |->
        CASE remote[c] = "none" -> "new"
          [] remote[c] # "none" /\ Shows(c, "done") -> "done"
          [] remote[c] = "deleted" /\ ~Shows(c, "done") /\ ~Shows(c, "wip") -> "closed"
          [] OTHER -> "open"]

(* A message is leased once it is stored; an IMQError is not settled before its
   late commit. *)
Leases ==
    [w \in Worker |->
        CASE pc[w] \in {"idle", "got", "giveup"} -> <<NoId, "none">>
          [] pc[w] \in {"running", "late"} \/ (pc[w] = "over" /\ out[w] = "imqerror")
                -> <<cur[w], "working">>
          [] pc[w] \in {"over", "ran"} /\ out[w] = "done" -> <<cur[w], "worked">>
          [] OTHER -> <<cur[w], "over">>]

Contract == INSTANCE Ledger WITH
    Item <- Id, Holder <- Worker, NoItem <- NoId,
    item <- Items, lease <- Leases, worked <- commits

(* As long as SQS delivers no message that a worker still has, nobody sends a
   retry of one in progress, and delete() does not fail, the queue keeps the
   contract of a ledger, through crashes, failing stores, operational errors and
   retries. *)
KeepsContract == Contract!Spec
=============================================================================

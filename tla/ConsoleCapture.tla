--------------------------- MODULE ConsoleCapture ---------------------------
(***************************************************************************)
(* What a worker thread keeps of the output of the jobs it runs, one after *)
(* the other: the log handler of the message and the stream given to the   *)
(* job, both found through thread-local storage.  The threads of a job     *)
(* write to its stream at the same time, in chunks that need not be lines; *)
(* every line is to become one row of imq_message_processing_log.  A write *)
(* holds the lock of the stream and is one action.                         *)
(***************************************************************************)
EXTENDS Naturals, SequencesExt

CONSTANTS
    Thread,     (* the threads a job may start                               *)
    Ident,      (* Ident[t]: its threading.get_ident(), reused after its end *)
    Tasks,      (* bound: processings of the worker thread                   *)
    Writes,     (* bound: pieces of text written by a job                    *)
    Env         (* stragglers: threads may outlive their job;
                   insertFails: the INSERT of a row may raise                *)

ASSUME ThreadAssumption == IsFiniteSet(Thread)
ASSUME IdentAssumption == DOMAIN Ident = Thread
ASSUME TasksAssumption == Tasks \in Nat /\ Writes \in Nat
ASSUME EnvAssumption == Env \subseteq {"stragglers", "insertFails"}

Task == 1..Tasks
NoTask == 0

VARIABLES
    kind,       (* cron or standalone: which twin of the code runs           *)
    task,       (* the processing of the worker thread, or the last one      *)
    phase,      (* idle, running, nominal (teardown after the job), cleanup
                   (teardown in the finally clause)                          *)
    flushed,    (* the teardown has flushed the stream, not closed its cursor *)
    tls,        (* the processing whose stream is in TLS._imq_stream         *)
    handlers,   (* the processings whose log handler is still installed      *)
    given,      (* given[p]: whose stream the job of p writes to             *)
    closed,     (* the processings whose stream is a closed StringIO         *)
    cursor,     (* cursor[p]: none, open, aborted (its transaction failed)
                   or closed                                                 *)
    life,       (* life[p][t]: new (wrote nothing), alive or over            *)
    buf,        (* buf[p][k]: the partial line in _buffers under key k       *)
    count,      (* count[p]: pieces the threads of p wrote                   *)
    rows,       (* rows[p]: the log rows written for p                       *)
    due,        (* history: what the stream of p took before its teardown    *)
    broken      (* history: the processings that had an INSERT raise         *)

vars == <<kind, task, phase, flushed, tls, handlers, given, closed, cursor,
          life, buf, count, rows, due, broken>>
threadVars == <<handlers, given, life, count>>
textVars == <<closed, cursor, buf, rows, due, broken>>

(* A piece of text without newline, the at-th that the job of `of` wrote. *)
Piece == [of : Task, by : Thread, at : 1..Writes]

Console(p) == cursor[p] # "none"

-----------------------------------------------------------------------------
(* One processing of the worker thread. *)

(* The job gets _imq_stream if its message asks for console capture. *)
Given(p, console) == IF console THEN p ELSE NoTask

(* The cron worker captures the log of every message. *)
Start ==
    LET p == task + 1 IN
    /\ phase = "idle" /\ p \in Task
    /\ task' = p
    /\ phase' = "running"
    /\ \E log \in BOOLEAN : handlers' = IF log \/ kind = "cron" THEN handlers \cup {p}
                                        ELSE handlers
    /\ \E console \in BOOLEAN :
          /\ cursor' = IF console THEN [cursor EXCEPT ![p] = "open"] ELSE cursor
          /\ tls' = IF console THEN p ELSE tls
          /\ given' = [given EXCEPT ![p] = Given(p, console)]
    /\ UNCHANGED <<kind, flushed, closed, life, buf, count, rows, due, broken>>

(* A thread of the job is started, or was and is not over. *)
Runs(q, t) ==
    \/ life[q][t] = "alive"
    \/ /\ phase = "running" /\ q = task
       /\ life[q][t] = "new"
       /\ \A p \in Task, u \in Thread : Ident[u] = Ident[t] => life[p][u] # "alive"

EndThread(p, t) ==
    /\ life[p][t] = "alive"
    /\ life' = [life EXCEPT ![p][t] = "over"]
    /\ UNCHANGED <<kind, task, phase, flushed, tls, handlers, given, count, textVars>>

(* The job is over: its threads are, unless it did not join them. *)
Joined == "stragglers" \in Env \/ \A t \in Thread : life[task][t] # "alive"

JobReturns ==
    /\ phase = "running" /\ Joined
    /\ phase' = "nominal"
    /\ UNCHANGED <<kind, task, flushed, tls, threadVars, textVars>>

(* process_message raises: the cron worker has no teardown for that. *)
JobRaises ==
    /\ phase = "running" /\ Joined
    /\ phase' = IF kind = "cron" THEN "idle" ELSE "cleanup"
    /\ UNCHANGED <<kind, task, flushed, tls, threadVars, textVars>>

-----------------------------------------------------------------------------
(* The stream. *)

KeyIdent(t) == CHOOSE u \in Thread : Ident[u] = Ident[t]

(* _buffers is keyed by the Thread object. *)
Key(t) == t

(* The rows of `texts` are inserted, each is committed at once.  A failure is
   logged, and leaves the cursor in its failed transaction: of several rows
   those before it are written. *)
Emit(p, texts) ==
    \E written \in SUBSET texts :
        /\ written = texts \/ cursor[p] # "open" \/ "insertFails" \in Env
        /\ written = {} \/ cursor[p] = "open"
        /\ rows' = [rows EXCEPT ![p] = @ \o SetToSeq(written)]
        /\ IF written = texts THEN UNCHANGED <<cursor, broken>>
           ELSE /\ cursor' = [cursor EXCEPT ![p] = IF @ = "open" THEN "aborted" ELSE @]
                /\ broken' = broken \cup {p}

AccumulateReplaces(old, piece) == <<piece>>

Accumulate(old, piece) == Append(old, piece)

RestKeeps(old, new) == old \o new

(* What is left in the buffer once the line in it was taken. *)
Rest(old, new) == new

(* write() by a thread of the job of q, a piece with a newline or without, and
   perhaps a piece behind the newline. *)
Write(q, t) ==
    LET p == given[q]
        k == Key(t)
        piece(i) == [of |-> q, by |-> t, at |-> count[q] + i]
    IN
    /\ Runs(q, t)
    /\ life' = [life EXCEPT ![q][t] = "alive"]
    /\ p # NoTask /\ p \notin closed
    /\ \E n \in {1, 2}, newline \in BOOLEAN :
          /\ count[q] + n <= Writes
          /\ n = 2 => newline
          /\ count' = [count EXCEPT ![q] = @ + n]
          /\ due' = IF tls = p /\ ~flushed
                    THEN [due EXCEPT ![p] = @ \cup {piece(i) : i \in 1..n}] ELSE due
          /\ IF newline
             THEN /\ Emit(p, {Append(buf[p][k], piece(1))})
                  /\ buf' = [buf EXCEPT ![p][k] =
                                Rest(@, IF n = 2 THEN <<piece(2)>> ELSE <<>>)]
             ELSE /\ buf' = [buf EXCEPT ![p][k] = Accumulate(@, piece(1))]
                  /\ UNCHANGED <<cursor, rows, broken>>
    /\ UNCHANGED <<kind, task, phase, flushed, tls, handlers, given, closed>>

-----------------------------------------------------------------------------
(* Teardown: after the job, and again in the finally clause of the standalone
   worker. *)

Tearing == phase \in {"nominal", "cleanup"}

LeftoversOfAll(p) == {buf[p][t] : t \in Thread}

(* The partial lines that are still in a buffer. *)
Leftovers(p) == {buf[p][t] : t \in Thread} \ {<<>>}

(* The buffers of all threads are taken, cleared, and written: close() of the
   standalone worker, stop_capture() of the cron worker.  The standalone worker
   removes the log handler first. *)
Flush ==
    /\ Tearing /\ ~flushed
    /\ phase = "nominal" => Console(task)
    /\ tls # NoTask
    /\ Emit(tls, Leftovers(tls))
    /\ buf' = [buf EXCEPT ![tls] = [t \in Thread |-> <<>>]]
    /\ closed' = IF kind = "standalone" THEN closed \cup {tls} ELSE closed
    /\ handlers' = IF kind = "standalone" THEN handlers \ {task} ELSE handlers
    /\ flushed' = TRUE
    /\ UNCHANGED <<kind, task, phase, tls, given, life, count, due>>

AfterTeardown == IF phase = "nominal" /\ kind = "standalone" THEN "cleanup" ELSE "idle"

TlsKept == tls

(* The stream is dropped with its cursor. *)
TlsDropped == NoTask

CloseCursor ==
    /\ Tearing /\ flushed
    /\ cursor' = [cursor EXCEPT ![tls] = "closed"]
    /\ tls' = TlsDropped
    /\ flushed' = FALSE
    /\ phase' = AfterTeardown
    /\ UNCHANGED <<kind, task, threadVars, closed, buf, rows, due, broken>>

(* No stream to tear down; the log handler alone is. *)
NoStream ==
    /\ Tearing /\ ~flushed
    /\ (phase = "nominal" /\ ~Console(task)) \/ tls = NoTask
    /\ handlers' = IF kind = "standalone" THEN handlers \ {task} ELSE handlers
    /\ phase' = AfterTeardown
    /\ UNCHANGED <<kind, task, flushed, tls, given, life, count, textVars>>

-----------------------------------------------------------------------------
Init ==
    /\ kind \in {"cron", "standalone"}
    /\ task = 0
    /\ phase = "idle"
    /\ flushed = FALSE
    /\ tls = NoTask
    /\ handlers = {}
    /\ given = [p \in Task |-> NoTask]
    /\ closed = {}
    /\ cursor = [p \in Task |-> "none"]
    /\ life = [p \in Task |-> [t \in Thread |-> "new"]]
    /\ buf = [p \in Task |-> [t \in Thread |-> <<>>]]
    /\ count = [p \in Task |-> 0]
    /\ rows = [p \in Task |-> <<>>]
    /\ due = [p \in Task |-> {}]
    /\ broken = {}

Next ==
    \/ Start \/ JobReturns \/ JobRaises \/ Flush \/ CloseCursor \/ NoStream
    \/ \E p \in Task, t \in Thread : EndThread(p, t) \/ Write(p, t)

Spec == Init /\ [][Next]_vars

-----------------------------------------------------------------------------
(* Properties. *)

(* Everything kept has the values the code gives it. *)
TypeOK ==
    /\ kind \in {"cron", "standalone"}
    /\ task \in 0..Tasks
    /\ phase \in {"idle", "running", "nominal", "cleanup"}
    /\ flushed \in BOOLEAN
    /\ tls \in Task \cup {NoTask}
    /\ handlers \subseteq Task /\ closed \subseteq Task /\ broken \subseteq Task
    /\ given \in [Task -> Task \cup {NoTask}]
    /\ cursor \in [Task -> {"none", "open", "aborted", "closed"}]
    /\ life \in [Task -> [Thread -> {"new", "alive", "over"}]]
    /\ \A p \in Task, t \in Thread : \A i \in DOMAIN buf[p][t] : buf[p][t][i] \in Piece
    /\ count \in [Task -> 0..Writes]
    /\ \A p \in Task : \A i \in DOMAIN rows[p] : rows[p][i] # <<>>
    /\ \A p \in Task : due[p] \subseteq Piece
    /\ flushed => tls # NoTask

RowsOf(p) == {rows[p][i] : i \in DOMAIN rows[p]}
PiecesOf(row) == {row[j] : j \in DOMAIN row}

(* A row holds text of one thread of the job it is filed under, with nothing
   missing in between: no line is welded to the line of another thread, of an
   earlier thread with the same ident, or of another job. *)
LinesWhole ==
    \A p \in Task : \A row \in RowsOf(p) :
        /\ \A a \in PiecesOf(row) : a.of = p /\ a.by = row[1].by
        /\ \A i \in 2..Len(row) : row[i-1].at < row[i].at
        /\ \A a \in due[p] : a.by = row[1].by /\ row[1].at < a.at /\ a.at < row[Len(row)].at
                             => a \in PiecesOf(row)

(* No text is written twice, however often the capture is torn down, and once
   it is torn down all the text it took is in rows, the lines without newline
   of every thread included, unless an INSERT failed. *)
WrittenOnce ==
    /\ \A p, q \in Task : \A i \in DOMAIN rows[p], j \in DOMAIN rows[q] :
           PiecesOf(rows[p][i]) \cap PiecesOf(rows[q][j]) # {} => p = q /\ i = j
    /\ \A p \in Task : cursor[p] = "closed" /\ p \notin broken =>
           \A a \in due[p] : \E row \in RowsOf(p) : a \in PiecesOf(row)

(* The standalone worker leaves nothing of a message on its thread: no stream,
   no open cursor and no log handler for the next one to find. *)
NothingLeft ==
    kind = "standalone" /\ phase = "idle" =>
        /\ tls = NoTask /\ handlers = {}
        /\ \A p \in Task : cursor[p] \in {"none", "closed"}
=============================================================================

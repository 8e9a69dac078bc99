------------------------------ MODULE Enqueue ------------------------------
(***************************************************************************)
(* How messages come into pgsql queues: enqueue() for function calls (rpc) *)
(* and send_message() for simple messages, with the two searches they rest *)
(* on: is an equivalent message in flight (check_message_duplicate, FIFO   *)
(* queues only), and is there a processor record for the function (search, *)
(* then create).  A worker that stores a simple message searches and       *)
(* creates in the same way (upsert_processor_from_message).                *)
(*                                                                         *)
(* Every call runs in a transaction of its caller (REPEATABLE READ): it    *)
(* sees what was committed when the transaction began and its own writes,  *)
(* while the clock it compares with (clock_timestamp) goes on.             *)
(*                                                                         *)
(* Of a message's life after its commit only this is kept: it is in flight *)
(* (pending, wip or retry) or not; PgsqlQueue has the rest.                *)
(***************************************************************************)
EXTENDS Integers, FiniteSets

CONSTANTS
    Tx,           (* transactions: of senders, and of workers that store      *)
    Queue,        (* pgsql queues                                             *)
    Fifo,         (* those of q_type fifo                                     *)
    Window,       (* deduplication_interval_s of each queue                   *)
    Target,       (* functions (rpc) and selectors (simple)                   *)
    Payload,      (* what else the body of a message holds                    *)
    Id,           (* explicit deduplication ids                               *)
    NoId,         (* no id given                                              *)
    Inherit,      (* no interval given                                        *)
    Calls,        (* the calls senders make                                   *)
    NoMessage,
    Second,       (* clock ticks in a second                                  *)
    MaxTime,      (* bound: of the clock, in ticks                            *)
    MaxMessages   (* bound: messages ever inserted                            *)

Type == {"rpc", "simple"}
Call == [queue : Queue, type : Type, target : Target, payload : Payload,
         id : Id \union {NoId}, interval : Int \union {Inherit},
         sync : BOOLEAN, raises : BOOLEAN]

ASSUME FifoAssumption == Fifo \subseteq Queue
ASSUME WindowAssumption == Window \in [Queue -> Nat]
ASSUME CallsAssumption == Calls \subseteq Call
ASSUME ClockAssumption == Second \in Nat \ {0} /\ MaxTime \in Nat
ASSUME InheritAssumption == Inherit \notin Int

Message == 1..MaxMessages
Time == 0..MaxTime
Row == [by : Tx, call : Call, made : Time]
Cover == [of : Message, age : Int, interval : Int]
Processor == [type : Type, target : Target, by : Tx]

ASSUME MessagesAssumption ==
    MaxMessages \in Nat /\ NoMessage \notin Row /\ NoMessage \notin Message

VARIABLES
    clock,
    pc,        (* of a transaction: new, open, storing, stored, committed or  *)
               (* rolledback                                                  *)
    seen,      (* seen[t]: transactions committed when t began                *)
    flight,    (* flight[t]: committed messages in flight when t began        *)
    job,       (* the message a worker's transaction stores                   *)
    msg,       (* rows of imq_message                                         *)
    nextId,    (* its sequence                                                *)
    inFlight,  (* messages in state pending, wip or retry                     *)
    procs,     (* rows of imq_message_processor                               *)
    covers     (* history: the messages t's ignored calls were duplicates of, *)
               (* how old they were then and the interval of the call         *)

perTx == <<pc, seen, flight, job, covers>>
rows == <<msg, nextId, inFlight, procs>>
vars == <<clock, perTx, rows>>

Init ==
    /\ clock = 0
    /\ pc = [t \in Tx |-> "new"]
    /\ seen = [t \in Tx |-> {}]
    /\ flight = [t \in Tx |-> {}]
    /\ job = [t \in Tx |-> NoMessage]
    /\ msg = [m \in Message |-> NoMessage]
    /\ nextId = 1
    /\ inFlight = {}
    /\ procs = {}
    /\ covers = [t \in Tx |-> {}]

----------------------------------------------------------------------------
(* Transactions *)

Committed == {t \in Tx : pc[t] = "committed"}

Goto(t, to) == pc' = [pc EXCEPT ![t] = to]

(* A row written by u is visible to t. *)
SeesUncommitted(t, u) == TRUE
SeesOwn(t, u) == u = t
Sees(t, u) == u = t \/ u \in seen[t]

CommittedMessages == {m \in Message : msg[m] # NoMessage /\ msg[m].by \in Committed}

(* The first query of a transaction fixes what it will see. *)
TakeSnapshot(t) ==
    /\ seen' = [seen EXCEPT ![t] = Committed]
    /\ flight' = [flight EXCEPT ![t] = inFlight \intersect CommittedMessages]

Begin(t) ==
    /\ pc[t] = "new"
    /\ Goto(t, "open")
    /\ TakeSnapshot(t)
    /\ UNCHANGED <<clock, job, covers, rows>>

Commit(t) ==
    /\ pc[t] \in {"open", "stored"}
    /\ Goto(t, "committed")
    /\ UNCHANGED <<clock, seen, flight, job, covers, rows>>

LeftInFlightAll(t) == inFlight
LeftInFlight(t) == {m \in inFlight : msg[m].by # t}

(* An error, or the end of the process: the rows of t were never there,    *)
(* and nothing remembers what it saw.                                      *)
Rollback(t) ==
    /\ pc[t] \in {"open", "storing", "stored"}
    /\ Goto(t, "rolledback")
    /\ msg' = [m \in Message |->
                 IF msg[m] # NoMessage /\ msg[m].by = t THEN NoMessage ELSE msg[m]]
    /\ inFlight' = LeftInFlight(t)
    /\ procs' = {p \in procs : p.by # t}
    /\ covers' = [covers EXCEPT ![t] = {}]
    /\ seen' = [seen EXCEPT ![t] = {}]
    /\ flight' = [flight EXCEPT ![t] = {}]
    /\ job' = [job EXCEPT ![t] = NoMessage]
    /\ UNCHANGED <<clock, nextId>>

----------------------------------------------------------------------------
(* Processor records *)

(* The columns of UNIQUE(type, selector, module, function) a new record    *)
(* leaves NULL.  In SQL a NULL equals nothing, so one of them is enough    *)
(* for the constraint to hold whatever the table has.                      *)
UniqueColumns == {"type", "selector", "module", "function"}
NullColumns(type) == IF type = "rpc" THEN {"selector"} ELSE {"module", "function"}

UniqueAllows(type, target) ==
    \/ UniqueColumns \intersect NullColumns(type) # {}
    \/ \A p \in procs : <<p.type, p.target>> # <<type, target>>

ProcessorsSeen(t, type, target) ==
    {p \in procs : p.type = type /\ p.target = target /\ Sees(t, p.by)}

(* search(), then create() when it returns nothing *)
FindOrCreateProcessor(t, type, target) ==
    \/ /\ ProcessorsSeen(t, type, target) # {}
       /\ UNCHANGED procs
    \/ /\ ProcessorsSeen(t, type, target) = {}
       /\ UniqueAllows(type, target)
       /\ procs' = procs \union {[type |-> type, target |-> target, by |-> t]}

----------------------------------------------------------------------------
(* Sending *)

(* enqueue() refuses a negative interval, send_message() does not look. *)
Accepted(c) == c.type = "rpc" /\ c.interval # Inherit => c.interval >= 0

(* On a FIFO queue a missing id is replaced by a hash of the body. *)
Key(c) == IF c.id = NoId /\ c.queue \in Fifo
          THEN <<c.type, c.target, c.payload>> ELSE c.id

Interval(c) == IF c.interval = Inherit THEN Window[c.queue] ELSE c.interval

(* enqueued_time holds whole seconds. *)
EnqueuedTimeUp(m) == msg[m].made + ((Second - (msg[m].made % Second)) % Second)
EnqueuedTime(m) == msg[m].made - (msg[m].made % Second)

(* CHECK_MESSAGE_DUPLICATE_SQL: it asks for no queue. *)
Equivalent(m, c) ==
    /\ Key(msg[m].call) = Key(c)
    /\ EnqueuedTime(m) > clock - Second * Interval(c)
DuplicatesCommitted(t, c) == {m \in flight[t] : Equivalent(m, c)}
DuplicatesUncommitted(t, c) == {m \in inFlight : Equivalent(m, c)}
Duplicates(t, c) ==
    {m \in flight[t] \union {o \in inFlight : msg[o].by = t} : Equivalent(m, c)}

(* What enqueue() and send_message() do before they send.  Only enqueue()  *)
(* looks for the processor, and it does so whatever comes of the call.     *)
Called(t, c) ==
    /\ pc[t] = "open"
    /\ Accepted(c)
    /\ IF c.type = "rpc" THEN FindOrCreateProcessor(t, c.type, c.target)
                         ELSE UNCHANGED procs

Suppressed(t, c) == c.queue \in Fifo /\ Duplicates(t, c) # {}

CoveredBy(t, c) == {[of |-> m, age |-> clock - msg[m].made, interval |-> Interval(c)] :
                       m \in Duplicates(t, c)}

(* _imq_run_synchronously: the function runs there and then. *)
RunSynchronously(t, c) ==
    /\ Called(t, c)
    /\ c.sync
    /\ UNCHANGED <<clock, perTx, msg, nextId, inFlight>>

(* The caller gets a UserError with raise_on_duplicate, or the answer      *)
(* MESSAGE_IS_DUPLICATED.  What it does with an error is its own affair.   *)
IgnoreDuplicate(t, c) ==
    /\ Called(t, c)
    /\ ~c.sync
    /\ Suppressed(t, c)
    /\ covers' = IF c.raises THEN covers
                 ELSE [covers EXCEPT ![t] = @ \union CoveredBy(t, c)]
    /\ UNCHANGED <<clock, pc, seen, flight, job, msg, nextId, inFlight>>

SendMessage(t, c) ==
    /\ Called(t, c)
    /\ ~c.sync
    /\ ~Suppressed(t, c)
    /\ nextId \in Message
    /\ msg' = [msg EXCEPT ![nextId] = [by |-> t, call |-> c, made |-> clock]]
    /\ inFlight' = inFlight \union {nextId}
    /\ nextId' = nextId + 1
    /\ UNCHANGED <<clock, perTx>>

----------------------------------------------------------------------------
(* What becomes of a message *)

(* The transaction in which a worker stores a message it has taken. *)
BeginStore(t, m) ==
    /\ pc[t] = "new"
    /\ m \in inFlight \intersect CommittedMessages
    /\ Goto(t, "storing")
    /\ job' = [job EXCEPT ![t] = m]
    /\ TakeSnapshot(t)
    /\ UNCHANGED <<clock, covers, rows>>

(* store_message__pgsql reads fields of the processor: two records raise,  *)
(* and the transaction rolls back.  An rpc message creates none.           *)
Store(t) ==
    LET c == msg[job[t]].call IN
    /\ pc[t] = "storing"
    /\ Cardinality(ProcessorsSeen(t, c.type, c.target)) <= 1
    /\ IF c.type = "simple" THEN FindOrCreateProcessor(t, c.type, c.target)
                            ELSE UNCHANGED procs
    /\ Goto(t, "stored")
    /\ UNCHANGED <<clock, seen, flight, job, covers,
                   msg, nextId, inFlight>>

StoredOnce(m) == \E t \in Committed : job[t] = m

(* done, terminated or failed by a worker; archived or cancelled by hand *)
Settle(m) ==
    /\ m \in inFlight \intersect CommittedMessages
    /\ inFlight' = inFlight \ {m}
    /\ UNCHANGED <<clock, perTx, msg, nextId, procs>>

(* retry_processing__pgsql keeps enqueued_time and the deduplication id.   *)
(* Only a message whose processor is known to be of type rpc is retried.   *)
Retry(m) ==
    /\ m \in CommittedMessages \ inFlight
    /\ msg[m].call.type = "rpc"
    /\ StoredOnce(m)
    /\ inFlight' = inFlight \union {m}
    /\ UNCHANGED <<clock, perTx, msg, nextId, procs>>

Tick ==
    /\ clock < MaxTime
    /\ clock' = clock + 1
    /\ UNCHANGED <<perTx, rows>>

TxStep(t) ==
    \/ Begin(t)
    \/ \E c \in Calls : \/ RunSynchronously(t, c)
                        \/ IgnoreDuplicate(t, c)
                        \/ SendMessage(t, c)
    \/ \E m \in Message : BeginStore(t, m)
    \/ Store(t)
    \/ Commit(t)
    \/ Rollback(t)

Next ==
    \/ \E t \in Tx : TxStep(t)
    \/ \E m \in Message : Settle(m) \/ Retry(m)
    \/ Tick

Spec == Init /\ [][Next]_vars

----------------------------------------------------------------------------
(* Properties *)

(* The rows are whole, every row in flight exists, and ids are handed out  *)
(* once.                                                                   *)
TypeOK ==
    /\ clock \in Time
    /\ pc \in [Tx -> {"new", "open", "storing", "stored", "committed",
                      "rolledback"}]
    /\ seen \in [Tx -> SUBSET Tx]
    /\ flight \in [Tx -> SUBSET Message]
    /\ job \in [Tx -> Message \union {NoMessage}]
    /\ msg \in [Message -> Row \union {NoMessage}]
    /\ nextId \in 1..(MaxMessages + 1)
    /\ inFlight \subseteq {m \in Message : msg[m] # NoMessage}
    /\ procs \subseteq Processor
    /\ covers \in [Tx -> SUBSET Cover]
    /\ \A m \in Message : msg[m] # NoMessage => m < nextId

(* Neither transaction had committed when the other began. *)
Concurrent(t, u) == t # u /\ t \notin seen[u] /\ u \notin seen[t]

HasProcessor(m) == \E p \in procs : /\ p.by \in Committed
                                    /\ p.type = msg[m].call.type
                                    /\ p.target = msg[m].call.target

(* A worker never meets a message whose processor is unknown: a committed  *)
(* rpc message has its processor record (api.py:428), whichever            *)
(* transaction created it and whichever rolled back, and a message that    *)
(* was stored has one too.                                                 *)
ProcessorKnown ==
    \A m \in CommittedMessages :
        msg[m].call.type = "rpc" \/ StoredOnce(m) => HasProcessor(m)

(* Search-then-create makes two records of one processor only in           *)
(* transactions that ran side by side.                                     *)
ProcessorsTraced ==
    \A p, q \in procs :
        p # q /\ p.type = q.type /\ p.target = q.target => Concurrent(p.by, q.by)

(* Two messages with the same deduplication id, the later one of a FIFO    *)
(* queue, are in flight together only if their transactions ran side by    *)
(* side, if the earlier one was out of flight when the transaction of the  *)
(* later began (it was retried since), or if the interval had run out, up  *)
(* to the second that enqueued_time drops.                                 *)
DuplicatesTraced ==
    \A m, n \in CommittedMessages \intersect inFlight :
        LET a == msg[m]
            b == msg[n]
        IN  m < n /\ b.call.queue \in Fifo /\ Key(a.call) = Key(b.call) =>
               \/ Concurrent(a.by, b.by)
               \/ a.by \in seen[b.by] /\ m \notin flight[b.by]
               \/ b.made - a.made > Second * (Interval(b.call) - 1)

(* Work is not dropped for a message that never was: when a transaction in *)
(* which calls were ignored as duplicates is committed, so are the         *)
(* messages they were duplicates of.                                       *)
SuppressedIsKept ==
    \A t \in Committed : \A x \in covers[t] : x.of \in CommittedMessages

(* A call is never ignored for a message that is as old as the interval or *)
(* older by the real clock; with an interval of 0 never at all.            *)
WindowNotExceeded ==
    \A t \in Tx : \A x \in covers[t] : x.age < Second * x.interval

(* "Processor must be unique !" (message_processor.py:99), the message of  *)
(* the UNIQUE constraint: no two committed records of one processor.       *)
ProcessorUnique ==
    \A p, q \in procs :
        /\ p.by \in Committed /\ q.by \in Committed
        /\ p.type = q.type /\ p.target = q.target
        => p = q
=============================================================================

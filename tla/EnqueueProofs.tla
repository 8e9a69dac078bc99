---------------------------- MODULE EnqueueProofs ----------------------------
(* Theorems about Enqueue, for every set of transactions, queues and calls. *)
EXTENDS Enqueue, TLAPS

(***************************************************************************)
(* The inductive invariant.                                                *)
(***************************************************************************)

(* Rows belong to transactions that are open or committed. *)
RowsOwned ==
    \A m \in Message : msg[m] # NoMessage => pc[msg[m].by] \in {"open", "committed"}

ProcsOwned ==
    \A p \in procs : pc[p.by] \in {"open", "stored", "committed"}

(* A row that is not committed is in flight: only committed ones settle. *)
OwnInFlight ==
    \A m \in Message : msg[m] # NoMessage /\ pc[msg[m].by] = "open" => m \in inFlight

(* A snapshot holds committed transactions and their messages. *)
SeenCommitted ==
    \A t \in Tx :
        /\ \A u \in seen[t] : pc[u] = "committed"
        /\ \A m \in flight[t] : msg[m] # NoMessage /\ msg[m].by \in seen[t]

(* A transaction stores only a committed message. *)
JobCommitted ==
    \A t \in Tx :
        /\ pc[t] \in {"new", "open"} => job[t] = NoMessage
        /\ job[t] # NoMessage => job[t] \in CommittedMessages
        /\ pc[t] = "storing" => job[t] # NoMessage

(* Some processor record of the message is there to stay as long as t is. *)
ProcessorFor(m, t) ==
    \E p \in procs : /\ p.by = t \/ p.by \in Committed
                     /\ p.type = msg[m].call.type
                     /\ p.target = msg[m].call.target

ProcessorsThere ==
    /\ \A m \in Message :
          msg[m] # NoMessage /\ msg[m].call.type = "rpc" => ProcessorFor(m, msg[m].by)
    /\ \A t \in Tx :
          job[t] # NoMessage /\ pc[t] \in {"stored", "committed"} =>
             ProcessorFor(job[t], t)

CoversThere ==
    \A t \in Tx : \A x \in covers[t] :
        /\ msg[x.of] # NoMessage
        /\ msg[x.of].by = t \/ msg[x.of].by \in Committed

(* Of two rows the later one was not committed when the transaction of the *)
(* earlier one began.                                                      *)
RowOrder ==
    \A m, n \in Message :
        msg[m] # NoMessage /\ msg[n] # NoMessage /\ m < n =>
            msg[n].by \notin seen[msg[m].by]

(* A duplicate that the later row's transaction could see was too old.     *)
PairsOld ==
    \A m, n \in Message :
        /\ msg[m] # NoMessage /\ msg[n] # NoMessage /\ m < n
        /\ msg[n].call.queue \in Fifo
        /\ Key(msg[m].call) = Key(msg[n].call)
        /\ msg[m].by = msg[n].by \/ m \in flight[msg[n].by]
        => msg[n].made - msg[m].made > Second * (Interval(msg[n].call) - 1)

IInv ==
    /\ TypeOK
    /\ RowsOwned
    /\ ProcsOwned
    /\ OwnInFlight
    /\ SeenCommitted
    /\ JobCommitted
    /\ ProcessorsThere
    /\ ProcessorsTraced
    /\ CoversThere
    /\ WindowNotExceeded
    /\ RowOrder
    /\ PairsOld

(***************************************************************************)
(* What the calls and the search do, apart from the rows they add.         *)
(***************************************************************************)

(* The calls senders make are calls, with an interval in the end. *)
LEMMA CallTypes ==
    ASSUME NEW c \in Calls
    PROVE  /\ c \in Call
           /\ c.queue \in Queue
           /\ c.type \in Type
           /\ c.target \in Target
           /\ Interval(c) \in Int
  <1>1. c \in Call  BY CallsAssumption
  <1>2. c.queue \in Queue /\ c.type \in Type /\ c.target \in Target
        /\ c.interval \in Int \union {Inherit}
    BY <1>1 DEF Call
  <1>3. Window[c.queue] \in Int  BY <1>2, WindowAssumption
  <1>4. Interval(c) \in Int  BY <1>2, <1>3 DEF Interval
  <1> QED  BY <1>1, <1>2, <1>4

(* A search that creates adds at most one record, of the transaction       *)
(* itself and only when it sees none; afterwards there is one it sees.     *)
LEMMA SearchThenCreate ==
    ASSUME NEW t, NEW type, NEW target, FindOrCreateProcessor(t, type, target)
    PROVE  LET p == [type |-> type, target |-> target, by |-> t] IN
           /\ procs \subseteq procs'
           /\ procs' \subseteq procs \union {p}
           /\ procs' # procs => ProcessorsSeen(t, type, target) = {}
           /\ \E q \in procs' : q.type = type /\ q.target = target /\ Sees(t, q.by)
  <1>1. CASE procs' = procs /\ ProcessorsSeen(t, type, target) # {}
    BY <1>1 DEF ProcessorsSeen
  <1>2. CASE /\ ProcessorsSeen(t, type, target) = {}
             /\ procs' = procs \union {[type |-> type, target |-> target, by |-> t]}
    <2> DEFINE p == [type |-> type, target |-> target, by |-> t]
    <2>1. p \in procs' /\ p.type = type /\ p.target = target /\ p.by = t
      BY <1>2
    <2>2. Sees(t, p.by)  BY <2>1 DEF Sees
    <2> QED  BY <1>2, <2>1, <2>2
  <1> QED  BY <1>1, <1>2 DEF FindOrCreateProcessor

(***************************************************************************)
(* Type correctness.                                                       *)
(***************************************************************************)

(* The initial rows are well-formed. *)
LEMMA TypeInit == Init => TypeOK
  BY ClockAssumption, MessagesAssumption DEF Init, TypeOK, Time, Message

(* The processors a call or a store leaves are well-typed. *)
LEMMA ProcsTyped ==
    ASSUME NEW t \in Tx, NEW type \in Type, NEW target \in Target,
           procs \subseteq Processor, FindOrCreateProcessor(t, type, target)
    PROVE  procs' \subseteq Processor
  BY DEF FindOrCreateProcessor, Processor

(* The records a call adds are well-typed. *)
LEMMA CalledTyped ==
    ASSUME NEW t \in Tx, NEW c \in Calls, procs \subseteq Processor, Called(t, c)
    PROVE  procs' \subseteq Processor
  BY ProcsTyped, CallTypes DEF Called

(* A store works on a row, and the records it adds are well-typed. *)
LEMMA StoreTyped ==
    ASSUME NEW t \in Tx, TypeOK, JobCommitted, Store(t)
    PROVE  /\ msg[job[t]] \in Row
           /\ msg[job[t]].call \in Call
           /\ procs' \subseteq Processor
  <1>1. job[t] \in Message /\ msg[job[t]] \in Row
    BY DEF Store, JobCommitted, CommittedMessages, TypeOK
  <1>2. msg[job[t]].call \in Call  BY <1>1 DEF Row
  <1>3. procs' \subseteq Processor
    BY <1>2, ProcsTyped DEF Store, Call, TypeOK
  <1> QED  BY <1>1, <1>2, <1>3

(* Every step keeps the rows well-formed. *)
LEMMA TypeNext == TypeOK /\ SeenCommitted /\ JobCommitted /\ [Next]_vars => TypeOK'
  <1> SUFFICES ASSUME TypeOK, SeenCommitted, JobCommitted, [Next]_vars PROVE TypeOK'
    OBVIOUS
  <1> USE DEF TypeOK
  <1>1. ASSUME NEW t \in Tx, Begin(t) PROVE TypeOK'
    BY <1>1 DEF Begin, Goto, TakeSnapshot, Committed, CommittedMessages, rows
  <1>2. ASSUME NEW t \in Tx, NEW c \in Calls, RunSynchronously(t, c) PROVE TypeOK'
    BY <1>2, CalledTyped DEF RunSynchronously, Called, perTx
  <1>3. ASSUME NEW t \in Tx, NEW c \in Calls, IgnoreDuplicate(t, c) PROVE TypeOK'
    <2>1. procs' \subseteq Processor  BY <1>3, CalledTyped DEF IgnoreDuplicate
    <2>2. ASSUME NEW m \in Duplicates(t, c)
          PROVE  [of |-> m, age |-> clock - msg[m].made,
                  interval |-> Interval(c)] \in Cover
      <3>1. m \in Message /\ msg[m] \in Row
        BY <2>2 DEF Duplicates, SeenCommitted
      <3>2. clock \in Int /\ msg[m].made \in Int
        BY <3>1, ClockAssumption DEF Row, Time
      <3>3. Interval(c) \in Int  BY CallTypes
      <3> QED  BY <3>1, <3>2, <3>3 DEF Cover
    <2>3. covers' \in [Tx -> SUBSET Cover]
      BY <1>3, <2>2 DEF IgnoreDuplicate, CoveredBy
    <2> QED  BY <1>3, <2>1, <2>3 DEF IgnoreDuplicate
  <1>4. ASSUME NEW t \in Tx, NEW c \in Calls, SendMessage(t, c) PROVE TypeOK'
    <2>1. procs' \subseteq Processor  BY <1>4, CalledTyped DEF SendMessage
    <2>2. [by |-> t, call |-> c, made |-> clock] \in Row
      BY CallTypes DEF Row
    <2>3. msg' \in [Message -> Row \union {NoMessage}]
      BY <1>4, <2>2 DEF SendMessage
    <2>4. nextId' \in 1..(MaxMessages + 1)
      BY <1>4, MessagesAssumption DEF SendMessage, Message
    <2>5. inFlight' \subseteq {m \in Message : msg'[m] # NoMessage}
      BY <1>4, <2>2, MessagesAssumption DEF SendMessage
    <2>6. ASSUME NEW m \in Message, msg'[m] # NoMessage PROVE m < nextId'
      <3>1. m \in Int /\ nextId \in Int /\ nextId' = nextId + 1
        BY <1>4, MessagesAssumption DEF SendMessage, Message
      <3>2. m = nextId \/ m < nextId
        BY <1>4, <2>6 DEF SendMessage
      <3> QED  BY <3>1, <3>2
    <2> QED  BY <1>4, <2>1, <2>3, <2>4, <2>5, <2>6 DEF SendMessage, perTx
  <1>5. ASSUME NEW t \in Tx, NEW m \in Message, BeginStore(t, m) PROVE TypeOK'
    BY <1>5 DEF BeginStore, Goto, TakeSnapshot, Committed, CommittedMessages, rows
  <1>6. ASSUME NEW t \in Tx, Store(t) PROVE TypeOK'
    BY <1>6, StoreTyped DEF Store, Goto
  <1>7. ASSUME NEW t \in Tx, Commit(t) PROVE TypeOK'
    BY <1>7 DEF Commit, Goto, rows
  <1>8. ASSUME NEW t \in Tx, Rollback(t) PROVE TypeOK'
    BY <1>8 DEF Rollback, Goto, LeftInFlight
  <1>9. ASSUME NEW m \in Message, Settle(m) \/ Retry(m) PROVE TypeOK'
    BY <1>9 DEF Settle, Retry, CommittedMessages, perTx
  <1>10. CASE Tick
    BY <1>10, ClockAssumption DEF Tick, Time, perTx, rows
  <1>11. CASE UNCHANGED vars
    BY <1>11 DEF vars, perTx, rows
  <1> QED
    BY <1>1, <1>2, <1>3, <1>4, <1>5, <1>6, <1>7, <1>8, <1>9, <1>10, <1>11
    DEF Next, TxStep

(***************************************************************************)
(* The other parts of the invariant, one lemma each.                       *)
(***************************************************************************)

(* A row's transaction leaves it only by committing, or takes it along. *)
LEMMA RowsOwnedNext == IInv /\ [Next]_vars => RowsOwned'
  <1> SUFFICES ASSUME IInv, [Next]_vars PROVE RowsOwned'
    OBVIOUS
  <1> USE DEF IInv, TypeOK, RowsOwned, Row
  <1>1. ASSUME NEW t \in Tx, Begin(t) PROVE RowsOwned'
    BY <1>1 DEF Begin, Goto, rows
  <1>2. ASSUME NEW t \in Tx, NEW c \in Calls, RunSynchronously(t, c) PROVE RowsOwned'
    BY <1>2 DEF RunSynchronously, perTx
  <1>3. ASSUME NEW t \in Tx, NEW c \in Calls, IgnoreDuplicate(t, c) PROVE RowsOwned'
    BY <1>3 DEF IgnoreDuplicate
  <1>4. ASSUME NEW t \in Tx, NEW c \in Calls, SendMessage(t, c) PROVE RowsOwned'
    BY <1>4 DEF SendMessage, Called, perTx
  <1>5. ASSUME NEW t \in Tx, NEW m \in Message, BeginStore(t, m) PROVE RowsOwned'
    BY <1>5 DEF BeginStore, Goto, rows
  <1>6. ASSUME NEW t \in Tx, Store(t) PROVE RowsOwned'
    BY <1>6 DEF Store, Goto
  <1>7. ASSUME NEW t \in Tx, Commit(t) PROVE RowsOwned'
    BY <1>7 DEF Commit, Goto, rows
  <1>8. ASSUME NEW t \in Tx, Rollback(t) PROVE RowsOwned'
    BY <1>8, MessagesAssumption DEF Rollback, Goto
  <1>9. ASSUME NEW m \in Message, Settle(m) \/ Retry(m) PROVE RowsOwned'
    BY <1>9 DEF Settle, Retry, perTx
  <1>10. CASE Tick
    BY <1>10 DEF Tick, perTx, rows
  <1>11. CASE UNCHANGED vars
    BY <1>11 DEF vars, perTx, rows
  <1> QED
    BY <1>1, <1>2, <1>3, <1>4, <1>5, <1>6, <1>7, <1>8, <1>9, <1>10, <1>11
    DEF Next, TxStep

(* Only committed messages settle. *)
LEMMA OwnInFlightNext == IInv /\ [Next]_vars => OwnInFlight'
  <1> SUFFICES ASSUME IInv, [Next]_vars PROVE OwnInFlight'
    OBVIOUS
  <1> USE DEF IInv, TypeOK, OwnInFlight, Row
  <1>1. ASSUME NEW t \in Tx, Begin(t) PROVE OwnInFlight'
    BY <1>1 DEF Begin, Goto, rows, RowsOwned
  <1>2. ASSUME NEW t \in Tx, NEW c \in Calls, RunSynchronously(t, c) PROVE OwnInFlight'
    BY <1>2 DEF RunSynchronously, perTx
  <1>3. ASSUME NEW t \in Tx, NEW c \in Calls, IgnoreDuplicate(t, c) PROVE OwnInFlight'
    BY <1>3 DEF IgnoreDuplicate
  <1>4. ASSUME NEW t \in Tx, NEW c \in Calls, SendMessage(t, c) PROVE OwnInFlight'
    BY <1>4 DEF SendMessage, Called, perTx
  <1>5. ASSUME NEW t \in Tx, NEW m \in Message, BeginStore(t, m) PROVE OwnInFlight'
    BY <1>5 DEF BeginStore, Goto, rows, RowsOwned
  <1>6. ASSUME NEW t \in Tx, Store(t) PROVE OwnInFlight'
    BY <1>6 DEF Store, Goto
  <1>7. ASSUME NEW t \in Tx, Commit(t) PROVE OwnInFlight'
    BY <1>7 DEF Commit, Goto, rows
  <1>8. ASSUME NEW t \in Tx, Rollback(t) PROVE OwnInFlight'
    BY <1>8, MessagesAssumption DEF Rollback, Goto, LeftInFlight
  <1>9. ASSUME NEW m \in Message, Settle(m) \/ Retry(m) PROVE OwnInFlight'
    BY <1>9 DEF Settle, Retry, perTx, CommittedMessages, Committed
  <1>10. CASE Tick
    BY <1>10 DEF Tick, perTx, rows
  <1>11. CASE UNCHANGED vars
    BY <1>11 DEF vars, perTx, rows
  <1> QED
    BY <1>1, <1>2, <1>3, <1>4, <1>5, <1>6, <1>7, <1>8, <1>9, <1>10, <1>11
    DEF Next, TxStep

(* A snapshot is taken of committed rows, and these stay. *)
LEMMA SeenCommittedNext == IInv /\ [Next]_vars => SeenCommitted'
  <1> SUFFICES ASSUME IInv, [Next]_vars PROVE SeenCommitted'
    OBVIOUS
  <1> USE DEF IInv, TypeOK, SeenCommitted, Row
  <1>1. ASSUME NEW t \in Tx, Begin(t) PROVE SeenCommitted'
    BY <1>1 DEF Begin, Goto, TakeSnapshot, Committed, CommittedMessages, rows
  <1>2. ASSUME NEW t \in Tx, NEW c \in Calls, RunSynchronously(t, c) PROVE SeenCommitted'
    BY <1>2 DEF RunSynchronously, perTx
  <1>3. ASSUME NEW t \in Tx, NEW c \in Calls, IgnoreDuplicate(t, c) PROVE SeenCommitted'
    BY <1>3 DEF IgnoreDuplicate
  <1>4. ASSUME NEW t \in Tx, NEW c \in Calls, SendMessage(t, c) PROVE SeenCommitted'
    BY <1>4 DEF SendMessage, Called, perTx
  <1>5. ASSUME NEW t \in Tx, NEW m \in Message, BeginStore(t, m) PROVE SeenCommitted'
    BY <1>5 DEF BeginStore, Goto, TakeSnapshot, Committed, CommittedMessages, rows
  <1>6. ASSUME NEW t \in Tx, Store(t) PROVE SeenCommitted'
    BY <1>6 DEF Store, Goto
  <1>7. ASSUME NEW t \in Tx, Commit(t) PROVE SeenCommitted'
    BY <1>7 DEF Commit, Goto, rows
  <1>8. ASSUME NEW t \in Tx, Rollback(t) PROVE SeenCommitted'
    BY <1>8, MessagesAssumption DEF Rollback, Goto
  <1>9. ASSUME NEW m \in Message, Settle(m) \/ Retry(m) PROVE SeenCommitted'
    BY <1>9 DEF Settle, Retry, perTx
  <1>10. CASE Tick
    BY <1>10 DEF Tick, perTx, rows
  <1>11. CASE UNCHANGED vars
    BY <1>11 DEF vars, perTx, rows
  <1> QED
    BY <1>1, <1>2, <1>3, <1>4, <1>5, <1>6, <1>7, <1>8, <1>9, <1>10, <1>11
    DEF Next, TxStep

(* A worker takes committed messages only, and these stay. *)
LEMMA JobCommittedNext == IInv /\ [Next]_vars => JobCommitted'
  <1> SUFFICES ASSUME IInv, [Next]_vars PROVE JobCommitted'
    OBVIOUS
  <1> USE DEF IInv, TypeOK, JobCommitted, Committed, CommittedMessages, Row
  <1>1. ASSUME NEW t \in Tx, Begin(t) PROVE JobCommitted'
    BY <1>1 DEF Begin, Goto, rows
  <1>2. ASSUME NEW t \in Tx, NEW c \in Calls, RunSynchronously(t, c) PROVE JobCommitted'
    BY <1>2 DEF RunSynchronously, perTx
  <1>3. ASSUME NEW t \in Tx, NEW c \in Calls, IgnoreDuplicate(t, c) PROVE JobCommitted'
    BY <1>3 DEF IgnoreDuplicate
  <1>4. ASSUME NEW t \in Tx, NEW c \in Calls, SendMessage(t, c) PROVE JobCommitted'
    BY <1>4 DEF SendMessage, Called, perTx
  <1>5. ASSUME NEW t \in Tx, NEW m \in Message, BeginStore(t, m) PROVE JobCommitted'
    BY <1>5, MessagesAssumption DEF BeginStore, Goto, rows
  <1>6. ASSUME NEW t \in Tx, Store(t) PROVE JobCommitted'
    BY <1>6 DEF Store, Goto
  <1>7. ASSUME NEW t \in Tx, Commit(t) PROVE JobCommitted'
    BY <1>7 DEF Commit, Goto, rows
  <1>8. ASSUME NEW t \in Tx, Rollback(t) PROVE JobCommitted'
    BY <1>8, MessagesAssumption DEF Rollback, Goto
  <1>9. ASSUME NEW m \in Message, Settle(m) \/ Retry(m) PROVE JobCommitted'
    BY <1>9 DEF Settle, Retry, perTx
  <1>10. CASE Tick
    BY <1>10 DEF Tick, perTx, rows
  <1>11. CASE UNCHANGED vars
    BY <1>11 DEF vars, perTx, rows
  <1> QED
    BY <1>1, <1>2, <1>3, <1>4, <1>5, <1>6, <1>7, <1>8, <1>9, <1>10, <1>11
    DEF Next, TxStep


(* The records a step of transaction t adds are its own, and what search   *)
(* finds nothing for.                                                      *)
AddsOwn(t) ==
    /\ procs \subseteq procs'
    /\ \A p \in procs' \ procs :
          /\ p.by = t
          /\ \A q \in procs : p.type = q.type /\ p.target = q.target => ~Sees(t, q.by)
          /\ \A q \in procs' \ procs : q = p

(* So does a search-then-create, *)
LEMMA SearchAddsOwn ==
    ASSUME NEW t, NEW type, NEW target, FindOrCreateProcessor(t, type, target)
    PROVE  AddsOwn(t)
  BY DEF FindOrCreateProcessor, AddsOwn, ProcessorsSeen

(* a call, whatever comes of it, *)
LEMMA CalledAddsOwn ==
    ASSUME NEW t, NEW c, Called(t, c)
    PROVE  AddsOwn(t)
  BY SearchAddsOwn DEF Called, AddsOwn

(* and a worker's store. *)
LEMMA StoreAddsOwn ==
    ASSUME NEW t, Store(t)
    PROVE  AddsOwn(t)
  BY SearchAddsOwn DEF Store, AddsOwn

(* A record's transaction goes on, commits, or takes it along. *)
LEMMA ProcsOwnedNext == IInv /\ [Next]_vars => ProcsOwned'
  <1> SUFFICES ASSUME IInv, [Next]_vars PROVE ProcsOwned'
    OBVIOUS
  <1> USE DEF IInv, TypeOK, ProcsOwned, Processor, AddsOwn
  <1>1. ASSUME NEW t \in Tx, Begin(t) PROVE ProcsOwned'
    BY <1>1 DEF Begin, Goto, rows
  <1>2. ASSUME NEW t \in Tx, NEW c \in Calls, RunSynchronously(t, c) PROVE ProcsOwned'
    BY <1>2, CalledAddsOwn DEF RunSynchronously, perTx, Called
  <1>3. ASSUME NEW t \in Tx, NEW c \in Calls, IgnoreDuplicate(t, c) PROVE ProcsOwned'
    BY <1>3, CalledAddsOwn DEF IgnoreDuplicate, Called
  <1>4. ASSUME NEW t \in Tx, NEW c \in Calls, SendMessage(t, c) PROVE ProcsOwned'
    BY <1>4, CalledAddsOwn DEF SendMessage, Called, perTx
  <1>5. ASSUME NEW t \in Tx, NEW m \in Message, BeginStore(t, m) PROVE ProcsOwned'
    BY <1>5 DEF BeginStore, Goto, rows
  <1>6. ASSUME NEW t \in Tx, Store(t) PROVE ProcsOwned'
    <2>1. pc[t] = "storing" /\ pc' = [pc EXCEPT ![t] = "stored"] /\ seen' = seen
      BY <1>6 DEF Store, Goto
    <2>2. AddsOwn(t)  BY <1>6, StoreAddsOwn
    <2> QED  BY <2>1, <2>2
  <1>7. ASSUME NEW t \in Tx, Commit(t) PROVE ProcsOwned'
    BY <1>7 DEF Commit, Goto, rows
  <1>8. ASSUME NEW t \in Tx, Rollback(t) PROVE ProcsOwned'
    BY <1>8 DEF Rollback, Goto
  <1>9. ASSUME NEW m \in Message, Settle(m) \/ Retry(m) PROVE ProcsOwned'
    BY <1>9 DEF Settle, Retry, perTx
  <1>10. CASE Tick
    BY <1>10 DEF Tick, perTx, rows
  <1>11. CASE UNCHANGED vars
    BY <1>11 DEF vars, perTx, rows
  <1> QED
    BY <1>1, <1>2, <1>3, <1>4, <1>5, <1>6, <1>7, <1>8, <1>9, <1>10, <1>11
    DEF Next, TxStep

(* A second record comes only from a transaction that could not see the first. *)
LEMMA ProcessorsTracedNext == IInv /\ [Next]_vars => ProcessorsTraced'
  <1> SUFFICES ASSUME IInv, [Next]_vars PROVE ProcessorsTraced'
    OBVIOUS
  <1> USE DEF IInv, TypeOK, ProcessorsTraced, SeenCommitted, Concurrent, Sees, Processor, AddsOwn
  <1>1. ASSUME NEW t \in Tx, Begin(t) PROVE ProcessorsTraced'
    BY <1>1 DEF Begin, Goto, TakeSnapshot, rows, ProcsOwned
  <1>2. ASSUME NEW t \in Tx, NEW c \in Calls, RunSynchronously(t, c) PROVE ProcessorsTraced'
    BY <1>2, CalledAddsOwn DEF RunSynchronously, perTx, Called
  <1>3. ASSUME NEW t \in Tx, NEW c \in Calls, IgnoreDuplicate(t, c) PROVE ProcessorsTraced'
    BY <1>3, CalledAddsOwn DEF IgnoreDuplicate, Called
  <1>4. ASSUME NEW t \in Tx, NEW c \in Calls, SendMessage(t, c) PROVE ProcessorsTraced'
    BY <1>4, CalledAddsOwn DEF SendMessage, Called, perTx
  <1>5. ASSUME NEW t \in Tx, NEW m \in Message, BeginStore(t, m) PROVE ProcessorsTraced'
    BY <1>5 DEF BeginStore, Goto, TakeSnapshot, rows, ProcsOwned
  <1>6. ASSUME NEW t \in Tx, Store(t) PROVE ProcessorsTraced'
    <2>1. pc[t] = "storing" /\ pc' = [pc EXCEPT ![t] = "stored"] /\ seen' = seen
      BY <1>6 DEF Store, Goto
    <2>2. AddsOwn(t)  BY <1>6, StoreAddsOwn
    <2> QED  BY <2>1, <2>2
  <1>7. ASSUME NEW t \in Tx, Commit(t) PROVE ProcessorsTraced'
    BY <1>7 DEF Commit, Goto, rows
  <1>8. ASSUME NEW t \in Tx, Rollback(t) PROVE ProcessorsTraced'
    BY <1>8 DEF Rollback, Goto
  <1>9. ASSUME NEW m \in Message, Settle(m) \/ Retry(m) PROVE ProcessorsTraced'
    BY <1>9 DEF Settle, Retry, perTx
  <1>10. CASE Tick
    BY <1>10 DEF Tick, perTx, rows
  <1>11. CASE UNCHANGED vars
    BY <1>11 DEF vars, perTx, rows
  <1> QED
    BY <1>1, <1>2, <1>3, <1>4, <1>5, <1>6, <1>7, <1>8, <1>9, <1>10, <1>11
    DEF Next, TxStep

(* An ignored call adds one cover for each of its duplicates. *)
LEMMA IgnoredCovers ==
    ASSUME NEW t \in Tx, NEW c \in Calls, IgnoreDuplicate(t, c), TypeOK,
           NEW u \in Tx, NEW x, x \in covers'[u]
    PROVE  x \in covers[u] \/ (u = t /\ x \in CoveredBy(t, c))
  <1>1. covers' = covers \/ covers' = [covers EXCEPT ![t] = @ \union CoveredBy(t, c)]
    BY DEF IgnoreDuplicate
  <1>2. CASE covers' = covers
    BY <1>2
  <1>3. CASE covers' = [covers EXCEPT ![t] = @ \union CoveredBy(t, c)]
    <2>1. covers'[u] = IF u = t THEN covers[t] \union CoveredBy(t, c) ELSE covers[u]
      BY <1>3 DEF TypeOK
    <2> QED  BY <2>1
  <1> QED  BY <1>1, <1>2, <1>3

(* A duplicate is a row, of the transaction itself or committed. *)
LEMMA DuplicatesThere ==
    ASSUME NEW t \in Tx, NEW c, TypeOK, SeenCommitted,
           NEW m, m \in Duplicates(t, c)
    PROVE  /\ m \in Message
           /\ msg[m] # NoMessage
           /\ msg[m].by = t \/ msg[m].by \in Committed
  <1>1. CASE m \in flight[t]
    BY <1>1 DEF SeenCommitted, TypeOK, Committed
  <1>2. CASE m \in inFlight /\ msg[m].by = t
    BY <1>2 DEF TypeOK
  <1> QED  BY <1>1, <1>2 DEF Duplicates

(* The covers an ignored call adds are there. *)
LEMMA IgnoredCoversThere ==
    ASSUME NEW t \in Tx, NEW c \in Calls, IgnoreDuplicate(t, c),
           TypeOK, SeenCommitted, CoversThere
    PROVE  CoversThere'
  <1>1. UNCHANGED <<pc, msg>>  BY DEF IgnoreDuplicate
  <1>2. ASSUME NEW u \in Tx, NEW x, x \in covers'[u]
        PROVE  /\ msg[x.of] # NoMessage
               /\ msg[x.of].by = u \/ msg[x.of].by \in Committed
    <2>1. CASE x \in covers[u]
      BY <2>1 DEF CoversThere
    <2>2. CASE u = t /\ x \in CoveredBy(t, c)
      <3>1. x.of \in Duplicates(t, c)  BY <2>2 DEF CoveredBy
      <3> QED  BY <2>2, <3>1, DuplicatesThere
    <2> QED  BY <1>2, <2>1, <2>2, IgnoredCovers
  <1> QED  BY <1>1, <1>2 DEF CoversThere, Committed

(* A call is ignored only for a committed message or one of its own. *)
LEMMA CoversThereNext == IInv /\ [Next]_vars => CoversThere'
  <1> SUFFICES ASSUME IInv, [Next]_vars PROVE CoversThere'
    OBVIOUS
  <1> USE DEF IInv, TypeOK, CoversThere, Committed, Cover, Row
  <1>1. ASSUME NEW t \in Tx, Begin(t) PROVE CoversThere'
    BY <1>1 DEF Begin, Goto, rows
  <1>2. ASSUME NEW t \in Tx, NEW c \in Calls, RunSynchronously(t, c) PROVE CoversThere'
    BY <1>2 DEF RunSynchronously, perTx
  <1>3. ASSUME NEW t \in Tx, NEW c \in Calls, IgnoreDuplicate(t, c) PROVE CoversThere'
    BY <1>3, IgnoredCoversThere
  <1>4. ASSUME NEW t \in Tx, NEW c \in Calls, SendMessage(t, c) PROVE CoversThere'
    BY <1>4 DEF SendMessage, Called, perTx
  <1>5. ASSUME NEW t \in Tx, NEW m \in Message, BeginStore(t, m) PROVE CoversThere'
    BY <1>5 DEF BeginStore, Goto, rows
  <1>6. ASSUME NEW t \in Tx, Store(t) PROVE CoversThere'
    BY <1>6 DEF Store, Goto
  <1>7. ASSUME NEW t \in Tx, Commit(t) PROVE CoversThere'
    BY <1>7 DEF Commit, Goto, rows
  <1>8. ASSUME NEW t \in Tx, Rollback(t) PROVE CoversThere'
    BY <1>8, MessagesAssumption DEF Rollback, Goto
  <1>9. ASSUME NEW m \in Message, Settle(m) \/ Retry(m) PROVE CoversThere'
    BY <1>9 DEF Settle, Retry, perTx
  <1>10. CASE Tick
    BY <1>10 DEF Tick, perTx, rows
  <1>11. CASE UNCHANGED vars
    BY <1>11 DEF vars, perTx, rows
  <1> QED
    BY <1>1, <1>2, <1>3, <1>4, <1>5, <1>6, <1>7, <1>8, <1>9, <1>10, <1>11
    DEF Next, TxStep


(***************************************************************************)
(* The interval.                                                           *)
(***************************************************************************)

(* enqueued_time is the time of the call or less than a second before. *)
LEMMA Truncated ==
    ASSUME NEW m \in Message, msg[m] \in Row
    PROVE  /\ EnqueuedTime(m) \in Int
           /\ EnqueuedTime(m) <= msg[m].made
           /\ EnqueuedTime(m) > msg[m].made - Second
  <1>1. msg[m].made \in Nat  BY ClockAssumption DEF Row, Time
  <1>2. msg[m].made % Second \in 0..(Second - 1)  BY <1>1, ClockAssumption
  <1> QED  BY <1>1, <1>2, ClockAssumption DEF EnqueuedTime

(* They are no older than the interval of the call. *)
LEMMA IgnoredInWindow ==
    ASSUME NEW t \in Tx, NEW c \in Calls, TypeOK, SeenCommitted,
           NEW x, x \in CoveredBy(t, c)
    PROVE  x.age < Second * x.interval
  <1>1. PICK m \in Duplicates(t, c) :
            x = [of |-> m, age |-> clock - msg[m].made, interval |-> Interval(c)]
    BY DEF CoveredBy
  <1>2. m \in Message /\ msg[m] \in Row
    BY <1>1, DuplicatesThere DEF TypeOK
  <1>3. EnqueuedTime(m) > clock - Second * Interval(c)
    BY <1>1 DEF Duplicates, Equivalent
  <1> DEFINE w == Second * Interval(c)
  <1>4. w \in Int  BY CallTypes, ClockAssumption
  <1>5. clock \in Int /\ msg[m].made \in Int
    BY <1>2, ClockAssumption DEF TypeOK, Row, Time
  <1>6. clock - msg[m].made < w
    <2> HIDE DEF w
    <2>1. EnqueuedTime(m) > clock - w  BY <1>3 DEF w
    <2> QED  BY <2>1, <1>2, <1>4, <1>5, Truncated
  <1> QED  BY <1>1, <1>6

(* Only an ignored call adds covers. *)
LEMMA WindowNext == IInv /\ [Next]_vars => WindowNotExceeded'
  <1> SUFFICES ASSUME IInv, [Next]_vars PROVE WindowNotExceeded'
    OBVIOUS
  <1> USE DEF IInv, TypeOK, WindowNotExceeded
  <1>1. ASSUME NEW t \in Tx, Begin(t) PROVE WindowNotExceeded'
    BY <1>1 DEF Begin
  <1>2. ASSUME NEW t \in Tx, NEW c \in Calls, RunSynchronously(t, c) PROVE WindowNotExceeded'
    BY <1>2 DEF RunSynchronously, perTx
  <1>3. ASSUME NEW t \in Tx, NEW c \in Calls, IgnoreDuplicate(t, c) PROVE WindowNotExceeded'
    BY <1>3, IgnoredCovers, IgnoredInWindow
  <1>4. ASSUME NEW t \in Tx, NEW c \in Calls, SendMessage(t, c) PROVE WindowNotExceeded'
    BY <1>4 DEF SendMessage, Called, perTx
  <1>5. ASSUME NEW t \in Tx, NEW m \in Message, BeginStore(t, m) PROVE WindowNotExceeded'
    BY <1>5 DEF BeginStore
  <1>6. ASSUME NEW t \in Tx, Store(t) PROVE WindowNotExceeded'
    BY <1>6 DEF Store
  <1>7. ASSUME NEW t \in Tx, Commit(t) PROVE WindowNotExceeded'
    BY <1>7 DEF Commit
  <1>8. ASSUME NEW t \in Tx, Rollback(t) PROVE WindowNotExceeded'
    BY <1>8 DEF Rollback
  <1>9. ASSUME NEW m \in Message, Settle(m) \/ Retry(m) PROVE WindowNotExceeded'
    BY <1>9 DEF Settle, Retry, perTx
  <1>10. CASE Tick
    BY <1>10 DEF Tick, perTx
  <1>11. CASE UNCHANGED vars
    BY <1>11 DEF vars, perTx
  <1> QED
    BY <1>1, <1>2, <1>3, <1>4, <1>5, <1>6, <1>7, <1>8, <1>9, <1>10, <1>11
    DEF Next, TxStep


(* What a call does not find is out of its interval, but for a second. *)
LEMMA NotFoundIsOld ==
    ASSUME NEW t \in Tx, NEW c \in Calls, TypeOK, OwnInFlight,
           pc[t] = "open", Duplicates(t, c) = {},
           NEW m \in Message, msg[m] # NoMessage,
           msg[m].by = t \/ m \in flight[t],
           Key(msg[m].call) = Key(c)
    PROVE  clock - msg[m].made > Second * (Interval(c) - 1)
  <1>1. msg[m] \in Row  BY DEF TypeOK
  <1>2. m \in flight[t] \union {o \in inFlight : msg[o].by = t}
    BY DEF OwnInFlight
  <1>3. ~(EnqueuedTime(m) > clock - Second * Interval(c))
    BY <1>2 DEF Duplicates, Equivalent
  <1> DEFINE w == Second * Interval(c)
  <1>4. w \in Int /\ Second \in Int /\ Interval(c) \in Int
    BY CallTypes, ClockAssumption
  <1>5. clock \in Int /\ msg[m].made \in Int
    BY <1>1, ClockAssumption DEF TypeOK, Row, Time
  <1>6. Second * (Interval(c) - 1) = w - Second
    BY <1>4
  <1>7. clock - msg[m].made > w - Second
    <2> HIDE DEF w
    <2>1. ~(EnqueuedTime(m) > clock - w)  BY <1>3 DEF w
    <2> QED  BY <2>1, <1>1, <1>4, <1>5, Truncated
  <1> QED  BY <1>6, <1>7

(* The transaction that inserts is not committed, so nobody has seen it. *)
LEMMA RowOrderNext == IInv /\ [Next]_vars => RowOrder'
  <1> SUFFICES ASSUME IInv, [Next]_vars PROVE RowOrder'
    OBVIOUS
  <1> USE DEF IInv, TypeOK, RowOrder, Row
  <1>1. ASSUME NEW t \in Tx, Begin(t) PROVE RowOrder'
    BY <1>1 DEF Begin, Goto, TakeSnapshot, rows, RowsOwned
  <1>2. ASSUME NEW t \in Tx, NEW c \in Calls, RunSynchronously(t, c) PROVE RowOrder'
    BY <1>2 DEF RunSynchronously, perTx
  <1>3. ASSUME NEW t \in Tx, NEW c \in Calls, IgnoreDuplicate(t, c) PROVE RowOrder'
    BY <1>3 DEF IgnoreDuplicate
  <1>4. ASSUME NEW t \in Tx, NEW c \in Calls, SendMessage(t, c) PROVE RowOrder'
    <2>1. \A u \in Tx : t \notin seen[u]
      BY <1>4 DEF SendMessage, Called, SeenCommitted
    <2>2. seen' = seen /\ msg' = [msg EXCEPT ![nextId] = [by |-> t, call |-> c, made |-> clock]]
      BY <1>4 DEF SendMessage, perTx
    <2>3. \A m, n \in Message : msg[m] # NoMessage /\ n = nextId => ~(n < m)
      BY MessagesAssumption DEF Message
    <2> QED  BY <2>1, <2>2, <2>3, MessagesAssumption
  <1>5. ASSUME NEW t \in Tx, NEW m \in Message, BeginStore(t, m) PROVE RowOrder'
    BY <1>5 DEF BeginStore, Goto, TakeSnapshot, rows, RowsOwned
  <1>6. ASSUME NEW t \in Tx, Store(t) PROVE RowOrder'
    BY <1>6 DEF Store, Goto
  <1>7. ASSUME NEW t \in Tx, Commit(t) PROVE RowOrder'
    BY <1>7 DEF Commit, Goto, rows
  <1>8. ASSUME NEW t \in Tx, Rollback(t) PROVE RowOrder'
    BY <1>8, MessagesAssumption DEF Rollback, Goto
  <1>9. ASSUME NEW m \in Message, Settle(m) \/ Retry(m) PROVE RowOrder'
    BY <1>9 DEF Settle, Retry, perTx
  <1>10. CASE Tick
    BY <1>10 DEF Tick, perTx, rows
  <1>11. CASE UNCHANGED vars
    BY <1>11 DEF vars, perTx, rows
  <1> QED
    BY <1>1, <1>2, <1>3, <1>4, <1>5, <1>6, <1>7, <1>8, <1>9, <1>10, <1>11
    DEF Next, TxStep

(* A message is inserted only when no duplicate of it is found. *)
LEMMA PairsOldNext == IInv /\ [Next]_vars => PairsOld'
  <1> SUFFICES ASSUME IInv, [Next]_vars PROVE PairsOld'
    OBVIOUS
  <1> USE DEF IInv, TypeOK, PairsOld, Row
  <1>1. ASSUME NEW t \in Tx, Begin(t) PROVE PairsOld'
    BY <1>1 DEF Begin, Goto, TakeSnapshot, rows, RowsOwned
  <1>2. ASSUME NEW t \in Tx, NEW c \in Calls, RunSynchronously(t, c) PROVE PairsOld'
    BY <1>2 DEF RunSynchronously, perTx
  <1>3. ASSUME NEW t \in Tx, NEW c \in Calls, IgnoreDuplicate(t, c) PROVE PairsOld'
    BY <1>3 DEF IgnoreDuplicate
  <1>4. ASSUME NEW t \in Tx, NEW c \in Calls, SendMessage(t, c) PROVE PairsOld'
    <2>1. /\ flight' = flight
          /\ msg' = [msg EXCEPT ![nextId] = [by |-> t, call |-> c, made |-> clock]]
      BY <1>4 DEF SendMessage, perTx
    <2>2. \A m, n \in Message : msg[m] # NoMessage /\ n = nextId => ~(n < m) /\ m # n
      BY MessagesAssumption DEF Message
    <2>3. pc[t] = "open" /\ (c.queue \in Fifo => Duplicates(t, c) = {})
      BY <1>4 DEF SendMessage, Called, Suppressed
    <2> SUFFICES
          ASSUME NEW m \in Message, NEW n \in Message,
                 msg'[m] # NoMessage, msg'[n] # NoMessage, m < n,
                 msg'[n].call.queue \in Fifo,
                 Key(msg'[m].call) = Key(msg'[n].call),
                 msg'[m].by = msg'[n].by \/ m \in flight[msg'[n].by]
          PROVE  msg'[n].made - msg'[m].made > Second * (Interval(msg'[n].call) - 1)
      BY <2>1 DEF Key, Interval
    <2>4. CASE n = nextId
      <3>1. m # nextId /\ msg'[m] = msg[m]  BY <2>1, <2>4, MessagesAssumption DEF Message
      <3>2. msg'[n] = [by |-> t, call |-> c, made |-> clock]  BY <2>1, <2>4
      <3> QED  BY <2>3, <3>1, <3>2, NotFoundIsOld
    <2>5. CASE n # nextId
      <3>1. msg'[n] = msg[n]  BY <2>1, <2>5
      <3>2. m # nextId  BY <2>2, <3>1
      <3>3. msg'[m] = msg[m]  BY <2>1, <3>2
      <3> QED  BY <3>1, <3>3
    <2> QED  BY <2>4, <2>5
  <1>5. ASSUME NEW t \in Tx, NEW m \in Message, BeginStore(t, m) PROVE PairsOld'
    BY <1>5 DEF BeginStore, Goto, TakeSnapshot, rows, RowsOwned
  <1>6. ASSUME NEW t \in Tx, Store(t) PROVE PairsOld'
    BY <1>6 DEF Store, Goto
  <1>7. ASSUME NEW t \in Tx, Commit(t) PROVE PairsOld'
    BY <1>7 DEF Commit, Goto, rows
  <1>8. ASSUME NEW t \in Tx, Rollback(t) PROVE PairsOld'
    BY <1>8, MessagesAssumption DEF Rollback, Goto
  <1>9. ASSUME NEW m \in Message, Settle(m) \/ Retry(m) PROVE PairsOld'
    BY <1>9 DEF Settle, Retry, perTx
  <1>10. CASE Tick
    BY <1>10 DEF Tick, perTx, rows
  <1>11. CASE UNCHANGED vars
    BY <1>11 DEF vars, perTx, rows
  <1> QED
    BY <1>1, <1>2, <1>3, <1>4, <1>5, <1>6, <1>7, <1>8, <1>9, <1>10, <1>11
    DEF Next, TxStep


(***************************************************************************)
(* Processors.                                                             *)
(***************************************************************************)

(* What t sees is its own or committed. *)
LEMMA SeenIsThere ==
    ASSUME SeenCommitted, TypeOK, NEW t \in Tx, NEW u \in Tx, Sees(t, u)
    PROVE  u = t \/ u \in Committed
  BY DEF SeenCommitted, Sees, Committed, TypeOK

(* After a search-then-create there is a record that stays. *)
LEMMA SearchFinds ==
    ASSUME SeenCommitted, TypeOK, NEW t \in Tx, NEW type \in Type, NEW target \in Target,
           FindOrCreateProcessor(t, type, target)
    PROVE  \E p \in procs' : /\ p.by = t \/ p.by \in Committed
                             /\ p.type = type
                             /\ p.target = target
  <1>1. PICK p \in procs' : p.type = type /\ p.target = target /\ Sees(t, p.by)
    BY SearchThenCreate
  <1>2. p.by \in Tx  BY <1>1, ProcsTyped DEF TypeOK, Processor
  <1> QED  BY <1>1, <1>2, SeenIsThere

(* Records and transactions that stay keep a message's processor. *)
LEMMA ProcessorStays ==
    ASSUME procs \subseteq procs', Committed \subseteq Committed',
           NEW m, NEW t, ProcessorFor(m, t),
           msg[m].call.type = msg'[m].call.type,
           msg[m].call.target = msg'[m].call.target
    PROVE  ProcessorFor(m, t)'
  BY DEF ProcessorFor

(* Steps that touch no row and end no store keep the processors there. *)
LEMMA QuietProcessors ==
    ASSUME ProcessorsThere, procs \subseteq procs', UNCHANGED msg,
           \A t \in Tx : pc[t] = "committed" => pc'[t] = "committed",
           \A t \in Tx : /\ pc'[t] \in {"stored", "committed"}
                         /\ job'[t] # NoMessage
                         => pc[t] \in {"stored", "committed"} /\ job'[t] = job[t]
    PROVE  ProcessorsThere'
  <1>1. Committed \subseteq Committed'  BY DEF Committed
  <1>2. \A m, t : ProcessorFor(m, t) => ProcessorFor(m, t)'
    BY <1>1, ProcessorStays
  <1> QED  BY <1>2 DEF ProcessorsThere

(* A message comes with its processor and a store finds or makes one. *)
LEMMA ProcessorsThereNext == IInv /\ [Next]_vars => ProcessorsThere'
  <1> SUFFICES ASSUME IInv, [Next]_vars PROVE ProcessorsThere'
    OBVIOUS
  <1> USE DEF IInv, TypeOK, ProcessorsThere
  <1>1. ASSUME NEW t \in Tx, Begin(t) PROVE ProcessorsThere'
    BY <1>1, QuietProcessors DEF Begin, Goto, rows
  <1>2. ASSUME NEW t \in Tx, NEW c \in Calls, RunSynchronously(t, c) PROVE ProcessorsThere'
    BY <1>2, CalledAddsOwn, QuietProcessors DEF RunSynchronously, perTx, AddsOwn
  <1>3. ASSUME NEW t \in Tx, NEW c \in Calls, IgnoreDuplicate(t, c) PROVE ProcessorsThere'
    BY <1>3, CalledAddsOwn, QuietProcessors DEF IgnoreDuplicate, AddsOwn
  <1>4. ASSUME NEW t \in Tx, NEW c \in Calls, SendMessage(t, c) PROVE ProcessorsThere'
    <2>1. /\ msg' = [msg EXCEPT ![nextId] = [by |-> t, call |-> c, made |-> clock]]
          /\ UNCHANGED <<pc, job>>
          /\ Committed' = Committed
          /\ procs \subseteq procs'
      BY <1>4, CalledAddsOwn DEF SendMessage, perTx, Committed, AddsOwn
    <2>2. ASSUME NEW m \in Message, m # nextId, NEW u, ProcessorFor(m, u)
          PROVE  ProcessorFor(m, u)'
      BY <2>1, <2>2, ProcessorStays
    <2>3. ASSUME NEW m \in Message, msg'[m] # NoMessage, msg'[m].call.type = "rpc"
          PROVE  ProcessorFor(m, msg[m].by)'
      <3>1. CASE m # nextId  BY <2>1, <2>2, <2>3, <3>1
      <3>2. CASE m = nextId
        <4>1. msg'[m] = [by |-> t, call |-> c, made |-> clock]  BY <2>1, <3>2
        <4>2. c.type = "rpc" /\ FindOrCreateProcessor(t, c.type, c.target)
          BY <1>4, <2>3, <4>1 DEF SendMessage, Called
        <4>3. \E p \in procs' : /\ p.by = t \/ p.by \in Committed
                                /\ p.type = c.type
                                /\ p.target = c.target
          BY <4>2, SearchFinds, CallTypes
        <4> QED  BY <2>1, <4>1, <4>3 DEF ProcessorFor
      <3> QED  BY <3>1, <3>2
    <2>4. ASSUME NEW u \in Tx, job[u] # NoMessage
          PROVE  job[u] \in Message /\ job[u] # nextId
      BY <2>4, MessagesAssumption DEF JobCommitted, CommittedMessages, Message
    <2> QED  BY <2>1, <2>2, <2>3, <2>4
  <1>5. ASSUME NEW t \in Tx, NEW m \in Message, BeginStore(t, m) PROVE ProcessorsThere'
    BY <1>5, QuietProcessors DEF BeginStore, Goto, rows
  <1>6. ASSUME NEW t \in Tx, Store(t) PROVE ProcessorsThere'
    <2>0. PICK m : m = job[t]  OBVIOUS
    <2>1. /\ pc[t] = "storing" /\ pc' = [pc EXCEPT ![t] = "stored"]
          /\ UNCHANGED <<msg, job>>
          /\ Committed' = Committed
          /\ procs \subseteq procs'
      BY <1>6, StoreAddsOwn DEF Store, Goto, Committed, AddsOwn
    <2>2. m \in CommittedMessages
      BY <2>0, <2>1 DEF JobCommitted
    <2>3. ASSUME NEW n, NEW u, ProcessorFor(n, u) PROVE ProcessorFor(n, u)'
      BY <2>1, <2>3, ProcessorStays
    <2>4. ProcessorFor(m, t)'
      <3>1. CASE msg[m].call.type = "rpc"
        <4>1. ProcessorFor(m, msg[m].by) /\ msg[m].by \in Committed
          BY <2>2, <3>1 DEF CommittedMessages
        <4>2. ProcessorFor(m, t)  BY <4>1 DEF ProcessorFor
        <4> QED  BY <2>3, <4>2
      <3>2. CASE msg[m].call.type = "simple"
        <4>1. msg[m].call.target \in Target /\ msg[m].call.type \in Type
          BY <1>6, <2>0, StoreTyped DEF Call
        <4>2. FindOrCreateProcessor(t, msg[m].call.type, msg[m].call.target)
          BY <1>6, <2>0, <3>2 DEF Store
        <4> QED  BY <2>1, <4>1, <4>2, SearchFinds DEF ProcessorFor
      <3> QED  BY <1>6, <2>0, <3>1, <3>2, StoreTyped DEF Call, Type
    <2> QED  BY <2>0, <2>1, <2>3, <2>4
  <1>7. ASSUME NEW t \in Tx, Commit(t) PROVE ProcessorsThere'
    BY <1>7, QuietProcessors DEF Commit, Goto, rows, JobCommitted
  <1>8. ASSUME NEW t \in Tx, Rollback(t) PROVE ProcessorsThere'
    <2>1. /\ pc[t] # "committed" /\ pc' = [pc EXCEPT ![t] = "rolledback"]
          /\ procs' = {p \in procs : p.by # t}
          /\ job' = [job EXCEPT ![t] = NoMessage]
          /\ \A m \in Message : msg'[m] # NoMessage => msg'[m] = msg[m] /\ msg[m].by # t
          /\ \A m \in Message : msg[m] # NoMessage /\ msg[m].by # t => msg'[m] = msg[m]
      BY <1>8 DEF Rollback, Goto
    <2>2. Committed' = Committed /\ t \notin Committed
      BY <2>1 DEF Committed
    <2>3. ASSUME NEW m \in Message, NEW u, u # t, msg'[m] = msg[m], ProcessorFor(m, u)
          PROVE  ProcessorFor(m, u)'
      BY <2>1, <2>2, <2>3 DEF ProcessorFor
    <2>4. ASSUME NEW m \in Message, msg'[m] # NoMessage, msg'[m].call.type = "rpc"
          PROVE  ProcessorFor(m, msg[m].by)'
      BY <2>1, <2>3, <2>4
    <2>5. ASSUME NEW u \in Tx, job'[u] # NoMessage, pc'[u] \in {"stored", "committed"}
          PROVE  ProcessorFor(job[u], u)'
      <3>1. u # t /\ job'[u] = job[u] /\ pc'[u] = pc[u]  BY <2>1, <2>5
      <3>2. job[u] \in CommittedMessages  BY <2>5, <3>1 DEF JobCommitted
      <3>3. msg'[job[u]] = msg[job[u]]
        BY <2>1, <2>2, <3>2 DEF CommittedMessages
      <3> QED  BY <2>3, <2>5, <3>1, <3>2, <3>3 DEF CommittedMessages
    <2> QED  BY <2>4, <2>5
  <1>9. ASSUME NEW m \in Message, Settle(m) \/ Retry(m) PROVE ProcessorsThere'
    BY <1>9, QuietProcessors DEF Settle, Retry, perTx
  <1>10. CASE Tick
    BY <1>10, QuietProcessors DEF Tick, perTx, rows
  <1>11. CASE UNCHANGED vars
    BY <1>11, QuietProcessors DEF vars, perTx, rows
  <1> QED
    BY <1>1, <1>2, <1>3, <1>4, <1>5, <1>6, <1>7, <1>8, <1>9, <1>10, <1>11
    DEF Next, TxStep

(***************************************************************************)
(* The theorems.                                                           *)
(***************************************************************************)

(* The invariant holds initially, *)
LEMMA InvInit == Init => IInv
  <1> SUFFICES ASSUME Init PROVE IInv
    OBVIOUS
  <1>1. TypeOK  BY TypeInit
  <1> QED
    BY <1>1 DEF Init, IInv, RowsOwned, ProcsOwned, OwnInFlight, SeenCommitted,
                JobCommitted, ProcessorsThere, ProcessorsTraced, CoversThere,
                WindowNotExceeded, RowOrder, PairsOld

(* is kept by every step, *)
LEMMA InvNext == IInv /\ [Next]_vars => IInv'
  BY TypeNext, RowsOwnedNext, OwnInFlightNext, SeenCommittedNext, JobCommittedNext,
     ProcsOwnedNext, ProcessorsTracedNext, CoversThereNext, WindowNext,
     RowOrderNext, PairsOldNext, ProcessorsThereNext DEF IInv

(* and so holds always. *)
LEMMA Invariance == Spec => []IInv
  BY InvInit, InvNext, PTL DEF Spec

(* Rows, snapshots and ids are always well-formed. *)
THEOREM TypeCorrect == Spec => []TypeOK
  <1>1. IInv => TypeOK  BY DEF IInv
  <1> QED  BY <1>1, Invariance, PTL

(* Whoever created it and whoever rolled back: a committed rpc message, and *)
(* a message that was stored, has a processor record.                       *)
THEOREM ProcessorAlwaysKnown == Spec => []ProcessorKnown
  <1>1. IInv => ProcessorKnown
    <2> SUFFICES ASSUME IInv, NEW m \in CommittedMessages,
                        msg[m].call.type = "rpc" \/ StoredOnce(m)
                 PROVE  HasProcessor(m)
      BY DEF ProcessorKnown
    <2>1. m \in Message /\ msg[m] # NoMessage /\ msg[m].by \in Committed
      BY DEF CommittedMessages
    <2>2. CASE msg[m].call.type = "rpc"
      <3>1. ProcessorFor(m, msg[m].by)  BY <2>1, <2>2 DEF IInv, ProcessorsThere
      <3> QED  BY <2>1, <3>1 DEF ProcessorFor, HasProcessor
    <2>3. CASE StoredOnce(m)
      <3>1. PICK t \in Committed : job[t] = m  BY <2>3 DEF StoredOnce
      <3>2. ProcessorFor(m, t)
        BY <2>1, <3>1, MessagesAssumption DEF IInv, ProcessorsThere, Committed
      <3> QED  BY <3>1, <3>2 DEF ProcessorFor, HasProcessor
    <2> QED  BY <2>2, <2>3
  <1> QED  BY <1>1, Invariance, PTL

(* Two records of one processor come only from transactions side by side. *)
THEOREM ProcessorsOnlyRace == Spec => []ProcessorsTraced
  <1>1. IInv => ProcessorsTraced  BY DEF IInv
  <1> QED  BY <1>1, Invariance, PTL

(* A committed transaction's ignored calls are covered by messages that     *)
(* exist.                                                                   *)
THEOREM NothingSilentlyLost == Spec => []SuppressedIsKept
  <1>1. IInv => SuppressedIsKept
    <2> SUFFICES ASSUME IInv, NEW t \in Committed, NEW x, x \in covers[t]
                 PROVE  x.of \in CommittedMessages
      BY DEF SuppressedIsKept
    <2>1. msg[x.of] # NoMessage /\ msg[x.of].by \in Committed
      BY DEF IInv, CoversThere, Committed
    <2>2. x.of \in Message  BY DEF IInv, TypeOK, Committed, Cover
    <2> QED  BY <2>1, <2>2 DEF CommittedMessages
  <1> QED  BY <1>1, Invariance, PTL

(* No call is ignored for a message older than its interval. *)
THEOREM IgnoredOnlyInWindow == Spec => []WindowNotExceeded
  <1>1. IInv => WindowNotExceeded  BY DEF IInv
  <1> QED  BY <1>1, Invariance, PTL

(* Two equivalent messages in flight have one of three explanations.       *)
THEOREM DuplicatesExplained == Spec => []DuplicatesTraced
  <1>1. IInv => DuplicatesTraced
    <2> SUFFICES
          ASSUME IInv,
                 NEW m \in CommittedMessages \intersect inFlight,
                 NEW n \in CommittedMessages \intersect inFlight,
                 m < n, msg[n].call.queue \in Fifo,
                 Key(msg[m].call) = Key(msg[n].call),
                 ~Concurrent(msg[m].by, msg[n].by),
                 ~(msg[m].by \in seen[msg[n].by] /\ m \notin flight[msg[n].by])
          PROVE  msg[n].made - msg[m].made > Second * (Interval(msg[n].call) - 1)
      BY DEF DuplicatesTraced
    <2>1. /\ m \in Message /\ msg[m] # NoMessage
          /\ n \in Message /\ msg[n] # NoMessage
      BY DEF CommittedMessages
    <2>2. msg[n].by \notin seen[msg[m].by]  BY <2>1 DEF IInv, RowOrder
    <2>3. msg[m].by = msg[n].by \/ m \in flight[msg[n].by]
      BY <2>2 DEF Concurrent
    <2> QED  BY <2>1, <2>3 DEF IInv, PairsOld
  <1> QED  BY <1>1, Invariance, PTL
=============================================================================

--------------------------- MODULE SqsQueueProofs ---------------------------
(***************************************************************************)
(* Proofs about SqsQueue, for any messages, rows and workers, any outcomes *)
(* of jobs, and any number of faults.                                      *)
(***************************************************************************)
EXTENDS SqsQueue, FiniteSetTheorems, TLAPS

USE DEF NoId, NoRow

(* A message is deleted by a worker whose job has an outcome. *)
OverHasResult ==
    \A w \in Worker : pc[w] = "over" => out[w] \notin {"none", "retry", "psycopg2_Error"}

TypeInv == TypeOK /\ OverHasResult

LEMMA HolderHasId ==
    ASSUME TypeOK, NEW w \in Worker, pc[w] # "idle"
    PROVE  cur[w] \in Id
BY DEF TypeOK

LEMMA TouchedTypes ==
    ASSUME TypeOK, NEW r
    PROVE  /\ TouchedWorkers(r) \in [Worker -> {"none", "fresh", "stale"}]
           /\ TouchedRetrials(r) \in [Id -> {"none", "open", "stale", "committed", "aborted"}]
           /\ \A c \in Id : TouchedRetrials(r)[c] # "none" <=> retrial[c] # "none"
BY DEF TypeOK, TouchedWorkers, TouchedRetrials

LEMMA WroteTypes ==
    ASSUME TypeOK, NEW w \in Worker, NEW r, NEW s \in {"none", "fresh"}, Wrote(w, r, s),
           UNCHANGED origin
    PROVE  /\ snap' \in [Worker -> {"none", "fresh", "stale"}]
           /\ retrial' \in [Id -> {"none", "open", "stale", "committed", "aborted"}]
           /\ \A c \in Id : retrial'[c] # "none" <=> origin'[c] # NoRow
<1>1. \A c \in Id : retrial[c] # "none" <=> origin[c] # NoRow
  BY DEF TypeOK
<1> QED
  BY <1>1, TouchedTypes DEF Wrote

(* Leaving keeps the worker variables as they should be. *)
LEMMA LeaveTypes ==
    ASSUME TypeInv, NEW w \in Worker, Leave(w)
    PROVE  /\ pc' \in [Worker -> {"idle", "got", "running", "over", "late", "ran", "giveup"}]
           /\ cur' \in [Worker -> Id \cup {NoId}]
           /\ rec' \in [Worker -> Row \cup {NoRow}]
           /\ last' \in [Worker -> BOOLEAN]
           /\ out' \in [Worker -> Final \cup {"none", "retry", "imqerror", "psycopg2_Error"}]
           /\ \A v \in Worker :
                 /\ pc'[v] = "idle" <=> cur'[v] = NoId
                 /\ pc'[v] \notin {"idle", "got"} => rec'[v] # NoRow
                 /\ pc'[v] \in {"ran", "giveup"} => out'[v] \notin {"none", "imqerror"}
                 /\ pc'[v] = "over" => out'[v] \notin {"none", "retry", "psycopg2_Error"}
<1>1. /\ pc'[w] = "idle" /\ cur'[w] = NoId
      /\ \A v \in Worker \ {w} : /\ pc'[v] = pc[v] /\ cur'[v] = cur[v] /\ rec'[v] = rec[v]
                                 /\ out'[v] = out[v]
  BY DEF Leave, TypeInv, TypeOK
<1>2. \A v \in Worker :
         /\ pc'[v] = "idle" <=> cur'[v] = NoId
         /\ pc'[v] \notin {"idle", "got"} => rec'[v] # NoRow
         /\ pc'[v] \in {"ran", "giveup"} => out'[v] \notin {"none", "imqerror"}
         /\ pc'[v] = "over" => out'[v] \notin {"none", "retry", "psycopg2_Error"}
  BY <1>1 DEF TypeInv, TypeOK, OverHasResult
<1> QED
  BY <1>2 DEF Leave, TypeInv, TypeOK

LEMMA FaultType == ASSUME TypeOK, NEW e, Fault(e) PROVE faults' \in 0..Faults
BY FaultsAssumption DEF TypeOK, Fault

LEMMA TypeQuiet ==
    ASSUME TypeInv, NEW w \in Worker, LeaveQuietly(w), faults' \in 0..Faults
    PROVE  TypeInv'
<1>1. /\ Leave(w) /\ snap' = [snap EXCEPT ![w] = "none"]
      /\ UNCHANGED <<remote, origin, retrial, qid, state, attempt, commits>>
  BY DEF LeaveQuietly, sqsVars, rowVars
<1> QED
  BY <1>1, LeaveTypes DEF TypeInv, TypeOK, OverHasResult

(* The end of a job. *)
LEMMA TypeEnds ==
    ASSUME TypeInv, NEW w \in Worker, pc[w] \in {"running", "over", "late"},
           faults' \in 0..Faults, commits' \in [Id -> Nat],
           \/ \E x \in Final \cup {"imqerror"} : Ends(w, x, "over")
           \/ \E x \in Final \cup {"retry", "psycopg2_Error"} : Ends(w, x, "ran")
    PROVE  TypeInv'
<1>1. /\ UNCHANGED <<remote, origin, retrial, qid, state, attempt, cur, rec, snap, last>>
      /\ \E x \in Final \cup {"imqerror", "retry", "psycopg2_Error"} :
            /\ out' = [out EXCEPT ![w] = x]
            /\ \/ pc' = [pc EXCEPT ![w] = "over"] /\ x \in Final \cup {"imqerror"}
               \/ pc' = [pc EXCEPT ![w] = "ran"] /\ x # "imqerror"
  BY DEF Ends, sqsVars, rowVars, Final
<1>2. PICK x \in Final \cup {"imqerror", "retry", "psycopg2_Error"}, p \in {"over", "ran"} :
         /\ out' = [out EXCEPT ![w] = x] /\ pc' = [pc EXCEPT ![w] = p]
         /\ p = "over" => x \in Final \cup {"imqerror"}
         /\ p = "ran" => x # "imqerror"
  BY <1>1
<1>3. /\ pc' \in [Worker -> {"idle", "got", "running", "over", "late", "ran", "giveup"}]
      /\ out' \in [Worker -> Final \cup {"none", "retry", "imqerror", "psycopg2_Error"}]
  BY <1>2 DEF TypeInv, TypeOK
<1>4. /\ pc'[w] = p /\ out'[w] = x
      /\ \A v \in Worker \ {w} : pc'[v] = pc[v] /\ out'[v] = out[v]
  BY <1>2 DEF TypeInv, TypeOK
<1>5. \A v \in Worker :
         /\ pc'[v] = "idle" <=> cur'[v] = NoId
         /\ pc'[v] \notin {"idle", "got"} => rec'[v] # NoRow
         /\ pc'[v] \in {"ran", "giveup"} => out'[v] \notin {"none", "imqerror"}
         /\ pc'[v] = "over" => out'[v] \notin {"none", "retry", "psycopg2_Error"}
  BY <1>1, <1>2, <1>4 DEF TypeInv, TypeOK, OverHasResult, Final
<1> QED
  BY <1>1, <1>3, <1>5 DEF TypeInv, TypeOK, OverHasResult

LEMMA TypeEnqueue ==
    ASSUME TypeInv, NEW c \in Id,
           \/ SendMessage(c) \/ RetryCommit(c) \/ RetryAbort(c)
           \/ Timeout(c) \/ Overrun(c)
           \/ \E r \in Row : RetrySend(r, c)
    PROVE  TypeInv'
<1>1. CASE SendMessage(c)
  BY <1>1 DEF SendMessage, rowVars, TypeInv, TypeOK, OverHasResult
<1>2. ASSUME NEW r \in Row, RetrySend(r, c)
      PROVE  TypeInv'
  <2>1. r # NoRow
    BY IdAssumption
  <2> QED
    BY <1>2, <2>1 DEF RetrySend, rowVars, TypeInv, TypeOK, OverHasResult
<1>3. CASE RetryCommit(c)
  <2>1. origin[c] \in Row
    BY <1>3 DEF RetryCommit, TypeInv, TypeOK
  <2>2. /\ qid' \in [Row -> Id \cup {NoId}] /\ state' \in [Row -> RowState]
        /\ snap' \in [Worker -> {"none", "fresh", "stale"}]
    BY <1>3, <2>1, TouchedTypes DEF RetryCommit, TypeInv, TypeOK, RowState
  <2>3. /\ retrial' \in [Id -> {"none", "open", "stale", "committed", "aborted"}]
        /\ \A d \in Id : retrial'[d] # "none" <=> origin[d] # NoRow
    <3>1. /\ retrial' = [TouchedRetrials(origin[c]) EXCEPT ![c] = "committed"]
          /\ retrial[c] # "none"
      BY <1>3 DEF RetryCommit
    <3>2. \A d \in Id : retrial[d] # "none" <=> origin[d] # NoRow
      BY DEF TypeInv, TypeOK
    <3> QED
      BY <3>1, <3>2, TouchedTypes DEF TypeInv
  <2> QED
    BY <1>3, <2>2, <2>3 DEF RetryCommit, TypeInv, TypeOK, OverHasResult
<1>4. CASE RetryAbort(c)
  BY <1>4 DEF RetryAbort, rowVars, TypeInv, TypeOK, OverHasResult
<1>5. CASE Timeout(c) \/ Overrun(c)
  <2>1. /\ remote' = [remote EXCEPT ![c] = "visible"]
        /\ UNCHANGED <<origin, retrial, rowVars, pc, cur, rec, snap, last, out, commits>>
        /\ faults' \in 0..Faults
    BY <1>5, FaultType DEF Timeout, Overrun, Overdue, TypeInv, TypeOK
  <2> QED
    BY <2>1 DEF rowVars, TypeInv, TypeOK, OverHasResult
<1> QED
  BY <1>1, <1>2, <1>3, <1>4, <1>5

LEMMA TypeReceive ==
    ASSUME TypeInv, NEW w \in Worker, NEW c \in Id, Receive(w, c)
    PROVE  TypeInv'
<1>1. PICK r \in Row \cup {NoRow} : rec' = [rec EXCEPT ![w] = r]
  <2>1. Stored(c) => (CHOOSE r \in Row : qid[r] = c) \in Row
    BY DEF Stored
  <2> QED
    BY <2>1 DEF Receive
<1>2. c # NoId
  BY IdAssumption
<1>3. /\ remote' \in [Id -> {"none", "visible", "deleted"} \cup Worker]
      /\ pc' \in [Worker -> {"idle", "got", "running", "over", "late", "ran", "giveup"}]
      /\ cur' \in [Worker -> Id \cup {NoId}]
      /\ rec' \in [Worker -> Row \cup {NoRow}]
      /\ snap' \in [Worker -> {"none", "fresh", "stale"}]
  BY <1>1 DEF Receive, TypeInv, TypeOK
<1>4. /\ pc'[w] = "got" /\ cur'[w] = c
      /\ \A v \in Worker \ {w} : pc'[v] = pc[v] /\ cur'[v] = cur[v] /\ rec'[v] = rec[v]
  BY <1>1 DEF Receive, TypeInv, TypeOK
<1> QED
  BY <1>2, <1>3, <1>4 DEF Receive, rowVars, TypeInv, TypeOK, OverHasResult

LEMMA TypeWriteRow ==
    ASSUME TypeInv, NEW w \in Worker, pc[w] = "got", NEW r \in Row,
           NEW s \in RowState, WriteRow(w, r, s)
    PROVE  /\ qid' \in [Row -> Id \cup {NoId}]
           /\ state' \in [Row -> RowState]
           /\ attempt' \in [Row -> Nat]
<1>1. cur[w] \in Id
  BY HolderHasId DEF TypeInv
<1>2. attempt[r] + 1 \in Nat /\ attempt \in [Row -> Nat]
  BY DEF TypeInv, TypeOK
<1>3. attempt' = [attempt EXCEPT ![r] = attempt[r] + 1]
  BY DEF WriteRow
<1> QED
  BY <1>1, <1>2, <1>3 DEF WriteRow, TypeInv, TypeOK

LEMMA TypeStore ==
    ASSUME TypeInv, NEW w \in Worker, Store(w) \/ StoreMarksFailed(w)
    PROVE  TypeInv'
<1>1. CASE Store(w)
  <2>1. PICK r \in Row :
           /\ WriteRow(w, r, "wip") /\ rec' = [rec EXCEPT ![w] = r]
           /\ last' = [last EXCEPT ![w] = attempt[r] + 1 >= MaxAttempt]
           /\ Wrote(w, r, "fresh")
    BY <1>1 DEF Store
  <2>2. /\ qid' \in [Row -> Id \cup {NoId}] /\ state' \in [Row -> RowState]
        /\ attempt' \in [Row -> Nat]
    BY <1>1, <2>1, TypeWriteRow DEF Store, RowState
  <2>3. /\ snap' \in [Worker -> {"none", "fresh", "stale"}]
        /\ retrial' \in [Id -> {"none", "open", "stale", "committed", "aborted"}]
        /\ \A c \in Id : retrial'[c] # "none" <=> origin'[c] # NoRow
    BY <1>1, <2>1, WroteTypes DEF Store, TypeInv
  <2>4. remote' \in [Id -> {"none", "visible", "deleted"} \cup Worker]
    BY <1>1 DEF Store, AfterChange, TypeInv, TypeOK
  <2>5. /\ rec' \in [Worker -> Row \cup {NoRow}]
        /\ last' \in [Worker -> BOOLEAN]
        /\ pc' \in [Worker -> {"idle", "got", "running", "over", "late", "ran", "giveup"}]
    BY <1>1, <2>1 DEF Store, TypeInv, TypeOK
  <2>6. /\ pc'[w] = "running" /\ pc[w] = "got" /\ rec'[w] \in Row
        /\ \A v \in Worker \ {w} : pc'[v] = pc[v] /\ rec'[v] = rec[v]
    BY <1>1, <2>1 DEF Store, TypeInv, TypeOK
  <2>7. NoRow \notin Row
    BY IdAssumption
  <2>8. UNCHANGED <<origin, cur, out, commits, faults>>
    BY <1>1 DEF Store
  <2>9. \A v \in Worker :
           /\ pc'[v] = "idle" <=> cur'[v] = NoId
           /\ pc'[v] \notin {"idle", "got"} => rec'[v] # NoRow
           /\ pc'[v] \in {"ran", "giveup"} => out'[v] \notin {"none", "imqerror"}
           /\ pc'[v] = "over" => out'[v] \notin {"none", "retry", "psycopg2_Error"}
    BY <2>6, <2>7, <2>8 DEF TypeInv, TypeOK, OverHasResult
  <2> QED
    BY <2>2, <2>3, <2>4, <2>5, <2>8, <2>9 DEF TypeInv, TypeOK, OverHasResult
<1>2. CASE StoreMarksFailed(w)
  <2>1. PICK r \in Row : WriteRow(w, r, "failed") /\ Wrote(w, r, "none")
    BY <1>2 DEF StoreMarksFailed
  <2>2. /\ qid' \in [Row -> Id \cup {NoId}] /\ state' \in [Row -> RowState]
        /\ attempt' \in [Row -> Nat]
    BY <1>2, <2>1, TypeWriteRow DEF StoreMarksFailed, RowState, Final
  <2>3. /\ snap' \in [Worker -> {"none", "fresh", "stale"}]
        /\ retrial' \in [Id -> {"none", "open", "stale", "committed", "aborted"}]
        /\ \A c \in Id : retrial'[c] # "none" <=> origin'[c] # NoRow
    BY <1>2, <2>1, WroteTypes DEF StoreMarksFailed, TypeInv
  <2>4. faults' \in 0..Faults
    BY <1>2, FaultType DEF StoreMarksFailed, TypeInv
  <2> QED
    BY <1>2, <2>2, <2>3, <2>4, LeaveTypes DEF StoreMarksFailed, TypeInv, TypeOK, OverHasResult
<1> QED
  BY <1>1, <1>2

LEMMA TypeJob ==
    ASSUME TypeInv, NEW w \in Worker,
           \/ JobOk(w) \/ JobFails(w) \/ JobAgain(w) \/ JobOperational(w)
           \/ CommitLate(w) \/ DeleteRaisesOnce(w)
    PROVE  TypeInv'
<1>1. CASE JobOk(w) \/ CommitLate(w)
  <2>1. cur[w] \in Id
    BY <1>1, HolderHasId DEF JobOk, CommitLate, TypeInv
  <2>2. commits[cur[w]] + 1 \in Nat /\ commits \in [Id -> Nat] /\ faults \in 0..Faults
    BY <2>1 DEF TypeInv, TypeOK
  <2>3. commits' \in [Id -> Nat] /\ faults' \in 0..Faults
    BY <1>1, <2>2 DEF JobOk, CommitLate
  <2> QED
    BY <1>1, <2>3, TypeEnds DEF JobOk, CommitLate, Final
<1>2. CASE JobFails(w) \/ JobAgain(w)
  <2>1. commits' \in [Id -> Nat] /\ faults' \in 0..Faults
    BY <1>2 DEF JobFails, JobAgain, TypeInv, TypeOK
  <2>2. CASE JobFails(w)
    BY <2>1, <2>2, TypeEnds DEF JobFails, Final
  <2>3. CASE JobAgain(w)
    BY <2>1, <2>3, TypeEnds DEF JobAgain, Final
  <2> QED
    BY <1>2, <2>2, <2>3
<1>3. CASE JobOperational(w) \/ DeleteRaisesOnce(w)
  <2>1. commits' \in [Id -> Nat] /\ faults' \in 0..Faults
    BY <1>3, FaultType DEF JobOperational, DeleteRaisesOnce, TypeInv, TypeOK
  <2> QED
    BY <1>3, <2>1, TypeEnds DEF JobOperational, DeleteRaisesOnce, Final
<1> QED
  BY <1>1, <1>2, <1>3

LEMMA TypeDelete ==
    ASSUME TypeInv, NEW w \in Worker,
           Delete(w) \/ GiveUp(w)
    PROVE  TypeInv'
<1>1. remote' \in [Id -> {"none", "visible", "deleted"} \cup Worker]
  BY DEF Delete, GiveUp, Deleted, TypeInv, TypeOK
<1>2. CASE Delete(w)
  <2>1. PICK p \in {"late", "ran"} : /\ pc' = [pc EXCEPT ![w] = p]
                                     /\ p = "ran" => out[w] # "imqerror"
    BY <1>2 DEF Delete
  <2>2. /\ pc[w] = "over" /\ pc'[w] = p /\ \A v \in Worker \ {w} : pc'[v] = pc[v]
        /\ pc' \in [Worker -> {"idle", "got", "running", "over", "late", "ran", "giveup"}]
    BY <1>2, <2>1 DEF Delete, TypeInv, TypeOK
  <2>3. UNCHANGED <<origin, retrial, qid, state, attempt, cur, rec, snap, last, out,
                    commits, faults>>
    BY <1>2 DEF Delete, rowVars
  <2>4. \A v \in Worker :
           /\ pc'[v] = "idle" <=> cur'[v] = NoId
           /\ pc'[v] \notin {"idle", "got"} => rec'[v] # NoRow
           /\ pc'[v] \in {"ran", "giveup"} => out'[v] \notin {"none", "imqerror"}
           /\ pc'[v] = "over" => out'[v] \notin {"none", "retry", "psycopg2_Error"}
    BY <2>1, <2>2, <2>3 DEF TypeInv, TypeOK, OverHasResult
  <2> QED
    BY <1>1, <2>2, <2>3, <2>4 DEF TypeInv, TypeOK, OverHasResult
<1>3. CASE GiveUp(w)
  <2>1. /\ Leave(w) /\ snap' = [snap EXCEPT ![w] = "none"]
        /\ UNCHANGED <<origin, retrial, qid, state, attempt, commits, faults>>
    BY <1>3 DEF GiveUp, rowVars
  <2> QED
    BY <1>1, <2>1, LeaveTypes DEF TypeInv, TypeOK, OverHasResult
<1> QED
  BY <1>2, <1>3

LEMMA TypeMarkFailed ==
    ASSUME TypeInv, NEW w \in Worker, pc[w] \in {"over", "ran"}, MarkFailed(w),
           faults' \in 0..Faults
    PROVE  TypeInv'
<1>1. rec[w] \in Row
  BY DEF TypeInv, TypeOK
<1>2. state' \in [Row -> RowState]
  BY <1>1 DEF MarkFailed, RowState, Final, TypeInv, TypeOK
<1>3. /\ snap' \in [Worker -> {"none", "fresh", "stale"}]
      /\ retrial' \in [Id -> {"none", "open", "stale", "committed", "aborted"}]
      /\ \A c \in Id : retrial'[c] # "none" <=> origin'[c] # NoRow
  BY WroteTypes DEF MarkFailed, TypeInv
<1> QED
  BY <1>2, <1>3, LeaveTypes DEF MarkFailed, TypeInv, TypeOK, OverHasResult

LEMMA TypeRecord ==
    ASSUME TypeInv, NEW w \in Worker, Record(w)
    PROVE  TypeInv'
<1>1. rec[w] \in Row /\ out[w] \in Final \cup {"retry"} /\ pc[w] = "ran"
  BY DEF Record, TypeInv, TypeOK
<1>2. state' \in [Row -> RowState]
  BY <1>1 DEF Record, RowState, TypeInv, TypeOK
<1>3. /\ snap' \in [Worker -> {"none", "fresh", "stale"}]
      /\ retrial' \in [Id -> {"none", "open", "stale", "committed", "aborted"}]
      /\ \A c \in Id : retrial'[c] # "none" <=> origin'[c] # NoRow
  BY WroteTypes DEF Record, TypeInv
<1>4. UNCHANGED <<remote, origin, qid, attempt, commits, faults>>
  BY DEF Record
<1>5. CASE Leave(w)
  BY <1>2, <1>3, <1>4, <1>5, LeaveTypes DEF TypeInv, TypeOK, OverHasResult
<1>6. CASE pc' = [pc EXCEPT ![w] = "giveup"] /\ UNCHANGED <<cur, rec, last, out>>
  BY <1>1, <1>2, <1>3, <1>4, <1>6 DEF TypeInv, TypeOK, OverHasResult
<1> QED
  BY <1>5, <1>6 DEF Record

LEMMA TypeStep == TypeInv /\ [Next]_vars => TypeInv'
<1> SUFFICES ASSUME TypeInv, [Next]_vars
             PROVE  TypeInv'
  OBVIOUS
<1>1. ASSUME NEW w \in Worker, Works(w)
      PROVE  TypeInv'
  <2>1. CASE StoreRefused(w) \/ RecordRefused(w)
    BY <2>1, TypeQuiet DEF StoreRefused, RecordRefused, TypeInv, TypeOK
  <2>2. CASE RecordOperational(w)
    BY <2>2, TypeMarkFailed DEF RecordOperational, TypeInv, TypeOK
  <2> QED
    BY <1>1, <2>1, <2>2, TypeStore, TypeJob, TypeDelete, TypeRecord DEF Works
<1>2. ASSUME NEW w \in Worker, Disturbed(w)
      PROVE  TypeInv'
  <2>1. CASE StoreRaisesCron(w) \/ GiveUpRaises(w) \/ Crash(w)
    BY <2>1, TypeQuiet, FaultType DEF StoreRaisesCron, GiveUpRaises, Crash, TypeInv
  <2>2. CASE DeleteRaises(w)
    BY <2>2, TypeQuiet, TypeMarkFailed, FaultType DEF DeleteRaises, TypeInv
  <2> QED
    BY <1>2, <2>1, <2>2, TypeStore, TypeJob DEF Disturbed
<1>3. CASE UNCHANGED vars
  BY <1>3 DEF vars, TypeInv, TypeOK, OverHasResult
<1> QED
  BY <1>1, <1>2, <1>3, TypeEnqueue, TypeReceive DEF Next

LEMMA TypeInit == Init => TypeInv
BY IdAssumption, FaultsAssumption
   DEF Init, TypeInv, TypeOK, OverHasResult, RowState, Final

(* Rows, messages and workers keep to the values of their types, whatever
   fails, is delivered twice or retried. *)
THEOREM TypeCorrect == Spec => []TypeOK
<1>1. TypeInv => TypeOK
  BY DEF TypeInv
<1> QED
  BY <1>1, TypeInit, TypeStep, PTL DEF Spec

-----------------------------------------------------------------------------
(* A worker that is about to record done has seen its job commit. *)
DoneResultCommitted ==
    \A w \in Worker : /\ out[w] = "done" => commits[cur[w]] > 0
                      /\ pc[w] \in {"idle", "got", "running"} => out[w] = "none"

(* A worker whose snapshot is fresh knows which message its row shows. *)
RowShowsMessage ==
    \A w \in Worker : pc[w] \notin {"idle", "got"} /\ snap[w] = "fresh" =>
                         qid[rec[w]] = cur[w]

(* A done row shows a message whose job committed. *)
DoneRowCommitted ==
    \A r \in Row : state[r] = "done" => qid[r] \in Id /\ commits[qid[r]] > 0

CommitInv == DoneRowCommitted /\ DoneResultCommitted /\ RowShowsMessage

(* A step by which a worker leaves, with a row written or not. *)
LEMMA CommitLeave ==
    ASSUME TypeInv, CommitInv, NEW w \in Worker, Leave(w), UNCHANGED commits,
           \A v \in Worker \ {w} : snap'[v] = "fresh" =>
               /\ snap[v] = "fresh"
               /\ pc[v] \notin {"idle", "got"} => qid'[rec[v]] = qid[rec[v]],
           \A r \in Row : state'[r] = "done" => qid'[r] \in Id /\ commits[qid'[r]] > 0
    PROVE  CommitInv'
<1>1. /\ pc'[w] = "idle" /\ out'[w] = "none"
      /\ \A v \in Worker \ {w} : /\ pc'[v] = pc[v] /\ cur'[v] = cur[v] /\ rec'[v] = rec[v]
                                 /\ out'[v] = out[v]
  BY DEF Leave, TypeInv, TypeOK
<1>2. DoneResultCommitted'
  BY <1>1 DEF CommitInv, DoneResultCommitted
<1>3. RowShowsMessage'
  BY <1>1 DEF CommitInv, RowShowsMessage
<1> QED
  BY <1>2, <1>3 DEF CommitInv, DoneRowCommitted

(* A write of row r leaves a fresh snapshot to the writer alone. *)
LEMMA WroteSnap ==
    ASSUME TypeInv, NEW w \in Worker, NEW r, NEW s, Wrote(w, r, s)
    PROVE  /\ snap'[w] = s
           /\ \A v \in Worker \ {w} : snap'[v] = "fresh" => snap[v] = "fresh" /\ rec[v] # r
BY DEF Wrote, TouchedWorkers, TypeInv, TypeOK

LEMMA CommitQuiet ==
    ASSUME TypeInv, CommitInv, NEW w \in Worker, LeaveQuietly(w)
    PROVE  CommitInv'
<1>1. /\ Leave(w) /\ snap' = [snap EXCEPT ![w] = "none"]
      /\ UNCHANGED <<qid, state, commits>>
  BY DEF LeaveQuietly, rowVars
<1>2. \A v \in Worker \ {w} : snap'[v] = snap[v]
  BY <1>1 DEF TypeInv, TypeOK
<1> QED
  BY <1>1, <1>2, CommitLeave DEF CommitInv, DoneRowCommitted

LEMMA CommitMarkFailed ==
    ASSUME TypeInv, CommitInv, NEW w \in Worker, pc[w] \in {"over", "ran"}, MarkFailed(w)
    PROVE  CommitInv'
<1>1. rec[w] \in Row
  BY DEF TypeInv, TypeOK
<1>2. \A r \in Row : state'[r] = "done" => state[r] = "done"
  BY <1>1 DEF MarkFailed, TypeInv, TypeOK
<1>3. \A v \in Worker \ {w} : snap'[v] = "fresh" => snap[v] = "fresh"
  BY WroteSnap DEF MarkFailed
<1> QED
  BY <1>2, <1>3, CommitLeave DEF MarkFailed, CommitInv, DoneRowCommitted

(* Steps that write no row and touch one worker: the job and the deletion. *)
LEMMA CommitJob ==
    ASSUME TypeInv, CommitInv, NEW w \in Worker, pc[w] \notin {"idle", "got"},
           UNCHANGED <<qid, state, snap, cur, rec>>,
           \A v \in Worker \ {w} : pc'[v] = pc[v] /\ out'[v] = out[v],
           pc'[w] \notin {"idle", "got", "running"},
           \A c \in Id : commits[c] > 0 => commits'[c] > 0,
           out'[w] = "done" => commits'[cur[w]] > 0
    PROVE  CommitInv'
<1>1. \A v \in Worker \ {w} : out[v] = "done" => cur[v] \in Id
  BY HolderHasId DEF TypeInv, CommitInv, DoneResultCommitted
<1>2. DoneResultCommitted'
  BY <1>1 DEF CommitInv, DoneResultCommitted
<1>3. RowShowsMessage'
  <2>1. \A v \in Worker : pc'[v] \notin {"idle", "got"} => pc[v] \notin {"idle", "got"}
    OBVIOUS
  <2> QED
    BY <2>1 DEF CommitInv, RowShowsMessage
<1>4. DoneRowCommitted'
  BY DEF CommitInv, DoneRowCommitted
<1> QED
  BY <1>2, <1>3, <1>4 DEF CommitInv

LEMMA CommitStored ==
    ASSUME TypeInv, CommitInv, NEW w \in Worker, Store(w) \/ StoreMarksFailed(w)
    PROVE  CommitInv'
<1>1. PICK r \in Row, s \in {"wip", "failed"} :
         /\ WriteRow(w, r, s)
         /\ \/ Store(w) /\ rec' = [rec EXCEPT ![w] = r] /\ Wrote(w, r, "fresh")
            \/ StoreMarksFailed(w) /\ Wrote(w, r, "none")
  BY DEF Store, StoreMarksFailed
<1>2. /\ qid'[r] = cur[w] /\ state'[r] = s /\ commits' = commits
      /\ \A q \in Row \ {r} : qid'[q] = qid[q] /\ state'[q] = state[q]
  BY <1>1 DEF WriteRow, Store, StoreMarksFailed, TypeInv, TypeOK
<1>3. \A q \in Row : state'[q] = "done" => qid'[q] \in Id /\ commits[qid'[q]] > 0
  BY <1>2 DEF CommitInv, DoneRowCommitted
<1>4. ASSUME NEW v \in Worker \ {w}, snap'[v] = "fresh"
      PROVE  snap[v] = "fresh" /\ rec[v] # r
  BY <1>1, <1>4, WroteSnap
<1>5. CASE StoreMarksFailed(w) /\ Wrote(w, r, "none")
  <2>1. Leave(w) /\ UNCHANGED commits
    BY <1>5 DEF StoreMarksFailed
  <2>2. ASSUME NEW v \in Worker \ {w}, snap'[v] = "fresh", pc[v] \notin {"idle", "got"}
        PROVE  qid'[rec[v]] = qid[rec[v]]
    <3>1. rec[v] \in Row \ {r}
      BY <1>4, <2>2 DEF TypeInv, TypeOK
    <3> QED
      BY <1>2, <3>1
  <2> QED
    BY <1>3, <1>4, <2>1, <2>2, CommitLeave
<1>6. CASE Store(w) /\ rec' = [rec EXCEPT ![w] = r] /\ Wrote(w, r, "fresh")
  <2>1. /\ pc[w] = "got" /\ pc'[w] = "running" /\ rec'[w] = r /\ UNCHANGED <<cur, out>>
        /\ \A v \in Worker \ {w} : pc'[v] = pc[v] /\ rec'[v] = rec[v]
    BY <1>6 DEF Store, TypeInv, TypeOK
  <2>2. DoneResultCommitted'
    BY <1>2, <2>1 DEF CommitInv, DoneResultCommitted
  <2>3. RowShowsMessage'
    <3> SUFFICES ASSUME NEW v \in Worker, pc'[v] \notin {"idle", "got"}, snap'[v] = "fresh"
                 PROVE  qid'[rec'[v]] = cur[v]
      BY <2>1 DEF RowShowsMessage
    <3>1. CASE v = w
      BY <1>2, <2>1, <3>1
    <3>2. CASE v # w
      <4>1. snap[v] = "fresh" /\ rec[v] \in Row \ {r} /\ pc'[v] = pc[v] /\ rec'[v] = rec[v]
        BY <1>4, <2>1, <3>2 DEF TypeInv, TypeOK
      <4> QED
        BY <1>2, <4>1 DEF CommitInv, RowShowsMessage
    <3> QED
      BY <3>1, <3>2
  <2> QED
    BY <1>2, <1>3, <2>2, <2>3 DEF CommitInv, DoneRowCommitted
<1> QED
  BY <1>1, <1>5, <1>6

LEMMA CommitRecord ==
    ASSUME TypeInv, CommitInv, NEW w \in Worker, Record(w)
    PROVE  CommitInv'
<1>1. rec[w] \in Row /\ pc[w] = "ran" /\ snap[w] = "fresh" /\ cur[w] \in Id
  BY HolderHasId DEF Record, TypeInv, TypeOK
<1>2. /\ state'[rec[w]] = out[w] /\ UNCHANGED <<qid, commits>>
      /\ \A r \in Row \ {rec[w]} : state'[r] = state[r]
  BY <1>1 DEF Record, TypeInv, TypeOK
<1>3. qid[rec[w]] = cur[w]
  BY <1>1 DEF CommitInv, RowShowsMessage
<1>4. \A r \in Row : state'[r] = "done" => qid'[r] \in Id /\ commits[qid'[r]] > 0
  BY <1>1, <1>2, <1>3 DEF CommitInv, DoneRowCommitted, DoneResultCommitted
<1>5. \A v \in Worker \ {w} : snap'[v] = "fresh" => snap[v] = "fresh"
  BY WroteSnap DEF Record
<1>6. CASE Leave(w)
  BY <1>2, <1>4, <1>5, <1>6, CommitLeave
<1>7. CASE pc' = [pc EXCEPT ![w] = "giveup"] /\ UNCHANGED <<cur, rec, last, out>>
  <2>1. pc'[w] = "giveup" /\ \A v \in Worker \ {w} : pc'[v] = pc[v]
    BY <1>7 DEF TypeInv, TypeOK
  <2>2. DoneResultCommitted' /\ RowShowsMessage'
    BY <1>1, <1>2, <1>5, <1>7, <2>1 DEF CommitInv, DoneResultCommitted, RowShowsMessage
  <2> QED
    BY <1>2, <1>4, <2>2 DEF CommitInv, DoneRowCommitted
<1> QED
  BY <1>6, <1>7 DEF Record

LEMMA CommitWorker ==
    ASSUME TypeInv, CommitInv, NEW w \in Worker, Works(w) \/ Disturbed(w)
    PROVE  CommitInv'
<1>1. CASE \/ StoreRefused(w) \/ RecordRefused(w) \/ StoreRaisesCron(w)
           \/ GiveUpRaises(w) \/ Crash(w)
  BY <1>1, CommitQuiet DEF StoreRefused, RecordRefused, StoreRaisesCron, GiveUpRaises, Crash
<1>2. CASE DeleteRaises(w) \/ RecordOperational(w)
  BY <1>2, CommitQuiet, CommitMarkFailed DEF DeleteRaises, RecordOperational
<1>3. CASE GiveUp(w)
  <2>1. /\ Leave(w) /\ snap' = [snap EXCEPT ![w] = "none"]
        /\ UNCHANGED <<qid, state, commits>>
    BY <1>3 DEF GiveUp, rowVars
  <2>2. \A v \in Worker \ {w} : snap'[v] = snap[v]
    BY <2>1 DEF TypeInv, TypeOK
  <2> QED
    BY <2>1, <2>2, CommitLeave DEF CommitInv, DoneRowCommitted
<1>4. CASE JobOk(w) \/ CommitLate(w)
  <2>1. cur[w] \in Id
    BY <1>4, HolderHasId DEF JobOk, CommitLate, TypeInv
  <2>2. /\ commits' = [commits EXCEPT ![cur[w]] = commits[cur[w]] + 1]
        /\ commits \in [Id -> Nat] /\ commits[cur[w]] \in Nat
    BY <1>4, <2>1 DEF JobOk, CommitLate, TypeInv, TypeOK
  <2>3. /\ \A c \in Id : commits[c] > 0 => commits'[c] > 0
        /\ commits'[cur[w]] > 0
    BY <2>1, <2>2
  <2>4. /\ UNCHANGED <<qid, state, snap, cur, rec>> /\ pc[w] \notin {"idle", "got"}
        /\ \A v \in Worker \ {w} : pc'[v] = pc[v] /\ out'[v] = out[v]
        /\ pc'[w] \notin {"idle", "got", "running"}
    BY <1>4 DEF JobOk, CommitLate, Ends, rowVars, TypeInv, TypeOK
  <2> QED
    BY <2>3, <2>4, CommitJob
<1>5. CASE JobFails(w) \/ JobAgain(w) \/ JobOperational(w) \/ DeleteRaisesOnce(w)
  <2>1. PICK x \in {"imqerror", "terminated", "failed", "retry", "psycopg2_Error"},
             p \in {"over", "ran"} : Ends(w, x, p)
    BY <1>5 DEF JobFails, JobAgain, JobOperational, DeleteRaisesOnce
  <2>2. commits' = commits /\ pc[w] \notin {"idle", "got"}
    BY <1>5 DEF JobFails, JobAgain, JobOperational, DeleteRaisesOnce
  <2>3. /\ UNCHANGED <<qid, state, snap, cur, rec>>
        /\ \A v \in Worker \ {w} : pc'[v] = pc[v] /\ out'[v] = out[v]
        /\ pc'[w] = p /\ out'[w] = x
    BY <2>1 DEF Ends, rowVars, TypeInv, TypeOK
  <2> QED
    BY <2>2, <2>3, CommitJob
<1>6. CASE Delete(w)
  <2>1. /\ UNCHANGED <<qid, state, snap, cur, rec, out, commits>>
        /\ pc[w] = "over" /\ pc'[w] \in {"late", "ran"}
        /\ \A v \in Worker \ {w} : pc'[v] = pc[v]
    BY <1>6 DEF Delete, rowVars, TypeInv, TypeOK
  <2> QED
    BY <2>1, CommitJob DEF CommitInv, DoneResultCommitted
<1> QED
  BY <1>1, <1>2, <1>3, <1>4, <1>5, <1>6, CommitStored, CommitRecord DEF Works, Disturbed

LEMMA CommitStep == TypeInv /\ CommitInv /\ [Next]_vars => CommitInv'
<1> SUFFICES ASSUME TypeInv, CommitInv, [Next]_vars
             PROVE  CommitInv'
  OBVIOUS
<1>1. ASSUME NEW w \in Worker, NEW c \in Id, Receive(w, c)
      PROVE  CommitInv'
  <2>1. /\ UNCHANGED <<qid, state, out, commits>> /\ pc[w] = "idle" /\ pc'[w] = "got"
        /\ \A v \in Worker \ {w} : /\ pc'[v] = pc[v] /\ cur'[v] = cur[v]
                                   /\ rec'[v] = rec[v] /\ snap'[v] = snap[v]
    BY <1>1 DEF Receive, rowVars, TypeInv, TypeOK
  <2>2. DoneResultCommitted' /\ RowShowsMessage'
    BY <2>1 DEF CommitInv, DoneResultCommitted, RowShowsMessage
  <2> QED
    BY <2>1, <2>2 DEF CommitInv, DoneRowCommitted
<1>2. ASSUME NEW c \in Id, RetryCommit(c)
      PROVE  CommitInv'
  <2>1. PICK r \in Row : r = origin[c]
    BY <1>2 DEF RetryCommit, TypeInv, TypeOK
  <2>2. /\ state'[r] = "retry" /\ UNCHANGED <<pc, cur, rec, out, commits>>
        /\ \A q \in Row \ {r} : state'[q] = state[q] /\ qid'[q] = qid[q]
    BY <1>2, <2>1 DEF RetryCommit, TypeInv, TypeOK
  <2>3. \A v \in Worker : snap'[v] = "fresh" => snap[v] = "fresh" /\ rec[v] # r
    BY <1>2, <2>1 DEF RetryCommit, TouchedWorkers
  <2>4. RowShowsMessage'
    <3> SUFFICES ASSUME NEW v \in Worker, pc[v] \notin {"idle", "got"}, snap'[v] = "fresh"
                 PROVE  qid'[rec[v]] = cur[v]
      BY <2>2 DEF RowShowsMessage
    <3>1. rec[v] \in Row \ {r}
      BY <2>3 DEF TypeInv, TypeOK
    <3> QED
      BY <2>2, <2>3, <3>1 DEF CommitInv, RowShowsMessage
  <2> QED
    BY <2>2, <2>4 DEF CommitInv, DoneRowCommitted, DoneResultCommitted
<1>3. ASSUME UNCHANGED <<qid, state, pc, cur, rec, snap, out, commits>>
      PROVE  CommitInv'
  BY <1>3 DEF CommitInv, DoneRowCommitted, DoneResultCommitted, RowShowsMessage
<1>4. ASSUME NEW c \in Id, \/ SendMessage(c) \/ RetryAbort(c) \/ Timeout(c) \/ Overrun(c)
                           \/ \E r \in Row : RetrySend(r, c)
      PROVE  CommitInv'
  BY <1>3, <1>4 DEF SendMessage, RetryAbort, Timeout, Overrun, Overdue, RetrySend, rowVars
<1>5. CASE UNCHANGED vars
  BY <1>3, <1>5 DEF vars
<1> QED
  BY <1>1, <1>2, <1>4, <1>5, CommitWorker DEF Next

(* A row is done only if the job of the message it shows committed: whatever
   fails between the database and SQS, is delivered twice or retried. *)
THEOREM DoneOnlyIfCommitted == Spec => []DoneIsCommitted
<1>1. Init => CommitInv
  BY DEF Init, CommitInv, DoneRowCommitted, DoneResultCommitted, RowShowsMessage
<1>2. CommitInv => DoneIsCommitted
  BY DEF CommitInv, DoneRowCommitted, DoneIsCommitted
<1> QED
  BY <1>1, <1>2, TypeInit, TypeStep, CommitStep, PTL DEF Spec

-----------------------------------------------------------------------------
(* What a step of a worker changes. *)

OneMoreState == RowState \ {"none"}

(* w has stored its message. *)
Past(w) == pc[w] \notin {"idle", "got"}

(* The other workers and the other messages are left alone. *)
OthersSame(w) ==
    /\ \A v \in Worker : v # w =>
           /\ pc'[v] = pc[v] /\ cur'[v] = cur[v] /\ rec'[v] = rec[v]
           /\ last'[v] = last[v] /\ out'[v] = out[v]
    /\ \A d \in Id : d # cur[w] => remote'[d] = remote[d]
    /\ origin' = origin

(* w has left, or has still its message and stored it. *)
Gone(w) == pc'[w] = "idle" /\ cur'[w] = NoId /\ rec'[w] = NoRow

Stays(w) == pc'[w] \notin {"idle", "got"} /\ cur'[w] = cur[w]

(* A write of row r makes the snapshots of others stale that show it. *)
Touches(w, r) ==
    /\ \A v \in Worker : v # w =>
           snap'[v] = IF rec[v] = r /\ snap[v] = "fresh" THEN "stale" ELSE snap[v]
    /\ \A d \in Id :
           retrial'[d] = IF origin[d] = r /\ retrial[d] = "open" THEN "stale" ELSE retrial[d]

Silent(w) ==
    /\ UNCHANGED <<qid, state, attempt, retrial>>
    /\ \A v \in Worker : v # w => snap'[v] = snap[v]
    /\ Gone(w) \/ (Past(w) /\ Stays(w) /\ rec'[w] = rec[w] /\ snap'[w] = snap[w])

(* w writes the row it knows. *)
Rewrites(w) ==
    /\ rec[w] \in Row /\ snap[w] = "fresh" /\ qid' = qid
    /\ state'[rec[w]] \in OneMoreState
    /\ attempt'[rec[w]] \in {attempt[rec[w]], attempt[rec[w]] + 1}
    /\ \A r \in Row : r # rec[w] => state'[r] = state[r] /\ attempt'[r] = attempt[r]
    /\ Touches(w, rec[w])
    /\ Gone(w) \/ (Stays(w) /\ rec'[w] = rec[w])

(* w makes a row for its message. *)
Creates(w, r) ==
    /\ pc[w] = "got" /\ rec[w] = NoRow /\ NewRow(r) /\ IdFree(cur[w])
    /\ qid'[r] = cur[w] /\ state'[r] \in OneMoreState /\ attempt'[r] = attempt[r] + 1
    /\ \A s \in Row : s # r => qid'[s] = qid[s] /\ state'[s] = state[s] /\ attempt'[s] = attempt[s]
    /\ Touches(w, r)
    /\ Gone(w) \/ (Stays(w) /\ rec'[w] = r)

(* At SQS the message of w is as it was, deleted, or visible again. *)
MessageKept(w) ==
    \/ remote' = remote
    \/ remote' = [remote EXCEPT ![cur[w]] = "deleted"] /\ pc[w] \in {"over", "giveup"}
    \/ /\ remote' = [remote EXCEPT ![cur[w]] = "visible"]
       /\ Visibility = "zero" /\ remote[cur[w]] = w

LEMMA LeaveGone ==
    ASSUME TypeInv, NEW w \in Worker, Leave(w)
    PROVE  /\ Gone(w)
           /\ \A v \in Worker : v # w =>
                  /\ pc'[v] = pc[v] /\ cur'[v] = cur[v] /\ rec'[v] = rec[v]
                  /\ last'[v] = last[v] /\ out'[v] = out[v]
BY DEF Leave, Gone, TypeInv, TypeOK

LEMMA WroteTouches ==
    ASSUME TypeInv, NEW w \in Worker, NEW r, NEW s, Wrote(w, r, s)
    PROVE  Touches(w, r) /\ snap'[w] = s
BY DEF Wrote, Touches, TouchedWorkers, TouchedRetrials, TypeInv, TypeOK

LEMMA QuietEffect ==
    ASSUME TypeInv, NEW w \in Worker, LeaveQuietly(w)
    PROVE  OthersSame(w) /\ MessageKept(w) /\ Silent(w)
<1>1. /\ Leave(w) /\ snap' = [snap EXCEPT ![w] = "none"]
      /\ UNCHANGED <<remote, origin, retrial, qid, state, attempt>>
  BY DEF LeaveQuietly, sqsVars, rowVars
<1>2. \A v \in Worker : v # w => snap'[v] = snap[v]
  BY <1>1 DEF TypeInv, TypeOK
<1> QED
  BY <1>1, <1>2, LeaveGone DEF OthersSame, MessageKept, Silent

LEMMA EndsEffect ==
    ASSUME TypeInv, NEW w \in Worker, NEW x, NEW p \in {"over", "ran"}, Ends(w, x, p), Past(w)
    PROVE  OthersSame(w) /\ MessageKept(w) /\ Silent(w) /\ pc'[w] = p /\ out'[w] = x
BY DEF Ends, sqsVars, rowVars, OthersSame, MessageKept, Silent, Stays, Past, TypeInv, TypeOK

LEMMA MarkFailedEffect ==
    ASSUME TypeInv, NEW w \in Worker, pc[w] \in {"over", "ran"}, snap[w] = "fresh", MarkFailed(w)
    PROVE  /\ OthersSame(w) /\ MessageKept(w) /\ Rewrites(w) /\ Gone(w)
           /\ state'[rec[w]] = "failed" /\ attempt' = attempt
<1>1. rec[w] \in Row
  BY DEF TypeInv, TypeOK
<1>2. /\ state' = [state EXCEPT ![rec[w]] = "failed"] /\ Wrote(w, rec[w], "none")
      /\ Leave(w) /\ UNCHANGED <<remote, origin, qid, attempt>>
  BY DEF MarkFailed
<1>3. Gone(w) /\ OthersSame(w) /\ MessageKept(w)
  BY <1>2, LeaveGone DEF OthersSame, MessageKept
<1>4. /\ state'[rec[w]] = "failed" /\ \A r \in Row : r # rec[w] => state'[r] = state[r]
      /\ "failed" \in OneMoreState
  BY <1>1, <1>2 DEF OneMoreState, RowState, Final, TypeInv, TypeOK
<1>5. Rewrites(w)
  BY <1>1, <1>2, <1>3, <1>4, WroteTouches DEF Rewrites
<1> QED
  BY <1>2, <1>3, <1>4, <1>5

(* What Target and WriteRow mean for the rows. *)
LEMMA WriteRowEffect ==
    ASSUME TypeInv, NEW w \in Worker, pc[w] = "got", NEW r \in Row, NEW s \in OneMoreState,
           Target(w, r), WriteRow(w, r, s), NEW t, Wrote(w, r, t),
           Gone(w) \/ (Stays(w) /\ rec'[w] = r),
           rec[w] # NoRow => qid[rec[w]] = cur[w] \/ snap[w] # "fresh"
    PROVE  /\ state'[r] = s /\ attempt'[r] = attempt[r] + 1 /\ snap'[w] = t
           /\ \/ rec[w] = r /\ Rewrites(w)
              \/ rec[w] = NoRow /\ Creates(w, r)
<1>1. /\ qid'[r] = cur[w] /\ state'[r] = s /\ attempt'[r] = attempt[r] + 1
      /\ \A q \in Row : q # r => qid'[q] = qid[q] /\ state'[q] = state[q] /\ attempt'[q] = attempt[q]
      /\ qid' = [qid EXCEPT ![r] = cur[w]]
  BY DEF WriteRow, TypeInv, TypeOK
<1>2. Touches(w, r) /\ snap'[w] = t
  BY WroteTouches
<1>3. CASE rec[w] # NoRow
  <2>1. rec[w] = r /\ snap[w] = "fresh" /\ qid[r] = cur[w]
    BY <1>3 DEF Target
  <2>2. qid' = qid
    BY <1>1, <2>1 DEF TypeInv, TypeOK
  <2> QED
    BY <1>1, <1>2, <2>1, <2>2 DEF Rewrites
<1>4. CASE rec[w] = NoRow
  BY <1>1, <1>2, <1>4 DEF Target, Creates
<1> QED
  BY <1>1, <1>2, <1>3, <1>4

-----------------------------------------------------------------------------
(* Which row shows which message. *)

OneRow == \A r, s \in Row : qid[r] = qid[s] /\ qid[r] # NoId => r = s

RowKnown ==
    /\ \A r \in Row : qid[r] = NoId => attempt[r] = 0
    /\ \A r \in Row : qid[r] = NoId <=> state[r] = "none"
    /\ \A c \in Id : retrial[c] # "none" => qid[origin[c]] # NoId
    /\ \A w \in Worker : rec[w] # NoRow => qid[rec[w]] # NoId /\ cur[w] # NoId

(* Ids are used in their order, and only used ones are stored or retried. *)
SentInv ==
    /\ \A r \in Row : qid[r] # NoId => remote[qid[r]] # "none"
    /\ \A c \in Id : retrial[c] # "none" => remote[c] # "none"
    /\ \A w \in Worker : cur[w] # NoId => remote[cur[w]] # "none"
    /\ \A c, d \in Id : d < c /\ remote[c] # "none" => remote[d] # "none"

(* An open retry is later than whatever its row shows and than those committed
   for it; the row shows its last committed retry as long as no worker has
   stored another message there, which none does. *)
RetryInv ==
    /\ \A c \in Id : retrial[c] = "open" => qid[origin[c]] < c
    /\ \A c, d \in Id : retrial[c] = "committed" /\ retrial[d] = "open" /\ origin[c] = origin[d]
                        => c < d
    /\ \A c \in Id : retrial[c] = "committed" =>
           \/ qid[origin[c]] = c
           \/ \E d \in Id : d > c /\ origin[d] = origin[c] /\ retrial[d] = "committed"
    /\ \A c \in Id : retrial[c] \in {"open", "stale"} => qid[origin[c]] # c

(* Row r has been retried since it showed c. *)
MovedOn(r, c) == qid[r] \in Id /\ qid[r] > c /\ retrial[qid[r]] = "committed" /\ origin[qid[r]] = r

(* The row a worker knows shows its message, or was retried since; it is not
   the row of a retry that has yet to commit. *)
HolderInv ==
    \A w \in Worker : rec[w] # NoRow =>
        /\ snap[w] = "fresh" => qid[rec[w]] = cur[w]
        /\ qid[rec[w]] = cur[w] \/ MovedOn(rec[w], cur[w])
        /\ retrial[cur[w]] \in {"open", "stale"} => rec[w] # origin[cur[w]]

Outrun(c) == \E d \in Id : d > c /\ retrial[d] = "committed" /\ origin[d] # origin[c]

(* The message of a retry that has yet to commit was deleted by a worker that
   stored it in another row. *)
DeletedOpen ==
    \A c \in Id : remote[c] = "deleted" /\ retrial[c] \in {"open", "stale"} =>
        Stored(c) \/ Outrun(c)

LinkInv == OneRow /\ RowKnown /\ SentInv /\ RetryInv /\ HolderInv /\ DeletedOpen

(* Every step of a worker is of one of three kinds. *)
LEMMA WorkerEffect ==
    ASSUME TypeInv, HolderInv, NEW w \in Worker, Works(w) \/ Disturbed(w)
    PROVE  /\ OthersSame(w) /\ MessageKept(w)
           /\ Silent(w) \/ Rewrites(w) \/ \E r \in Row : Creates(w, r)
<1>1. CASE \/ StoreRefused(w) \/ RecordRefused(w) \/ StoreRaisesCron(w) \/ GiveUpRaises(w)
           \/ Crash(w)
  BY <1>1, QuietEffect DEF StoreRefused, RecordRefused, StoreRaisesCron, GiveUpRaises, Crash
<1>2. CASE \/ JobOk(w) \/ JobFails(w) \/ JobAgain(w) \/ JobOperational(w) \/ CommitLate(w)
           \/ DeleteRaisesOnce(w)
  <2>1. PICK x \in {"done", "imqerror", "terminated", "failed", "retry", "psycopg2_Error"},
             p \in {"over", "ran"} : Ends(w, x, p) /\ Past(w)
    BY <1>2 DEF Past, JobOk, JobFails, JobAgain, JobOperational, CommitLate, DeleteRaisesOnce
  <2> QED
    BY <2>1, EndsEffect
<1>3. CASE DeleteRaises(w) \/ RecordOperational(w)
  BY <1>3, QuietEffect, MarkFailedEffect DEF DeleteRaises, RecordOperational
<1>4. CASE Store(w)
  <2>1. PICK r \in Row : /\ Target(w, r) /\ WriteRow(w, r, "wip") /\ Wrote(w, r, "fresh")
                         /\ rec' = [rec EXCEPT ![w] = r]
                         /\ last' = [last EXCEPT ![w] = attempt[r] + 1 >= MaxAttempt]
    BY <1>4 DEF Store
  <2>2. pc[w] = "got" /\ pc' = [pc EXCEPT ![w] = "running"] /\ remote' = AfterChange(w)
        /\ UNCHANGED <<origin, cur, out>>
    BY <1>4 DEF Store
  <2>3. OthersSame(w) /\ Stays(w) /\ rec'[w] = r
    BY <2>1, <2>2 DEF OthersSame, Stays, AfterChange, TypeInv, TypeOK
  <2>4. MessageKept(w)
    BY <2>2 DEF MessageKept, AfterChange
  <2>5. "wip" \in OneMoreState
    BY DEF OneMoreState, RowState
  <2>6. Rewrites(w) \/ Creates(w, r)
    BY <2>1, <2>2, <2>3, <2>5, WriteRowEffect DEF HolderInv
  <2> QED
    BY <2>3, <2>4, <2>6
<1>5. CASE StoreMarksFailed(w)
  <2>1. PICK r \in Row : Target(w, r) /\ WriteRow(w, r, "failed") /\ Wrote(w, r, "none")
    BY <1>5 DEF StoreMarksFailed
  <2>2. pc[w] = "got" /\ Leave(w) /\ UNCHANGED <<remote, origin>>
    BY <1>5 DEF StoreMarksFailed
  <2>3. OthersSame(w) /\ Gone(w) /\ MessageKept(w)
    BY <2>2, LeaveGone DEF OthersSame, MessageKept
  <2>4. "failed" \in OneMoreState
    BY DEF OneMoreState, RowState, Final
  <2>5. Rewrites(w) \/ Creates(w, r)
    BY <2>1, <2>2, <2>3, <2>4, WriteRowEffect DEF HolderInv
  <2> QED
    BY <2>3, <2>5
<1>6. CASE Delete(w)
  <2>1. /\ pc[w] = "over" /\ Deleted(w) /\ pc' = [pc EXCEPT ![w] = IF out[w] = "imqerror" THEN "late" ELSE "ran"]
        /\ UNCHANGED <<origin, retrial, qid, state, attempt, cur, rec, snap, last, out>>
    BY <1>6 DEF Delete, rowVars
  <2> QED
    BY <2>1 DEF Deleted, OthersSame, MessageKept, Silent, Stays, Past, TypeInv, TypeOK
<1>7. CASE GiveUp(w)
  <2>1. /\ pc[w] = "giveup" /\ Deleted(w) /\ Leave(w) /\ snap' = [snap EXCEPT ![w] = "none"]
        /\ UNCHANGED <<origin, retrial, qid, state, attempt>>
    BY <1>7 DEF GiveUp, rowVars
  <2>2. Gone(w)
    BY <2>1, LeaveGone
  <2> QED
    BY <2>1, <2>2, LeaveGone DEF Deleted, OthersSame, MessageKept, Silent, TypeInv, TypeOK
<1>8. CASE Record(w)
  <2>1. /\ pc[w] = "ran" /\ out[w] # "psycopg2_Error" /\ snap[w] = "fresh"
        /\ state' = [state EXCEPT ![rec[w]] = out[w]]
        /\ UNCHANGED <<remote, origin, qid, attempt>>
    BY <1>8 DEF Record
  <2>2. rec[w] \in Row /\ out[w] \in OneMoreState
    BY <2>1 DEF TypeInv, TypeOK, OneMoreState, RowState, Final
  <2>3. /\ state'[rec[w]] = out[w] /\ \A r \in Row : r # rec[w] => state'[r] = state[r]
    BY <2>1, <2>2 DEF TypeInv, TypeOK
  <2>4. CASE Leave(w) /\ Wrote(w, rec[w], "none")
    <3>1. OthersSame(w) /\ Gone(w) /\ MessageKept(w)
      BY <2>1, <2>4, LeaveGone DEF OthersSame, MessageKept
    <3> QED
      BY <2>1, <2>2, <2>3, <2>4, <3>1, WroteTouches DEF Rewrites
  <2>5. CASE /\ pc' = [pc EXCEPT ![w] = "giveup"] /\ UNCHANGED <<cur, rec, last, out>>
             /\ Wrote(w, rec[w], "fresh")
    <3>1. OthersSame(w) /\ Stays(w) /\ MessageKept(w)
      BY <2>1, <2>5 DEF OthersSame, Stays, MessageKept, TypeInv, TypeOK
    <3> QED
      BY <2>1, <2>2, <2>3, <2>5, <3>1, WroteTouches DEF Rewrites
  <2> QED
    BY <1>8, <2>4, <2>5 DEF Record
<1> QED
  BY <1>1, <1>2, <1>3, <1>4, <1>5, <1>6, <1>7, <1>8 DEF Works, Disturbed

(* Retries only get older, ids stay used, and holders keep their rows. *)
RetriesKept ==
    \A c \in Id : retrial'[c] = retrial[c] \/ (retrial[c] = "open" /\ retrial'[c] = "stale")

IdsKept == \A c \in Id : remote'[c] = "none" <=> remote[c] = "none"

HoldersKept ==
    \A v \in Worker : rec'[v] # NoRow =>
        rec'[v] = rec[v] /\ cur'[v] = cur[v] /\ (snap'[v] = "fresh" => snap[v] = "fresh")

LEMMA WorkerKeeps ==
    ASSUME TypeInv, LinkInv, NEW w \in Worker, OthersSame(w), MessageKept(w), pc[w] # "idle"
    PROVE  /\ IdsKept
           /\ \A c \in Id : remote'[c] = "deleted" =>
                  remote[c] = "deleted" \/ (c = cur[w] /\ pc[w] \in {"over", "giveup"})
           /\ Silent(w) \/ Rewrites(w) => RetriesKept /\ HoldersKept /\ qid' = qid
           /\ \A r \in Row : Creates(w, r) => RetriesKept
<1>1. cur[w] \in Id /\ remote[cur[w]] # "none"
  <2>1. cur[w] \in Id
    BY HolderHasId DEF TypeInv
  <2> QED
    BY <2>1, IdAssumption DEF LinkInv, SentInv
<1>2. /\ IdsKept
      /\ \A c \in Id : remote'[c] = "deleted" =>
             remote[c] = "deleted" \/ (c = cur[w] /\ pc[w] \in {"over", "giveup"})
  BY <1>1, WorkerAssumption DEF IdsKept, MessageKept, TypeInv, TypeOK
<1>3. Silent(w) \/ Rewrites(w) => RetriesKept /\ HoldersKept /\ qid' = qid
  <2>1. CASE Silent(w)
    BY <2>1 DEF Silent, OthersSame, Gone, Stays, RetriesKept, HoldersKept
  <2>2. CASE Rewrites(w)
    BY <2>2 DEF Rewrites, Touches, OthersSame, Gone, Stays, RetriesKept, HoldersKept
  <2> QED
    BY <2>1, <2>2
<1>4. \A r \in Row : Creates(w, r) => RetriesKept
  BY DEF Creates, Touches, RetriesKept
<1> QED
  BY <1>2, <1>3, <1>4

(* Nothing about retries and rows changes as long as the rows show what they
   showed before. *)
LEMMA RetryKept ==
    ASSUME TypeInv, LinkInv, UNCHANGED <<qid, origin>>, RetriesKept, IdsKept, HoldersKept,
           \A w \in Worker : cur'[w] # NoId => cur'[w] = cur[w]
    PROVE  OneRow' /\ SentInv' /\ RetryInv' /\ HolderInv'
<1>1. OneRow' /\ SentInv'
  <2>1. OneRow'
    BY DEF LinkInv, OneRow
  <2>2. /\ \A r \in Row : qid[r] # NoId => qid[r] \in Id
        /\ \A w \in Worker : cur'[w] # NoId => cur'[w] = cur[w] /\ cur[w] \in Id
    BY DEF TypeInv, TypeOK
  <2>3. \A c \in Id : retrial'[c] # "none" => retrial[c] # "none"
    BY DEF RetriesKept
  <2> QED
    BY <2>1, <2>2, <2>3 DEF LinkInv, SentInv, IdsKept
<1>2. RetryInv'
  <2>1. \A c \in Id : retrial'[c] = "committed" <=> retrial[c] = "committed"
    BY DEF RetriesKept
  <2>2. \A c \in Id : retrial'[c] = "open" => retrial[c] = "open"
    BY DEF RetriesKept
  <2>3. \A c \in Id : retrial'[c] \in {"open", "stale"} => retrial[c] \in {"open", "stale"}
    BY DEF RetriesKept
  <2> QED
    BY <2>1, <2>2, <2>3 DEF LinkInv, RetryInv
<1>3. HolderInv'
  <2> SUFFICES ASSUME NEW v \in Worker, rec'[v] # NoRow
               PROVE  /\ snap'[v] = "fresh" => qid[rec[v]] = cur[v]
                      /\ qid[rec[v]] = cur[v] \/ MovedOn(rec[v], cur[v])'
                      /\ retrial'[cur[v]] \in {"open", "stale"} => rec[v] # origin[cur[v]]
    BY DEF HolderInv, HoldersKept, MovedOn
  <2>1. /\ rec[v] # NoRow /\ cur'[v] = cur[v] /\ rec'[v] = rec[v]
        /\ snap'[v] = "fresh" => snap[v] = "fresh"
    BY DEF HoldersKept
  <2>2. /\ snap[v] = "fresh" => qid[rec[v]] = cur[v]
        /\ qid[rec[v]] = cur[v] \/ MovedOn(rec[v], cur[v])
        /\ retrial[cur[v]] \in {"open", "stale"} => rec[v] # origin[cur[v]]
    BY <2>1 DEF LinkInv, HolderInv
  <2>3. MovedOn(rec[v], cur[v]) => MovedOn(rec[v], cur[v])'
    BY <2>1 DEF MovedOn, RetriesKept
  <2>4. cur[v] \in Id
    BY <2>1 DEF LinkInv, RowKnown, TypeInv, TypeOK
  <2>5. retrial'[cur[v]] \in {"open", "stale"} => retrial[cur[v]] \in {"open", "stale"}
    BY <2>4 DEF RetriesKept
  <2> QED
    BY <2>1, <2>2, <2>3, <2>5
<1> QED
  BY <1>1, <1>2, <1>3

LEMMA OutrunKept ==
    ASSUME RetriesKept, origin' = origin, NEW c, Outrun(c)
    PROVE  Outrun(c)'
BY DEF RetriesKept, Outrun

(* What a worker deletes was stored in its row, which shows it or was retried. *)
LEMMA DeletedKept ==
    ASSUME TypeInv, LinkInv, NEW w \in Worker, RetriesKept, origin' = origin,
           \A c \in Id : remote'[c] = "deleted" =>
               remote[c] = "deleted" \/ (c = cur[w] /\ pc[w] \in {"over", "giveup"}),
           \A r \in Row : qid[r] # NoId => qid'[r] = qid[r]
    PROVE  DeletedOpen'
<1> SUFFICES ASSUME NEW c \in Id, remote'[c] = "deleted", retrial'[c] \in {"open", "stale"}
             PROVE  Stored(c)' \/ Outrun(c)'
  BY DEF DeletedOpen
<1>1. retrial[c] \in {"open", "stale"}
  BY DEF RetriesKept
<1>2. Stored(c) => Stored(c)'
  BY IdAssumption DEF Stored
<1>3. CASE remote[c] = "deleted"
  BY <1>1, <1>2, <1>3, OutrunKept DEF LinkInv, DeletedOpen
<1>4. CASE c = cur[w] /\ pc[w] \in {"over", "giveup"}
  <2>1. rec[w] \in Row
    BY <1>4 DEF TypeInv, TypeOK
  <2>2. /\ qid[rec[w]] = c \/ MovedOn(rec[w], c)
        /\ rec[w] # origin[c]
    BY <1>1, <1>4, <2>1, IdAssumption DEF LinkInv, HolderInv
  <2>3. CASE qid[rec[w]] = c
    BY <1>2, <2>1, <2>3 DEF Stored
  <2>4. CASE MovedOn(rec[w], c)
    <3>1. Outrun(c)
      BY <2>2, <2>4 DEF MovedOn, Outrun
    <3> QED
      BY <3>1, OutrunKept
  <2> QED
    BY <2>2, <2>3, <2>4
<1> QED
  BY <1>3, <1>4

LEMMA LinkWritten ==
    ASSUME TypeInv, LinkInv, NEW w \in Worker, pc[w] # "idle", OthersSame(w), MessageKept(w),
           Silent(w) \/ Rewrites(w)
    PROVE  LinkInv'
<1>1. /\ IdsKept /\ RetriesKept /\ HoldersKept /\ UNCHANGED <<qid, origin>>
      /\ \A c \in Id : remote'[c] = "deleted" =>
             remote[c] = "deleted" \/ (c = cur[w] /\ pc[w] \in {"over", "giveup"})
  BY WorkerKeeps DEF OthersSame
<1>2. \A v \in Worker : cur'[v] # NoId => cur'[v] = cur[v]
  BY DEF OthersSame, Silent, Rewrites, Gone, Stays
<1>3. OneRow' /\ SentInv' /\ RetryInv' /\ HolderInv'
  BY <1>1, <1>2, RetryKept
<1>4. DeletedOpen'
  BY <1>1, DeletedKept
<1>5. RowKnown'
  <2>1. \A r \in Row : (state'[r] = "none" <=> state[r] = "none")
                       /\ (qid[r] = NoId => attempt'[r] = attempt[r])
    <3>1. CASE Silent(w)
      BY <3>1 DEF Silent
    <3>2. CASE Rewrites(w)
      <4>1. qid[rec[w]] # NoId /\ state[rec[w]] # "none" /\ state'[rec[w]] # "none"
        BY <3>2, IdAssumption DEF Rewrites, OneMoreState, LinkInv, RowKnown
      <4> QED
        BY <3>2, <4>1 DEF Rewrites
    <3> QED
      BY <3>1, <3>2
  <2>2. \A c \in Id : retrial'[c] # "none" => retrial[c] # "none"
    BY <1>1 DEF RetriesKept
  <2>3. \A v \in Worker : rec'[v] # NoRow => rec[v] # NoRow /\ rec'[v] = rec[v] /\ cur'[v] = cur[v]
    BY <1>1 DEF HoldersKept
  <2> QED
    BY <1>1, <2>1, <2>2, <2>3 DEF LinkInv, RowKnown
<1> QED
  BY <1>3, <1>4, <1>5 DEF LinkInv

LEMMA LinkCreated ==
    ASSUME TypeInv, LinkInv, NEW w \in Worker, OthersSame(w), MessageKept(w), NEW r \in Row,
           Creates(w, r)
    PROVE  LinkInv'
<1>1. /\ pc[w] = "got" /\ rec[w] = NoRow /\ qid[r] = NoId /\ ~Stored(cur[w])
      /\ qid'[r] = cur[w] /\ state'[r] \in OneMoreState
      /\ \A s \in Row : s # r => qid'[s] = qid[s] /\ state'[s] = state[s] /\ attempt'[s] = attempt[s]
      /\ origin' = origin
      /\ \A v \in Worker : v # w => cur'[v] = cur[v] /\ rec'[v] = rec[v]
      /\ \A v \in Worker : v # w => (snap'[v] = "fresh" => snap[v] = "fresh")
      /\ (rec'[w] = NoRow /\ cur'[w] = NoId) \/ (rec'[w] = r /\ cur'[w] = cur[w])
  BY DEF Creates, NewRow, IdFree, OthersSame, Touches, Gone, Stays
<1>2. cur[w] \in Id /\ cur[w] # NoId
  BY <1>1, HolderHasId, IdAssumption DEF TypeInv
<1>3. /\ IdsKept /\ RetriesKept
      /\ \A c \in Id : remote'[c] = "deleted" =>
             remote[c] = "deleted" \/ (c = cur[w] /\ pc[w] \in {"over", "giveup"})
  BY <1>1, WorkerKeeps
<1>4. /\ \A c \in Id : retrial[c] # "none" => origin[c] \in Row /\ origin[c] # r
                                              /\ qid'[origin[c]] = qid[origin[c]]
      /\ \A v \in Worker : rec[v] # NoRow => rec[v] \in Row /\ rec[v] # r
                                             /\ qid'[rec[v]] = qid[rec[v]]
  BY <1>1 DEF LinkInv, RowKnown, TypeInv, TypeOK
<1>5. \A c \in Id : /\ retrial'[c] = "committed" <=> retrial[c] = "committed"
                    /\ retrial'[c] = "open" => retrial[c] = "open"
                    /\ retrial'[c] \in {"open", "stale"} => retrial[c] \in {"open", "stale"}
                    /\ retrial'[c] # "none" => retrial[c] # "none"
  BY <1>3 DEF RetriesKept
<1>6. OneRow'
  BY <1>1, <1>2 DEF LinkInv, OneRow, Stored
<1>7. RowKnown'
  <2>1. \A s \in Row : (qid'[s] = NoId => attempt'[s] = 0) /\ (qid'[s] = NoId <=> state'[s] = "none")
    BY <1>1, <1>2 DEF LinkInv, RowKnown, OneMoreState
  <2>2. \A c \in Id : retrial'[c] # "none" => qid'[origin[c]] # NoId
    BY <1>4, <1>5 DEF LinkInv, RowKnown
  <2>3. \A v \in Worker : rec'[v] # NoRow => qid'[rec'[v]] # NoId /\ cur'[v] # NoId
    BY <1>1, <1>2, <1>4 DEF LinkInv, RowKnown
  <2> QED
    BY <1>1, <2>1, <2>2, <2>3 DEF RowKnown
<1>8. SentInv'
  <2>1. \A s \in Row : qid'[s] # NoId => qid'[s] \in Id /\ remote'[qid'[s]] # "none"
    BY <1>1, <1>2, <1>3 DEF LinkInv, SentInv, IdsKept, TypeInv, TypeOK
  <2>2. \A v \in Worker : cur'[v] # NoId => cur'[v] = cur[v] /\ cur[v] \in Id
    BY <1>1 DEF TypeInv, TypeOK
  <2> QED
    BY <1>3, <1>5, <2>1, <2>2 DEF LinkInv, SentInv, IdsKept
<1>9. RetryInv'
  BY <1>1, <1>4, <1>5 DEF LinkInv, RetryInv
<1>10. HolderInv'
  <2> SUFFICES ASSUME NEW v \in Worker, rec'[v] # NoRow
               PROVE  /\ snap'[v] = "fresh" => qid'[rec'[v]] = cur'[v]
                      /\ qid'[rec'[v]] = cur'[v] \/ MovedOn(rec[v], cur[v])'
                      /\ retrial'[cur'[v]] \in {"open", "stale"} => rec'[v] # origin[cur'[v]]
    BY <1>1 DEF HolderInv, MovedOn
  <2>1. CASE v = w
    BY <1>1, <1>2, <1>4, <1>5, <2>1
  <2>2. CASE v # w
    <3>1. /\ rec[v] # NoRow /\ cur'[v] = cur[v] /\ rec'[v] = rec[v] /\ cur[v] \in Id
          /\ qid'[rec[v]] = qid[rec[v]] /\ (snap'[v] = "fresh" => snap[v] = "fresh")
      BY <1>1, <1>4, <2>2 DEF LinkInv, RowKnown, TypeInv, TypeOK
    <3>2. MovedOn(rec[v], cur[v]) => MovedOn(rec[v], cur[v])'
      BY <1>1, <1>5, <3>1 DEF MovedOn
    <3> QED
      BY <1>5, <3>1, <3>2 DEF LinkInv, HolderInv
  <2> QED
    BY <2>1, <2>2
<1>11. DeletedOpen'
  BY <1>1, <1>3, DeletedKept
<1> QED
  BY <1>6, <1>7, <1>8, <1>9, <1>10, <1>11 DEF LinkInv

(* A delivery: the receiver knows the row that shows the message. *)
LEMMA LinkReceive ==
    ASSUME TypeInv, LinkInv, NEW w \in Worker, NEW c \in Id, Receive(w, c)
    PROVE  LinkInv'
<1>1. PICK q \in Row \cup {NoRow} :
          /\ rec' = [rec EXCEPT ![w] = q]
          /\ q # NoRow => qid[q] = c
  <2>1. Stored(c) => (CHOOSE r \in Row : qid[r] = c) \in Row /\ qid[CHOOSE r \in Row : qid[r] = c] = c
    BY DEF Stored
  <2> QED
    BY <2>1 DEF Receive
<1>2. /\ cur'[w] = c /\ rec'[w] = q /\ remote[c] = "visible" /\ remote'[c] = w
      /\ \A v \in Worker : v # w => cur'[v] = cur[v] /\ rec'[v] = rec[v] /\ snap'[v] = snap[v]
      /\ \A d \in Id : d # c => remote'[d] = remote[d]
      /\ UNCHANGED <<origin, retrial, qid, state, attempt>>
  BY <1>1 DEF Receive, Pickable, rowVars, TypeInv, TypeOK
<1>3. c # NoId /\ w \notin {"none", "visible", "deleted"}
  BY IdAssumption, WorkerAssumption
<1>4. OneRow' /\ RetryInv'
  BY <1>2 DEF LinkInv, OneRow, RetryInv
<1>5. RowKnown'
  <2>1. \A v \in Worker : rec'[v] # NoRow => qid[rec'[v]] # NoId /\ cur'[v] # NoId
    BY <1>1, <1>2, <1>3 DEF LinkInv, RowKnown
  <2> QED
    BY <1>2, <2>1 DEF LinkInv, RowKnown
<1>6. SentInv'
  <2>1. IdsKept
    BY <1>2, <1>3 DEF IdsKept
  <2>2. /\ \A r \in Row : qid[r] # NoId => qid[r] \in Id
        /\ \A v \in Worker : v # w => (cur'[v] # NoId => cur'[v] = cur[v] /\ cur[v] \in Id)
    BY <1>2 DEF TypeInv, TypeOK
  <2>3. \A v \in Worker : cur'[v] # NoId => remote'[cur'[v]] # "none"
    BY <1>2, <1>3, <2>1, <2>2 DEF LinkInv, SentInv, IdsKept
  <2> QED
    BY <1>2, <2>1, <2>2, <2>3 DEF LinkInv, SentInv, IdsKept
<1>7. HolderInv'
  <2> SUFFICES ASSUME NEW v \in Worker, rec'[v] # NoRow
               PROVE  /\ snap'[v] = "fresh" => qid[rec'[v]] = cur'[v]
                      /\ qid[rec'[v]] = cur'[v] \/ MovedOn(rec'[v], cur'[v])
                      /\ retrial[cur'[v]] \in {"open", "stale"} => rec'[v] # origin[cur'[v]]
    BY <1>2 DEF HolderInv, MovedOn
  <2>1. CASE v = w
    BY <1>1, <1>2, <2>1 DEF LinkInv, RetryInv
  <2>2. CASE v # w
    BY <1>2, <2>2 DEF LinkInv, HolderInv
  <2> QED
    BY <2>1, <2>2
<1>8. DeletedOpen'
  BY <1>2, <1>3 DEF LinkInv, DeletedOpen, Stored, Outrun
<1> QED
  BY <1>4, <1>5, <1>6, <1>7, <1>8 DEF LinkInv

(* SQS makes a message visible, or a new one is sent. *)
LEMMA LinkSend ==
    ASSUME TypeInv, LinkInv, NEW c \in Id, UNCHANGED <<qid, state, attempt, cur, rec, snap>>,
           remote' = [remote EXCEPT ![c] = "visible"],
           \/ UNCHANGED <<origin, retrial>> /\ (remote[c] # "none" \/ NextId(c))
           \/ \E r \in Row : /\ qid[r] # NoId /\ NextId(c)
                             /\ origin' = [origin EXCEPT ![c] = r]
                             /\ retrial' = [retrial EXCEPT ![c] = "open"]
    PROVE  LinkInv'
<1>1. /\ remote'[c] = "visible" /\ \A d \in Id : d # c => remote'[d] = remote[d]
      /\ \A d \in Id : d # c => origin'[d] = origin[d] /\ retrial'[d] = retrial[d]
  BY DEF TypeInv, TypeOK
<1>2. /\ \A r \in Row : qid[r] # NoId => qid[r] \in Id
      /\ \A v \in Worker : cur[v] # NoId => cur[v] \in Id
      /\ \A d \in Id : d \in Nat
  BY IdAssumption DEF TypeInv, TypeOK
<1>3. \/ UNCHANGED <<origin, retrial>>
      \/ /\ remote[c] = "none" /\ retrial[c] = "none"
         /\ origin'[c] \in Row /\ qid[origin'[c]] # NoId /\ retrial'[c] = "open"
  BY DEF TypeInv, TypeOK, NextId, LinkInv, SentInv
<1>4. remote[c] # "none" \/ \A d \in Id : d < c => remote[d] # "none"
  BY DEF NextId
<1>5. OneRow' /\ RowKnown'
  BY <1>1, <1>3 DEF LinkInv, OneRow, RowKnown
<1>6. SentInv'
  <2>1. \A d \in Id : remote[d] # "none" => remote'[d] # "none"
    BY <1>1
  <2>2. \A d, e \in Id : e < d /\ remote'[d] # "none" => remote'[e] # "none"
    BY <1>1, <1>4, <2>1 DEF LinkInv, SentInv
  <2>3. \A d \in Id : retrial'[d] # "none" => remote'[d] # "none"
    BY <1>1 DEF LinkInv, SentInv
  <2> QED
    BY <1>2, <2>1, <2>2, <2>3 DEF LinkInv, SentInv
<1>7. CASE UNCHANGED <<origin, retrial>>
  <2>1. RetryInv' /\ HolderInv'
    BY <1>7 DEF LinkInv, RetryInv, HolderInv, MovedOn
  <2>2. DeletedOpen'
    BY <1>1, <1>7 DEF LinkInv, DeletedOpen, Stored, Outrun
  <2> QED
    BY <1>5, <1>6, <2>1, <2>2 DEF LinkInv
<1>8. CASE /\ remote[c] = "none" /\ retrial[c] = "none"
           /\ origin'[c] \in Row /\ qid[origin'[c]] # NoId /\ retrial'[c] = "open"
  <2>1. \A d \in Id : remote[d] # "none" => d < c
    <3> SUFFICES ASSUME NEW d \in Id, remote[d] # "none" PROVE d < c
      OBVIOUS
    <3>1. ~(c < d) /\ d # c
      BY <1>8 DEF LinkInv, SentInv
    <3> QED
      BY <1>2, <3>1
  <2>2. \A r \in Row : qid[r] # c /\ (qid[r] # NoId => qid[r] < c)
    BY <1>2, <1>8, <2>1, IdAssumption DEF LinkInv, SentInv
  <2>3. \A d \in Id : retrial[d] = "committed" => d < c
    BY <2>1 DEF LinkInv, SentInv
  <2>4. \A v \in Worker : cur[v] # c
    BY <1>8, IdAssumption DEF LinkInv, SentInv
  <2>5. RetryInv'
    <3>1. \A d \in Id : retrial'[d] = "open" => qid[origin'[d]] < d
      BY <1>1, <1>8, <2>2 DEF LinkInv, RetryInv
    <3>2. \A d, e \in Id : retrial'[d] = "committed" /\ retrial'[e] = "open"
                           /\ origin'[d] = origin'[e] => d < e
      BY <1>1, <1>8, <2>3 DEF LinkInv, RetryInv
    <3>3. \A d \in Id : retrial'[d] = "committed" =>
              \/ qid[origin'[d]] = d
              \/ \E e \in Id : e > d /\ origin'[e] = origin'[d] /\ retrial'[e] = "committed"
      <4> SUFFICES ASSUME NEW d \in Id, retrial'[d] = "committed", qid[origin'[d]] # d
                   PROVE  \E e \in Id : e > d /\ origin'[e] = origin'[d] /\ retrial'[e] = "committed"
        OBVIOUS
      <4>1. d # c /\ retrial[d] = "committed" /\ origin'[d] = origin[d]
        BY <1>1, <1>8
      <4>2. PICK e \in Id : e > d /\ origin[e] = origin[d] /\ retrial[e] = "committed"
        BY <4>1 DEF LinkInv, RetryInv
      <4>3. e # c
        BY <1>8, <4>2
      <4> QED
        BY <1>1, <4>1, <4>2, <4>3
    <3>4. \A d \in Id : retrial'[d] \in {"open", "stale"} => qid[origin'[d]] # d
      BY <1>1, <1>8, <2>2 DEF LinkInv, RetryInv
    <3> QED
      BY <3>1, <3>2, <3>3, <3>4 DEF RetryInv
  <2>6. HolderInv'
    <3>1. \A v \in Worker : rec[v] # NoRow => cur[v] \in Id /\ cur[v] # c
      BY <1>2, <2>4 DEF LinkInv, RowKnown
    <3>2. \A v \in Worker : MovedOn(rec[v], cur[v]) => MovedOn(rec[v], cur[v])'
      BY <1>1, <1>8 DEF MovedOn
    <3> QED
      BY <1>1, <3>1, <3>2 DEF LinkInv, HolderInv
  <2>7. DeletedOpen'
    <3> SUFFICES ASSUME NEW d \in Id, remote'[d] = "deleted", retrial'[d] \in {"open", "stale"}
                 PROVE  Stored(d)' \/ Outrun(d)'
      BY DEF DeletedOpen
    <3>1. d # c
      BY <1>1
    <3>2. Stored(d) \/ Outrun(d)
      BY <1>1, <3>1 DEF LinkInv, DeletedOpen
    <3>3. Outrun(d) => Outrun(d)'
      BY <1>1, <1>8, <3>1 DEF Outrun
    <3> QED
      BY <3>2, <3>3 DEF Stored
  <2> QED
    BY <1>5, <1>6, <2>5, <2>6, <2>7 DEF LinkInv
<1> QED
  BY <1>3, <1>7, <1>8

LEMMA LinkAbort ==
    ASSUME TypeInv, LinkInv, NEW c \in Id, RetryAbort(c)
    PROVE  LinkInv'
<1>1. /\ retrial[c] \in {"open", "stale"} /\ retrial'[c] = "aborted"
      /\ \A d \in Id : d # c => retrial'[d] = retrial[d]
      /\ UNCHANGED <<remote, origin, qid, state, attempt, cur, rec, snap>>
  BY DEF RetryAbort, rowVars, TypeInv, TypeOK
<1>2. \A d \in Id : retrial[d] = "committed" <=> retrial'[d] = "committed"
  BY <1>1
<1>3. OneRow' /\ SentInv'
  BY <1>1 DEF LinkInv, OneRow, SentInv
<1>4. RowKnown'
  BY <1>1 DEF LinkInv, RowKnown
<1>5. RetryInv'
  BY <1>1, <1>2 DEF LinkInv, RetryInv
<1>6. HolderInv'
  <2>1. \A v \in Worker : rec[v] # NoRow => cur[v] \in Id
    BY DEF LinkInv, RowKnown, TypeInv, TypeOK
  <2>2. \A v \in Worker : MovedOn(rec[v], cur[v]) => MovedOn(rec[v], cur[v])'
    BY <1>1, <1>2 DEF MovedOn
  <2> QED
    BY <1>1, <2>1, <2>2 DEF LinkInv, HolderInv
<1>7. DeletedOpen'
  BY <1>1, <1>2 DEF LinkInv, DeletedOpen, Stored, Outrun
<1> QED
  BY <1>3, <1>4, <1>5, <1>6, <1>7 DEF LinkInv

(* What the commit of a retry changes. *)
LEMMA CommitEffect ==
    ASSUME TypeInv, NEW c \in Id, RetryCommit(c)
    PROVE  /\ origin[c] \in Row /\ retrial[c] = "open" /\ ~Stored(c)
           /\ qid'[origin[c]] = c /\ state'[origin[c]] = "retry"
           /\ \A s \in Row : s # origin[c] => qid'[s] = qid[s] /\ state'[s] = state[s]
           /\ retrial'[c] = "committed"
           /\ \A d \in Id : d # c =>
                  retrial'[d] = IF origin[d] = origin[c] /\ retrial[d] = "open" THEN "stale"
                                ELSE retrial[d]
           /\ \A v \in Worker : snap'[v] = IF rec[v] = origin[c] /\ snap[v] = "fresh" THEN "stale"
                                           ELSE snap[v]
           /\ UNCHANGED <<remote, origin, attempt, pc, cur, rec, last, out, faults>>
<1>1. origin[c] \in Row
  BY DEF RetryCommit, TypeInv, TypeOK
<1> QED
  BY <1>1 DEF RetryCommit, IdFree, TouchedWorkers, TouchedRetrials, TypeInv, TypeOK

LEMMA LinkCommit ==
    ASSUME TypeInv, LinkInv, NEW c \in Id, RetryCommit(c)
    PROVE  LinkInv'
<1> DEFINE r == origin[c]
<1>1. /\ r \in Row /\ retrial[c] = "open" /\ ~Stored(c)
      /\ qid'[r] = c /\ state'[r] = "retry" /\ retrial'[c] = "committed"
      /\ \A s \in Row : s # r => qid'[s] = qid[s] /\ state'[s] = state[s]
      /\ \A d \in Id : d # c =>
             retrial'[d] = IF origin[d] = r /\ retrial[d] = "open" THEN "stale" ELSE retrial[d]
      /\ \A v \in Worker : snap'[v] = IF rec[v] = r /\ snap[v] = "fresh" THEN "stale" ELSE snap[v]
      /\ UNCHANGED <<remote, origin, attempt, cur, rec>>
  BY CommitEffect
<1>2. /\ c # NoId /\ c \in Nat /\ \A d \in Id : d \in Nat
      /\ qid[r] # NoId /\ qid[r] \in Id /\ qid[r] < c
  <2>1. c # NoId /\ c \in Nat /\ \A d \in Id : d \in Nat
    BY IdAssumption
  <2>2. qid[r] # NoId /\ qid[r] < c
    BY <1>1 DEF LinkInv, RowKnown, RetryInv
  <2>3. qid[r] \in Id
    BY <1>1, <2>2 DEF TypeInv, TypeOK
  <2> QED
    BY <2>1, <2>2, <2>3
<1>3. r = origin[c]
  OBVIOUS
<1> HIDE DEF r
<1>4. /\ \A d \in Id : retrial[d] = "committed" => retrial'[d] = "committed"
      /\ \A d \in Id : retrial'[d] = "committed" => d = c \/ retrial[d] = "committed"
      /\ \A d \in Id : retrial'[d] = "open" => retrial[d] = "open" /\ origin[d] # r
      /\ \A d \in Id : retrial'[d] \in {"open", "stale"} => d # c /\ retrial[d] \in {"open", "stale"}
      /\ \A d \in Id : retrial'[d] # "none" => retrial[d] # "none"
  BY <1>1, <1>3
<1>5. \A d \in Id : retrial[d] # "none" => origin[d] \in Row
  BY DEF TypeInv, TypeOK
<1>6. OneRow'
  BY <1>1, <1>2 DEF LinkInv, OneRow, Stored
<1>7. RowKnown'
  <2>1. \A s \in Row : (qid'[s] = NoId => attempt'[s] = 0) /\ (qid'[s] = NoId <=> state'[s] = "none")
    BY <1>1, <1>2 DEF LinkInv, RowKnown
  <2>2. \A d \in Id : retrial'[d] # "none" => qid'[origin[d]] # NoId
    BY <1>1, <1>2, <1>4, <1>5 DEF LinkInv, RowKnown
  <2>3. \A v \in Worker : rec[v] # NoRow => qid'[rec[v]] # NoId /\ cur[v] # NoId
    BY <1>1, <1>2 DEF LinkInv, RowKnown, TypeInv, TypeOK
  <2> QED
    BY <1>1, <2>1, <2>2, <2>3 DEF RowKnown
<1>8. SentInv'
  <2>1. remote[c] # "none"
    BY <1>1 DEF LinkInv, SentInv
  <2> QED
    BY <1>1, <1>4, <2>1 DEF LinkInv, SentInv
<1>9. RetryInv'
  <2>1. \A d \in Id : retrial'[d] = "open" => qid'[origin[d]] < d
    BY <1>1, <1>4, <1>5 DEF LinkInv, RetryInv
  <2>2. \A d, e \in Id : retrial'[d] = "committed" /\ retrial'[e] = "open" /\ origin[d] = origin[e]
                         => d < e
    BY <1>3, <1>4 DEF LinkInv, RetryInv
  <2>3. \A d \in Id : retrial'[d] = "committed" =>
            \/ qid'[origin[d]] = d
            \/ \E e \in Id : e > d /\ origin[e] = origin[d] /\ retrial'[e] = "committed"
    <3> SUFFICES ASSUME NEW d \in Id, retrial'[d] = "committed"
                 PROVE  \/ qid'[origin[d]] = d
                        \/ \E e \in Id : e > d /\ origin[e] = origin[d] /\ retrial'[e] = "committed"
      OBVIOUS
    <3>1. CASE d = c
      BY <1>1, <1>3, <3>1
    <3>2. CASE retrial[d] = "committed" /\ origin[d] = r
      <4>1. d < c
        BY <1>1, <1>3, <3>2 DEF LinkInv, RetryInv
      <4>2. c > d
        BY <1>2, <4>1
      <4> QED
        BY <1>1, <1>3, <3>2, <4>2
    <3>3. CASE retrial[d] = "committed" /\ origin[d] # r
      <4>1. qid'[origin[d]] = qid[origin[d]]
        BY <1>1, <1>5, <3>3
      <4> QED
        BY <1>4, <3>3, <4>1 DEF LinkInv, RetryInv
    <3> QED
      BY <1>4, <3>1, <3>2, <3>3
  <2>4. \A d \in Id : retrial'[d] \in {"open", "stale"} => qid'[origin[d]] # d
    BY <1>1, <1>4, <1>5 DEF LinkInv, RetryInv
  <2> QED
    BY <1>1, <2>1, <2>2, <2>3, <2>4 DEF RetryInv
<1>10. HolderInv'
  <2> SUFFICES ASSUME NEW v \in Worker, rec[v] # NoRow
               PROVE  /\ snap'[v] = "fresh" => qid'[rec[v]] = cur[v]
                      /\ qid'[rec[v]] = cur[v] \/ MovedOn(rec[v], cur[v])'
                      /\ retrial'[cur[v]] \in {"open", "stale"} => rec[v] # origin[cur[v]]
    BY <1>1 DEF HolderInv, MovedOn
  <2>1. rec[v] \in Row /\ cur[v] \in Id
    BY DEF LinkInv, RowKnown, TypeInv, TypeOK
  <2>2. /\ snap[v] = "fresh" => qid[rec[v]] = cur[v]
        /\ qid[rec[v]] = cur[v] \/ MovedOn(rec[v], cur[v])
        /\ retrial[cur[v]] \in {"open", "stale"} => rec[v] # origin[cur[v]]
    BY DEF LinkInv, HolderInv
  <2>3. retrial'[cur[v]] \in {"open", "stale"} => rec[v] # origin[cur[v]]
    BY <1>4, <2>1, <2>2
  <2>4. CASE rec[v] # r
    <3>1. qid'[rec[v]] = qid[rec[v]] /\ snap'[v] = snap[v]
      BY <1>1, <2>1, <2>4
    <3>2. MovedOn(rec[v], cur[v]) => MovedOn(rec[v], cur[v])'
      BY <1>1, <1>4, <3>1 DEF MovedOn
    <3> QED
      BY <2>2, <2>3, <3>1, <3>2
  <2>5. CASE rec[v] = r
    <3>1. snap'[v] # "fresh"
      BY <1>1, <2>5
    <3>2. c > cur[v]
      <4>1. qid[r] = cur[v] \/ qid[r] > cur[v]
        BY <2>2, <2>5 DEF MovedOn
      <4>2. cur[v] \in Nat /\ qid[r] \in Nat
        BY <1>2, <2>1
      <4> QED
        BY <1>2, <4>1, <4>2
    <3>3. MovedOn(rec[v], cur[v])'
      BY <1>1, <1>3, <2>5, <3>2 DEF MovedOn
    <3> QED
      BY <2>3, <3>1, <3>3
  <2> QED
    BY <2>4, <2>5
<1>11. DeletedOpen'
  <2> SUFFICES ASSUME NEW d \in Id, remote[d] = "deleted", retrial'[d] \in {"open", "stale"}
               PROVE  Stored(d)' \/ Outrun(d)'
    BY <1>1 DEF DeletedOpen
  <2>1. /\ d # c /\ retrial[d] \in {"open", "stale"} /\ qid[origin[d]] # d
        /\ Stored(d) \/ Outrun(d)
    BY <1>4 DEF LinkInv, DeletedOpen, RetryInv
  <2>2. CASE Outrun(d)
    BY <1>1, <1>4, <2>2 DEF Outrun
  <2>3. CASE Stored(d)
    <3>1. PICK s \in Row : qid[s] = d
      BY <2>3 DEF Stored
    <3>2. CASE s # r
      BY <1>1, <3>1, <3>2 DEF Stored
    <3>3. CASE s = r
      <4>1. c > d /\ origin[c] # origin[d]
        BY <1>2, <1>3, <2>1, <3>1, <3>3
      <4> QED
        BY <1>1, <4>1 DEF Outrun
    <3> QED
      BY <3>2, <3>3
  <2> QED
    BY <2>1, <2>2, <2>3
<1> QED
  BY <1>6, <1>7, <1>8, <1>9, <1>10, <1>11 DEF LinkInv

LEMMA LinkStep == TypeInv /\ LinkInv /\ [Next]_vars => LinkInv'
<1> SUFFICES ASSUME TypeInv, LinkInv, [Next]_vars
             PROVE  LinkInv'
  OBVIOUS
<1>1. ASSUME NEW w \in Worker, Works(w) \/ Disturbed(w)
      PROVE  LinkInv'
  <2>1. /\ OthersSame(w) /\ MessageKept(w)
        /\ Silent(w) \/ Rewrites(w) \/ \E r \in Row : Creates(w, r)
    BY <1>1, WorkerEffect DEF LinkInv
  <2>2. pc[w] # "idle"
    BY <1>1 DEF Works, Disturbed, Store, StoreRefused, JobOk, JobFails, JobAgain, Delete,
       CommitLate, Record, RecordOperational, RecordRefused, GiveUp, StoreRaisesCron,
       StoreMarksFailed, JobOperational, DeleteRaisesOnce, DeleteRaises, GiveUpRaises, Crash
  <2> QED
    BY <2>1, <2>2, LinkWritten, LinkCreated
<1>2. ASSUME NEW c \in Id, NEW r \in Row, RetrySend(r, c)
      PROVE  LinkInv'
  <2>1. qid[r] # NoId
    BY <1>2 DEF RetrySend, LinkInv, RowKnown
  <2> QED
    BY <1>2, <2>1, LinkSend DEF RetrySend, rowVars
<1>3. ASSUME NEW c \in Id, SendMessage(c) \/ Timeout(c) \/ Overrun(c)
      PROVE  LinkInv'
  <2>1. SendMessage(c) \/ remote[c] # "none"
    BY <1>3, WorkerAssumption DEF Timeout, Overrun, Overdue
  <2> QED
    BY <1>3, <2>1, LinkSend DEF SendMessage, Timeout, Overrun, Overdue, rowVars
<1>4. CASE UNCHANGED vars
  BY <1>4 DEF vars, LinkInv, OneRow, RowKnown, SentInv, RetryInv, HolderInv, MovedOn, DeletedOpen,
              Stored, Outrun
<1> QED
  BY <1>1, <1>2, <1>3, <1>4, LinkReceive, LinkAbort, LinkCommit DEF Next

LEMMA LinkInit == Init => LinkInv
BY DEF Init, LinkInv, OneRow, RowKnown, SentInv, RetryInv, HolderInv, DeletedOpen

(* A retry that committed is executed in the row that was retried, unless that
   row was retried again: no worker, however fast or often it got the message,
   executes it in another row. *)
THEOREM RetriesStay == Spec => []RetryStaysInRow
<1>1. TypeInv /\ LinkInv => RetryStaysInRow
  <2> SUFFICES ASSUME TypeInv, LinkInv, NEW c \in Id, retrial[c] = "committed",
                      NEW r \in Row \ {origin[c]}, qid[r] = c
               PROVE  \E d \in Id : d > c /\ origin[d] = origin[c] /\ retrial[d] = "committed"
    BY DEF RetryStaysInRow
  <2>1. origin[c] \in Row /\ c # NoId
    BY IdAssumption DEF TypeInv, TypeOK
  <2>2. qid[origin[c]] # c
    BY <2>1 DEF LinkInv, OneRow
  <2> QED
    BY <2>2 DEF LinkInv, RetryInv
<1> QED
  BY <1>1, TypeInit, TypeStep, LinkInit, LinkStep, PTL DEF Spec

-----------------------------------------------------------------------------
(* When nobody interferes with a message that a worker has. *)

NoInterference == Env \cap {"overrun", "recovery", "deleteFails"} = {} /\ Visibility # "zero"

(* One worker at a time has a message. *)
Alone == \A v, w \in Worker : v # w /\ pc[w] # "idle" => cur[v] # cur[w]

(* A worker's receipt is good until the worker deletes the message, and its row is
   in progress, and known to be, until it records the result. *)
InHands(w) ==
    /\ remote[cur[w]] \in {w, "deleted"}
    /\ pc[w] \in {"got", "running", "over"} => remote[cur[w]] = w
    /\ pc[w] = "late" \/ (pc[w] = "ran" /\ out[w] = "done") => remote[cur[w]] = "deleted"
    /\ pc[w] \in {"running", "over", "late", "ran"} =>
           rec[w] \in Row /\ snap[w] = "fresh" /\ state[rec[w]] = "wip"

HandsInv == Alone /\ \A w \in Worker : pc[w] # "idle" => InHands(w)

(* The message of a row that is done is deleted, and nobody has it. *)
DoneIsOver ==
    \A r \in Row : state[r] = "done" =>
        remote[qid[r]] = "deleted" /\ \A w \in Worker : cur[w] # qid[r]

(* The row of a retry that may still commit is not in progress. *)
RetryRests == \A c \in Id : retrial[c] = "open" => state[origin[c]] # "wip"

CareInv == HandsInv /\ DoneIsOver /\ RetryRests

(* The row of a worker that has stored its message shows that message. *)
LEMMA PastRow ==
    ASSUME TypeInv, LinkInv, CareInv, NEW w \in Worker,
           pc[w] \in {"running", "over", "late", "ran"}
    PROVE  /\ rec[w] \in Row /\ snap[w] = "fresh" /\ state[rec[w]] = "wip"
           /\ qid[rec[w]] = cur[w] /\ cur[w] \in Id
<1>1. rec[w] \in Row /\ snap[w] = "fresh" /\ state[rec[w]] = "wip"
  BY DEF CareInv, HandsInv, InHands
<1>2. rec[w] # NoRow
  BY <1>1, IdAssumption
<1> QED
  BY <1>1, <1>2, HolderHasId DEF LinkInv, HolderInv, TypeInv

(* A step of w leaves what the others have as it is. *)
LEMMA HandsOthers ==
    ASSUME TypeInv, LinkInv, CareInv, NEW w \in Worker, NEW v \in Worker, v # w,
           pc[w] # "idle", pc[v] # "idle", OthersSame(w),
           Silent(w) \/ Rewrites(w) \/ \E r \in Row : Creates(w, r)
    PROVE  InHands(v)'
<1>1. /\ cur[v] \in Id /\ cur[v] # cur[w] /\ cur[w] \in Id
  BY HolderHasId DEF TypeInv, CareInv, HandsInv, Alone
<1>2. /\ pc'[v] = pc[v] /\ cur'[v] = cur[v] /\ rec'[v] = rec[v] /\ out'[v] = out[v]
      /\ remote'[cur[v]] = remote[cur[v]]
  BY <1>1 DEF OthersSame
<1>3. InHands(v)
  BY DEF CareInv, HandsInv
<1>4. CASE pc[v] \notin {"running", "over", "late", "ran"}
  BY <1>2, <1>3, <1>4 DEF InHands
<1>5. CASE pc[v] \in {"running", "over", "late", "ran"}
  <2>1. /\ rec[v] \in Row /\ snap[v] = "fresh" /\ state[rec[v]] = "wip" /\ qid[rec[v]] = cur[v]
    BY <1>5, PastRow
  <2>2. snap'[v] = "fresh" /\ state'[rec[v]] = "wip"
    <3>1. CASE Silent(w)
      BY <2>1, <3>1 DEF Silent
    <3>2. CASE Rewrites(w)
      <4>1. rec[w] \in Row /\ snap[w] = "fresh" /\ rec[w] # NoRow
        BY <3>2, IdAssumption DEF Rewrites
      <4>2. qid[rec[w]] = cur[w]
        BY <4>1 DEF LinkInv, HolderInv
      <4>3. rec[v] # rec[w]
        BY <1>1, <2>1, <4>2
      <4> QED
        BY <2>1, <3>2, <4>3 DEF Rewrites, Touches
    <3>3. ASSUME NEW r \in Row, Creates(w, r)
          PROVE  snap'[v] = "fresh" /\ state'[rec[v]] = "wip"
      <4>1. rec[v] # r
        BY <1>1, <2>1, <3>3, IdAssumption DEF Creates, NewRow
      <4> QED
        BY <2>1, <3>3, <4>1 DEF Creates, Touches
    <3> QED
      BY <3>1, <3>2, <3>3
  <2> QED
    BY <1>2, <1>3, <2>1, <2>2 DEF InHands
<1> QED
  BY <1>4, <1>5

LEMMA AloneWorker ==
    ASSUME TypeInv, CareInv, NEW w \in Worker, OthersSame(w), pc[w] # "idle",
           Gone(w) \/ Stays(w)
    PROVE  Alone'
<1>1. cur[w] \in Id /\ \A v \in Worker : pc[v] = "idle" <=> cur[v] = NoId
  BY HolderHasId DEF TypeInv, TypeOK
<1> SUFFICES ASSUME NEW u \in Worker, NEW v \in Worker, u # v, pc'[v] # "idle"
             PROVE  cur'[u] # cur'[v]
  BY DEF Alone
<1>2. \A x \in Worker \ {w} : pc'[x] = pc[x] /\ cur'[x] = cur[x]
  BY DEF OthersSame
<1>3. cur'[w] \in {NoId, cur[w]} /\ (pc'[w] # "idle" => cur'[w] = cur[w])
  BY DEF Gone, Stays
<1>4. pc[v] # "idle" /\ cur'[v] = cur[v] /\ cur[v] # NoId
  BY <1>1, <1>2, <1>3
<1>5. cur[u] # cur[v]
  BY <1>4 DEF CareInv, HandsInv, Alone
<1> QED
  BY <1>2, <1>3, <1>4, <1>5

(* What an undisturbed worker that stays with its message has afterwards. *)
LEMMA HandsOwn ==
    ASSUME NoInterference, TypeInv, LinkInv, CareInv, NEW w \in Worker, Works(w) \/ Disturbed(w),
           pc'[w] # "idle"
    PROVE  InHands(w)'
<1>1. pc[w] # "idle"
  BY DEF Works, Disturbed, Store, StoreRefused, JobOk, JobFails, JobAgain, Delete,
     CommitLate, Record, RecordOperational, RecordRefused, GiveUp, StoreRaisesCron,
     StoreMarksFailed, JobOperational, DeleteRaisesOnce, DeleteRaises, GiveUpRaises, Crash
<1>2. cur[w] \in Id /\ InHands(w) /\ w \notin {"visible", "deleted"}
  BY <1>1, HolderHasId, WorkerAssumption DEF TypeInv, CareInv, HandsInv
<1>3. ASSUME LeaveQuietly(w) \/ Leave(w)
      PROVE  FALSE
  BY <1>3, LeaveGone DEF LeaveQuietly, Gone
<1>4. CASE Store(w)
  <2>1. PICK r \in Row : /\ WriteRow(w, r, "wip") /\ Wrote(w, r, "fresh")
                         /\ rec' = [rec EXCEPT ![w] = r]
    BY <1>4 DEF Store
  <2>2. rec'[w] = r /\ state'[r] = "wip" /\ snap'[w] = "fresh"
    BY <2>1, WroteTouches DEF WriteRow, TypeInv, TypeOK
  <2>3. pc'[w] = "running" /\ cur' = cur /\ remote' = remote /\ pc[w] = "got"
    BY <1>4 DEF Store, AfterChange, NoInterference, TypeInv, TypeOK
  <2> QED
    BY <1>2, <2>2, <2>3 DEF InHands
<1>5. CASE JobOk(w) \/ JobFails(w) \/ JobAgain(w) \/ JobOperational(w) \/ CommitLate(w)
  <2>1. PICK x \in {"done", "imqerror", "terminated", "failed", "retry", "psycopg2_Error"},
             p \in {"over", "ran"} :
           /\ Ends(w, x, p)
           /\ pc[w] \in {"running", "late"} /\ (pc[w] = "late" => p = "ran")
           /\ x = "done" => p = "over"
    BY <1>5 DEF JobOk, JobFails, JobAgain, JobOperational, CommitLate
  <2>2. /\ UNCHANGED <<remote, state, cur, rec, snap>> /\ pc'[w] = p /\ out'[w] = x
    BY <2>1 DEF Ends, sqsVars, rowVars, TypeInv, TypeOK
  <2> QED
    BY <1>2, <2>1, <2>2 DEF InHands
<1>6. CASE Delete(w)
  <2>1. remote[cur[w]] = w /\ rec[w] \in Row /\ snap[w] = "fresh" /\ state[rec[w]] = "wip"
    BY <1>2, <1>6 DEF Delete, InHands
  <2>2. /\ remote'[cur[w]] = "deleted" /\ pc'[w] \in {"late", "ran"}
        /\ UNCHANGED <<state, cur, rec, snap, out>>
    BY <1>2, <1>6, <2>1 DEF Delete, Deleted, rowVars, TypeInv, TypeOK
  <2> QED
    BY <2>1, <2>2 DEF InHands
<1>7. CASE Record(w)
  <2>1. pc'[w] = "giveup" /\ UNCHANGED <<cur, remote>>
    BY <1>3, <1>7 DEF Record, TypeInv, TypeOK
  <2> QED
    BY <1>2, <2>1 DEF InHands
<1>8. ~DeleteRaisesOnce(w)
  BY DEF DeleteRaisesOnce, Fault, NoInterference
<1> QED
  BY <1>3, <1>4, <1>5, <1>6, <1>7, <1>8 DEF Works, Disturbed, StoreRefused, StoreRaisesCron,
     StoreMarksFailed, RecordOperational, RecordRefused, MarkFailed, DeleteRaises, GiveUp,
     GiveUpRaises, Crash

(* Only the record of a committed job makes a row done. *)
LEMMA DoneByRecord ==
    ASSUME NoInterference, TypeInv, LinkInv, CareInv, NEW w \in Worker, Works(w) \/ Disturbed(w),
           NEW r \in Row, state'[r] = "done"
    PROVE  \/ state[r] = "done" /\ qid'[r] = qid[r]
           \/ /\ pc[w] = "ran" /\ out[w] = "done" /\ r = rec[w] /\ qid' = qid
              /\ Leave(w) /\ remote' = remote
<1>1. CASE UNCHANGED <<state, qid>>
  BY <1>1
<1>2. ASSUME NEW q \in Row, NEW s \in {"wip", "failed"}, WriteRow(w, q, s)
      PROVE  state[r] = "done" /\ qid'[r] = qid[r]
  BY <1>2 DEF WriteRow, TypeInv, TypeOK
<1>3. CASE Store(w) \/ StoreMarksFailed(w)
  BY <1>2, <1>3 DEF Store, StoreMarksFailed
<1>4. CASE RecordOperational(w)
  BY <1>4 DEF RecordOperational, MarkFailed, TypeInv, TypeOK
<1>5. ~DeleteRaises(w) /\ ~DeleteRaisesOnce(w) /\ ~GiveUpRaises(w)
  BY DEF DeleteRaises, DeleteRaisesOnce, GiveUpRaises, Fault, NoInterference
<1>6. CASE Record(w)
  BY <1>6 DEF Record, TypeInv, TypeOK
<1> QED
  BY <1>1, <1>3, <1>4, <1>5, <1>6 DEF Works, Disturbed, StoreRefused, JobOk, JobFails, JobAgain,
     Delete, CommitLate, RecordRefused, GiveUp, StoreRaisesCron, JobOperational, Crash,
     LeaveQuietly, Ends, rowVars

LEMMA CareWorker ==
    ASSUME NoInterference, TypeInv, LinkInv, CareInv, NEW w \in Worker, Works(w) \/ Disturbed(w)
    PROVE  CareInv'
<1>1. pc[w] # "idle"
  BY DEF Works, Disturbed, Store, StoreRefused, JobOk, JobFails, JobAgain, Delete,
     CommitLate, Record, RecordOperational, RecordRefused, GiveUp, StoreRaisesCron,
     StoreMarksFailed, JobOperational, DeleteRaisesOnce, DeleteRaises, GiveUpRaises, Crash
<1>2. /\ OthersSame(w) /\ MessageKept(w)
      /\ Silent(w) \/ Rewrites(w) \/ \E r \in Row : Creates(w, r)
  BY WorkerEffect DEF LinkInv
<1>3. Gone(w) \/ Stays(w)
  BY <1>2 DEF Silent, Rewrites, Creates
<1>4. HandsInv'
  <2>1. Alone'
    BY <1>1, <1>2, <1>3, AloneWorker
  <2>2. ASSUME NEW v \in Worker, pc'[v] # "idle"
        PROVE  InHands(v)'
    <3>1. v = w \/ pc[v] # "idle"
      BY <1>2, <2>2 DEF OthersSame
    <3> QED
      BY <1>1, <1>2, <2>2, <3>1, HandsOwn, HandsOthers
  <2> QED
    BY <2>1, <2>2 DEF HandsInv
<1>5. DoneIsOver'
  <2> SUFFICES ASSUME NEW r \in Row, state'[r] = "done"
               PROVE  remote'[qid'[r]] = "deleted" /\ \A v \in Worker : cur'[v] # qid'[r]
    BY DEF DoneIsOver
  <2>1. \A v \in Worker \ {w} : cur'[v] = cur[v]
    BY <1>2 DEF OthersSame
  <2>2. cur'[w] \in {NoId, cur[w]} /\ NoId \notin Id
    BY <1>3, IdAssumption DEF Gone, Stays
  <2>3. CASE state[r] = "done" /\ qid'[r] = qid[r]
    <3>1. qid[r] \in Id
      BY <2>3 DEF LinkInv, RowKnown, TypeInv, TypeOK
    <3>2. remote[qid[r]] = "deleted" /\ \A v \in Worker : cur[v] # qid[r]
      BY <2>3 DEF CareInv, DoneIsOver
    <3>3. remote'[qid[r]] = remote[qid[r]]
      BY <1>2, <3>1, <3>2 DEF OthersSame
    <3> QED
      BY <2>1, <2>2, <2>3, <3>1, <3>2, <3>3
  <2>4. CASE /\ pc[w] = "ran" /\ out[w] = "done" /\ r = rec[w] /\ qid' = qid
             /\ Leave(w) /\ remote' = remote
    <3>1. qid[r] = cur[w] /\ cur[w] \in Id
      BY <2>4, PastRow
    <3>2. remote[cur[w]] = "deleted"
      BY <2>4 DEF CareInv, HandsInv, InHands
    <3>3. cur'[w] = NoId
      BY <2>4, LeaveGone DEF Gone
    <3>4. \A v \in Worker \ {w} : cur[v] # cur[w]
      BY <1>1 DEF CareInv, HandsInv, Alone
    <3> QED
      BY <2>1, <2>2, <2>4, <3>1, <3>2, <3>3, <3>4
  <2> QED
    BY <2>3, <2>4, DoneByRecord
<1>6. RetryRests'
  <2> SUFFICES ASSUME NEW c \in Id, retrial'[c] = "open"
               PROVE  state'[origin[c]] # "wip"
    BY <1>2 DEF RetryRests, OthersSame
  <2>1. retrial[c] = "open" => origin[c] \in Row /\ state[origin[c]] # "wip"
    BY DEF CareInv, RetryRests, TypeInv, TypeOK
  <2>2. CASE Silent(w)
    BY <2>1, <2>2 DEF Silent
  <2>3. CASE Rewrites(w)
    BY <2>1, <2>3 DEF Rewrites, Touches
  <2>4. CASE \E r \in Row : Creates(w, r)
    BY <2>1, <2>4 DEF Creates, Touches
  <2> QED
    BY <1>2, <2>2, <2>3, <2>4
<1> QED
  BY <1>4, <1>5, <1>6 DEF CareInv

LEMMA CareReceive ==
    ASSUME TypeInv, LinkInv, CareInv, NEW w \in Worker, NEW c \in Id, Receive(w, c)
    PROVE  CareInv'
<1>1. /\ remote[c] = "visible" /\ remote'[c] = w /\ \A d \in Id \ {c} : remote'[d] = remote[d]
      /\ pc'[w] = "got" /\ cur'[w] = c /\ pc[w] = "idle"
      /\ \A v \in Worker \ {w} : /\ pc'[v] = pc[v] /\ cur'[v] = cur[v] /\ rec'[v] = rec[v]
                                 /\ snap'[v] = snap[v]
      /\ UNCHANGED <<origin, retrial, qid, state, out>>
  BY DEF Receive, Pickable, rowVars, TypeInv, TypeOK
<1>2. \A v \in Worker : cur[v] # c
  <2> SUFFICES ASSUME NEW v \in Worker, cur[v] = c
               PROVE  FALSE
    OBVIOUS
  <2>1. pc[v] # "idle" /\ v # "visible"
    BY IdAssumption, WorkerAssumption DEF TypeInv, TypeOK
  <2> QED
    BY <1>1, <2>1 DEF CareInv, HandsInv, InHands
<1>3. Alone'
  BY <1>1, <1>2 DEF CareInv, HandsInv, Alone
<1>4. ASSUME NEW v \in Worker, pc'[v] # "idle"
      PROVE  InHands(v)'
  <2>1. CASE v = w
    BY <1>1, <2>1 DEF InHands
  <2>2. CASE v # w
    <3>1. InHands(v) /\ cur[v] \in Id \ {c}
      BY <1>1, <1>2, <1>4, <2>2, HolderHasId DEF TypeInv, CareInv, HandsInv
    <3> QED
      BY <1>1, <2>2, <3>1 DEF InHands
  <2> QED
    BY <2>1, <2>2
<1>5. DoneIsOver'
  <2>1. \A r \in Row : state[r] = "done" => qid[r] \in Id \ {c}
    BY <1>1 DEF CareInv, DoneIsOver, LinkInv, RowKnown, TypeInv, TypeOK
  <2> QED
    BY <1>1, <2>1 DEF CareInv, DoneIsOver
<1>6. RetryRests'
  BY <1>1 DEF CareInv, RetryRests
<1> QED
  BY <1>3, <1>4, <1>5, <1>6 DEF CareInv, HandsInv

(* A message that nobody has becomes visible. *)
LEMMA CareVisible ==
    ASSUME TypeInv, LinkInv, CareInv, NEW c \in Id, remote[c] # "deleted",
           \A v \in Worker : cur[v] # c, remote' = [remote EXCEPT ![c] = "visible"],
           UNCHANGED <<qid, state, pc, cur, rec, snap, out>>
    PROVE  HandsInv' /\ DoneIsOver'
<1>1. \A d \in Id \ {c} : remote'[d] = remote[d]
  BY DEF TypeInv, TypeOK
<1>2. Alone'
  BY DEF CareInv, HandsInv, Alone
<1>3. ASSUME NEW v \in Worker, pc'[v] # "idle"
      PROVE  InHands(v)'
  <2>1. InHands(v) /\ cur[v] \in Id \ {c}
    BY <1>3, HolderHasId DEF TypeInv, CareInv, HandsInv
  <2> QED
    BY <1>1, <2>1 DEF InHands
<1>4. DoneIsOver'
  <2>1. \A r \in Row : state[r] = "done" => qid[r] \in Id \ {c}
    BY DEF CareInv, DoneIsOver, LinkInv, RowKnown, TypeInv, TypeOK
  <2> QED
    BY <1>1, <2>1 DEF CareInv, DoneIsOver
<1> QED
  BY <1>2, <1>3, <1>4 DEF HandsInv

LEMMA CareSend ==
    ASSUME NoInterference, TypeInv, LinkInv, CareInv, NEW c \in Id,
           SendMessage(c) \/ \E r \in Row : RetrySend(r, c)
    PROVE  CareInv'
<1>1. /\ remote[c] = "none" /\ remote' = [remote EXCEPT ![c] = "visible"]
      /\ UNCHANGED <<qid, state, pc, cur, rec, snap, out>>
  BY DEF SendMessage, RetrySend, NextId, rowVars
<1>2. \A v \in Worker : cur[v] # c
  BY <1>1, IdAssumption DEF LinkInv, SentInv
<1>3. HandsInv' /\ DoneIsOver'
  BY <1>1, <1>2, CareVisible
<1>4. RetryRests'
  <2>1. CASE SendMessage(c)
    BY <2>1 DEF SendMessage, rowVars, CareInv, RetryRests
  <2>2. ASSUME NEW r \in Row, RetrySend(r, c)
        PROVE  RetryRests'
    <3>1. state[r] # "wip"
      BY <2>2 DEF RetrySend, NoInterference
    <3> QED
      BY <2>2, <3>1 DEF RetrySend, rowVars, CareInv, RetryRests, TypeInv, TypeOK
  <2> QED
    BY <2>1, <2>2
<1> QED
  BY <1>3, <1>4 DEF CareInv

LEMMA CareCommit ==
    ASSUME TypeInv, LinkInv, CareInv, NEW c \in Id, RetryCommit(c)
    PROVE  CareInv'
<1> DEFINE r == origin[c]
<1>1. /\ r \in Row /\ retrial[c] = "open" /\ ~Stored(c)
      /\ qid'[r] = c /\ state'[r] = "retry"
      /\ \A s \in Row : s # r => qid'[s] = qid[s] /\ state'[s] = state[s]
      /\ retrial'[c] = "committed"
      /\ \A d \in Id : d # c =>
             retrial'[d] = IF origin[d] = r /\ retrial[d] = "open" THEN "stale" ELSE retrial[d]
      /\ \A v \in Worker : snap'[v] = IF rec[v] = r /\ snap[v] = "fresh" THEN "stale" ELSE snap[v]
      /\ UNCHANGED <<remote, origin, pc, cur, rec, out>>
  BY CommitEffect
<1>2. state[r] # "wip"
  BY <1>1 DEF CareInv, RetryRests
<1> HIDE DEF r
<1>3. Alone'
  BY <1>1 DEF CareInv, HandsInv, Alone
<1>4. ASSUME NEW v \in Worker, pc'[v] # "idle"
      PROVE  InHands(v)'
  BY <1>1, <1>2, <1>4 DEF CareInv, HandsInv, InHands
<1>5. DoneIsOver'
  BY <1>1 DEF CareInv, DoneIsOver
<1>6. RetryRests'
  <2>1. \A d \in Id : retrial'[d] = "open" => retrial[d] = "open" /\ origin[d] # r /\ origin[d] \in Row
    BY <1>1 DEF r, TypeInv, TypeOK
  <2> QED
    BY <1>1, <2>1 DEF CareInv, RetryRests
<1> QED
  BY <1>3, <1>4, <1>5, <1>6 DEF CareInv, HandsInv

LEMMA CareStep ==
    ASSUME NoInterference
    PROVE  TypeInv /\ LinkInv /\ CareInv /\ [Next]_vars => CareInv'
<1> SUFFICES ASSUME TypeInv, LinkInv, CareInv, [Next]_vars
             PROVE  CareInv'
  OBVIOUS
<1>1. ASSUME NEW c \in Id, RetryAbort(c)
      PROVE  CareInv'
  <2>1. /\ \A d \in Id : retrial'[d] = "open" => retrial[d] = "open"
        /\ UNCHANGED <<remote, origin, qid, state, pc, cur, rec, snap, out>>
    BY <1>1 DEF RetryAbort, rowVars, TypeInv, TypeOK
  <2> QED
    BY <2>1 DEF CareInv, HandsInv, Alone, InHands, DoneIsOver, RetryRests
<1>2. ASSUME NEW c \in Id, Timeout(c)
      PROVE  CareInv'
  <2>1. PICK w \in Worker : cur[w] # c /\ Overdue(c, w)
    BY <1>2 DEF Timeout
  <2>2. /\ remote[c] = w /\ remote' = [remote EXCEPT ![c] = "visible"]
        /\ UNCHANGED <<origin, retrial, qid, state, pc, cur, rec, snap, out>>
    BY <2>1 DEF Overdue, rowVars
  <2>3. remote[c] # "deleted"
    BY <2>2, WorkerAssumption
  <2>4. \A v \in Worker : cur[v] # c
    <3> SUFFICES ASSUME NEW v \in Worker, cur[v] = c
                 PROVE  FALSE
      OBVIOUS
    <3>1. pc[v] # "idle"
      BY IdAssumption DEF TypeInv, TypeOK
    <3>2. remote[c] \in {v, "deleted"}
      BY <3>1 DEF CareInv, HandsInv, InHands
    <3> QED
      BY <2>1, <2>2, <2>3, <3>2
  <2>5. HandsInv' /\ DoneIsOver'
    BY <2>2, <2>3, <2>4, CareVisible
  <2>6. RetryRests'
    BY <2>2 DEF CareInv, RetryRests
  <2> QED
    BY <2>5, <2>6 DEF CareInv
<1>3. \A c \in Id : ~Overrun(c)
  BY DEF Overrun, Fault, NoInterference
<1>4. CASE UNCHANGED vars
  BY <1>4 DEF vars, CareInv, HandsInv, Alone, InHands, DoneIsOver, RetryRests
<1> QED
  BY <1>1, <1>2, <1>3, <1>4, CareWorker, CareReceive, CareSend, CareCommit DEF Next

LEMMA CareInit == Init => CareInv
BY DEF Init, CareInv, HandsInv, Alone, DoneIsOver, RetryRests

-----------------------------------------------------------------------------
(* What the ledger sees of a message and of a worker. *)

LEMMA ItemIs ==
    ASSUME NEW c \in Id
    PROVE  /\ remote[c] = "none" => Items[c] = "new"
           /\ remote[c] # "none" /\ Shows(c, "done") => Items[c] = "done"
           /\ remote[c] \notin {"none", "deleted"} /\ ~Shows(c, "done") => Items[c] = "open"
           /\ remote[c] # "none" /\ Shows(c, "wip") /\ ~Shows(c, "done") => Items[c] = "open"
           /\ remote[c] = "deleted" /\ ~Shows(c, "wip") /\ ~Shows(c, "done")
                 => Items[c] = "closed"
BY DEF Items

(* A message has one row, and is in its state. *)
LEMMA ShowsRow ==
    OneRow => \A r \in Row : qid[r] # NoId => \A s : Shows(qid[r], s) <=> state[r] = s
BY DEF OneRow, Shows

LEMMA LeaseIs ==
    ASSUME NEW w \in Worker
    PROVE  /\ pc[w] \in {"idle", "got", "giveup"} => Leases[w] = <<NoId, "none">>
           /\ pc[w] \in {"running", "late"} => Leases[w] = <<cur[w], "working">>
           /\ pc[w] = "over" /\ out[w] = "imqerror" => Leases[w] = <<cur[w], "working">>
           /\ pc[w] \in {"over", "ran"} /\ out[w] = "done" => Leases[w] = <<cur[w], "worked">>
           /\ pc[w] = "over" /\ out[w] \notin {"done", "imqerror"} => Leases[w] = <<cur[w], "over">>
           /\ pc[w] = "ran" /\ out[w] # "done" => Leases[w] = <<cur[w], "over">>
BY DEF Leases

(* A lease is on the message of a worker. *)
LEMMA LesseeHas ==
    ASSUME TypeInv, NEW w \in Worker, NEW c \in Id, Leases[w][1] = c
    PROVE  pc[w] \notin {"idle", "got", "giveup"} /\ cur[w] = c
<1>1. c # NoId
  BY IdAssumption
<1>2. pc[w] \in {"idle", "got", "running", "over", "late", "ran", "giveup"}
  BY DEF TypeInv, TypeOK
<1>3. CASE pc[w] \in {"idle", "got", "giveup"}
  <2>1. Leases[w] = <<NoId, "none">>
    BY <1>3, LeaseIs
  <2> QED
    BY <1>1, <2>1
<1>4. CASE pc[w] \notin {"idle", "got", "giveup"}
  <2>1. PICK phase \in {"working", "worked", "over"} : Leases[w] = <<cur[w], phase>>
    BY <1>2, <1>4, LeaseIs
  <2> QED
    BY <1>4, <2>1
<1> QED
  BY <1>3, <1>4

(* Nobody else holds a lease on the message of a worker. *)
LEMMA OnlyLessee ==
    ASSUME TypeInv, CareInv, NEW w \in Worker, pc[w] \in {"got", "giveup"}
    PROVE  ~Contract!Leased(cur[w])
<1> SUFFICES ASSUME NEW v \in Worker, Leases[v][1] = cur[w]
             PROVE  FALSE
  BY DEF Contract!Leased
<1>1. pc[v] \notin {"idle", "got", "giveup"} /\ cur[v] = cur[w]
  BY HolderHasId, LesseeHas DEF TypeInv
<1> QED
  BY <1>1 DEF CareInv, HandsInv, Alone

LEMMA OneLease ==
    ASSUME NEW w \in Worker, NEW x, Leases'[w] = x,
           \A v \in Worker \ {w} : pc'[v] = pc[v] /\ cur'[v] = cur[v] /\ out'[v] = out[v]
    PROVE  Leases' = [Leases EXCEPT ![w] = x]
<1>1. \A v \in Worker \ {w} : Leases'[v] = Leases[v]
  BY DEF Leases
<1>2. Leases = [v \in Worker |-> Leases[v]] /\ Leases' = [v \in Worker |-> Leases'[v]]
  BY DEF Leases
<1> QED
  BY <1>1, <1>2

LEMMA LeasesKept ==
    ASSUME \A v \in Worker : Leases'[v] = Leases[v]
    PROVE  Leases' = Leases
<1>1. Leases = [v \in Worker |-> Leases[v]] /\ Leases' = [v \in Worker |-> Leases'[v]]
  BY DEF Leases
<1> QED
  BY <1>1

LEMMA LeasesSame == UNCHANGED <<pc, cur, out>> => Leases' = Leases
BY DEF Leases

(* An item changes only with its message at SQS or with a row that shows it. *)
LEMMA ItemStays ==
    ASSUME NEW c \in Id, remote'[c] = remote[c],
           \A r \in Row : qid[r] = c \/ qid'[r] = c => qid'[r] = qid[r] /\ state'[r] = state[r]
    PROVE  Items'[c] = Items[c]
<1>1. \A s : Shows(c, s)' <=> Shows(c, s)
  BY DEF Shows
<1> QED
  BY <1>1 DEF Items

LEMMA OneItem ==
    ASSUME NEW c \in Id, NEW x, Items'[c] = x, \A d \in Id \ {c} : Items'[d] = Items[d]
    PROVE  Items' = [Items EXCEPT ![c] = x]
<1>1. Items = [d \in Id |-> Items[d]] /\ Items' = [d \in Id |-> Items'[d]]
  BY DEF Items
<1> QED
  BY <1>1

LEMMA ItemsKept ==
    ASSUME \A c \in Id : Items'[c] = Items[c]
    PROVE  Items' = Items
<1>1. Items = [d \in Id |-> Items[d]] /\ Items' = [d \in Id |-> Items'[d]]
  BY DEF Items
<1> QED
  BY <1>1

LEMMA ItemsSame == UNCHANGED <<remote, qid, state>> => Items' = Items
BY DEF Items, Shows

(* The message of a worker is open until its result is recorded. *)
LEMMA ItemOpen ==
    ASSUME TypeInv, LinkInv, CareInv, NEW w \in Worker, pc[w] \notin {"idle", "giveup"}
    PROVE  cur[w] \in Id /\ cur[w] # NoId /\ Items[cur[w]] = "open"
<1>1. cur[w] \in Id /\ cur[w] # NoId /\ remote[cur[w]] \in {w, "deleted"} /\ w # "none"
  BY HolderHasId, IdAssumption, WorkerAssumption DEF TypeInv, CareInv, HandsInv, InHands
<1>2. ~Shows(cur[w], "done") /\ w # "deleted"
  BY WorkerAssumption DEF CareInv, DoneIsOver, Shows
<1>3. CASE pc[w] = "got"
  <2>1. remote[cur[w]] = w
    BY <1>3 DEF CareInv, HandsInv, InHands
  <2> QED
    BY <1>1, <1>2, <2>1, ItemIs
<1>4. CASE pc[w] # "got"
  <2>1. pc[w] \in {"running", "over", "late", "ran"}
    BY <1>4 DEF TypeInv, TypeOK
  <2>2. Shows(cur[w], "wip")
    BY <2>1, PastRow DEF Shows
  <2> QED
    BY <1>1, <1>2, <2>2, ItemIs
<1> QED
  BY <1>3, <1>4

(* A worker drops what it holds without writing a row. *)
LEMMA LosesLease ==
    ASSUME TypeInv, NEW w \in Worker, LeaveQuietly(w)
    PROVE  [Contract!Next]_(Contract!vars)
<1>1. Leave(w) /\ UNCHANGED <<remote, qid, state, commits>>
  BY DEF LeaveQuietly, sqsVars, rowVars
<1>2. Leases'[w] = <<NoId, "none">>
  BY <1>1, LeaveGone DEF Gone, Leases
<1>3. Leases' = [Leases EXCEPT ![w] = <<NoId, "none">>]
  BY <1>1, <1>2, LeaveGone, OneLease
<1>4. Items' = Items
  BY <1>1, ItemsSame
<1>5. CASE Leases[w] = <<NoId, "none">>
  <2>1. Leases = [v \in Worker |-> Leases[v]]
    BY DEF Leases
  <2>2. Leases' = Leases
    BY <1>3, <1>5, <2>1
  <2> QED
    BY <1>1, <1>4, <2>2 DEF Contract!vars
<1>6. CASE Leases[w] # <<NoId, "none">>
  <2>1. Contract!LoseLease(w)
    BY <1>1, <1>3, <1>4, <1>6 DEF Contract!LoseLease, Contract!Free
  <2> QED
    BY <2>1 DEF Contract!Next
<1> QED
  BY <1>5, <1>6

RowItems ==
    \A r \in Row : qid[r] \in Id /\ qid[r] # NoId /\ remote[qid[r]] # "none" =>
        Items[qid[r]] = CASE state[r] = "done" -> "done"
                          [] state[r] = "wip" -> "open"
                          [] OTHER -> IF remote[qid[r]] = "deleted" THEN "closed" ELSE "open"

LEMMA ItemOfRow == OneRow => RowItems
<1> SUFFICES ASSUME OneRow, NEW r \in Row, qid[r] \in Id, qid[r] # NoId, remote[qid[r]] # "none"
             PROVE  Items[qid[r]] = CASE state[r] = "done" -> "done"
                          [] state[r] = "wip" -> "open"
                          [] OTHER -> IF remote[qid[r]] = "deleted" THEN "closed" ELSE "open"
  BY DEF RowItems
<1>1. /\ Shows(qid[r], "done") <=> state[r] = "done"
      /\ Shows(qid[r], "wip") <=> state[r] = "wip"
  BY ShowsRow
<1> QED
  BY <1>1, ItemIs

(* A worker changes no item but that of its message. *)
LEMMA OtherItems ==
    ASSUME TypeInv, LinkInv, NEW w \in Worker, OthersSame(w),
           Silent(w) \/ Rewrites(w) \/ \E r \in Row : Creates(w, r)
    PROVE  \A d \in Id \ {cur[w]} : Items'[d] = Items[d]
<1> SUFFICES ASSUME NEW d \in Id \ {cur[w]}
             PROVE  Items'[d] = Items[d]
  OBVIOUS
<1>1. remote'[d] = remote[d] /\ d # NoId
  BY IdAssumption DEF OthersSame
<1>2. CASE Silent(w)
  BY <1>1, <1>2, ItemStays DEF Silent
<1>3. CASE Rewrites(w)
  <2>1. qid[rec[w]] = cur[w]
    BY <1>3, IdAssumption DEF Rewrites, LinkInv, HolderInv
  <2> QED
    BY <1>1, <1>3, <2>1, ItemStays DEF Rewrites
<1>4. CASE \E r \in Row : Creates(w, r)
  BY <1>1, <1>4, ItemStays DEF Creates, NewRow
<1> QED
  BY <1>2, <1>3, <1>4

(* The job ends, and the lease says how. *)
LEMMA JobSimulation ==
    ASSUME TypeInv, LinkInv, CareInv, NEW w \in Worker,
           JobOk(w) \/ JobFails(w) \/ JobAgain(w) \/ JobOperational(w) \/ CommitLate(w)
    PROVE  [Contract!Next]_(Contract!vars)
<1> DEFINE c == cur[w]
<1>1. PICK x \in {"done", "imqerror", "terminated", "failed", "retry", "psycopg2_Error"},
           p \in {"over", "ran"}, n \in {0, 1} :
         /\ Ends(w, x, p) /\ pc[w] \in {"running", "late"}
         /\ x = "done" => p = "over" /\ n = 1
         /\ x = "imqerror" => p = "over" /\ n = 0
         /\ IF n = 0 THEN commits' = commits ELSE commits' = [commits EXCEPT ![c] = @ + 1]
  BY DEF JobOk, JobFails, JobAgain, JobOperational, CommitLate
<1>2. /\ pc'[w] = p /\ out'[w] = x /\ UNCHANGED <<remote, qid, state, cur>>
      /\ \A v \in Worker \ {w} : pc'[v] = pc[v] /\ cur'[v] = cur[v] /\ out'[v] = out[v]
  BY <1>1 DEF Ends, sqsVars, rowVars, TypeInv, TypeOK
<1>3. Items' = Items
  BY <1>2, ItemsSame
<1>4. c \in Id /\ c # NoId /\ Leases[w] = <<c, "working">>
  BY <1>1, ItemOpen, LeaseIs
<1>5. Contract!Holds(w, "working") /\ Leases[w][1] = c
  BY <1>4 DEF Contract!Holds
<1>6. commits[c] \in Nat /\ commits \in [Id -> Nat]
  BY <1>4 DEF TypeInv, TypeOK
<1>7. CASE x = "done"
  <2>1. Leases'[w] = <<c, "worked">>
    BY <1>1, <1>2, <1>7 DEF Leases
  <2>2. Leases' = [Leases EXCEPT ![w] = <<c, "worked">>]
    BY <1>2, <2>1, OneLease
  <2>3. commits' = [commits EXCEPT ![c] = @ + 1]
    BY <1>1, <1>7
  <2>4. Contract!Succeed(w)
    BY <1>3, <1>5, <2>2, <2>3 DEF Contract!Succeed
  <2> QED
    BY <2>4 DEF Contract!Next
<1>8. CASE x = "imqerror"
  <2>1. Leases'[w] = <<c, "working">>
    BY <1>1, <1>2, <1>8 DEF Leases
  <2>2. \A v \in Worker : Leases'[v] = Leases[v]
    BY <1>2, <1>4, <2>1 DEF Leases
  <2>3. Leases' = Leases /\ commits' = commits
    BY <1>1, <1>8, <2>2, LeasesKept
  <2> QED
    BY <1>3, <2>3 DEF Contract!vars
<1>9. CASE x \notin {"done", "imqerror"}
  <2>1. Leases'[w] = <<c, "over">>
    BY <1>1, <1>2, <1>9 DEF Leases
  <2>2. Leases' = [Leases EXCEPT ![w] = <<c, "over">>]
    BY <1>2, <2>1, OneLease
  <2>3. \E k \in {0, 1} : commits' = [commits EXCEPT ![c] = @ + k]
    <3>1. commits[c] + 0 = commits[c] /\ commits = [commits EXCEPT ![c] = commits[c]]
      BY <1>6
    <3> QED
      BY <1>1, <3>1
  <2>4. Contract!Fail(w)
    BY <1>3, <1>5, <2>2, <2>3 DEF Contract!Fail
  <2> QED
    BY <2>4 DEF Contract!Next
<1> QED
  BY <1>7, <1>8, <1>9

(* A message is stored: leased, or marked failed and left at SQS. *)
LEMMA StoreSimulation ==
    ASSUME NoInterference, TypeInv, LinkInv, CareInv, OneRow', NEW w \in Worker,
           Store(w) \/ StoreMarksFailed(w)
    PROVE  [Contract!Next]_(Contract!vars)
<1> DEFINE c == cur[w]
<1>1. /\ OthersSame(w)
      /\ Silent(w) \/ Rewrites(w) \/ \E r \in Row : Creates(w, r)
  BY WorkerEffect DEF LinkInv, Works, Disturbed
<1>2. pc[w] = "got" /\ UNCHANGED commits
  BY DEF Store, StoreMarksFailed
<1>3. /\ c \in Id /\ c # NoId /\ Items[c] = "open" /\ ~Contract!Leased(c)
      /\ Leases[w] = <<NoId, "none">>
  BY <1>2, ItemOpen, OnlyLessee, LeaseIs
<1>4. remote[c] = w /\ w \notin {"none", "deleted"}
  BY <1>2, WorkerAssumption DEF CareInv, HandsInv, InHands
<1>5. remote' = remote
  BY DEF Store, StoreMarksFailed, AfterChange, NoInterference
<1>6. PICK r \in Row, s \in {"wip", "failed"} : qid'[r] = c /\ state'[r] = s
  BY DEF Store, StoreMarksFailed, WriteRow, TypeInv, TypeOK
<1>7. Items'[c] = "open"
  <2>1. RowItems'
    BY ItemOfRow, PTL
  <2> QED
    BY <1>3, <1>4, <1>5, <1>6, <2>1 DEF RowItems
<1>8. Items' = Items
  <2>1. \A d \in Id : Items'[d] = Items[d]
    BY <1>1, <1>3, <1>7, OtherItems
  <2> QED
    BY <2>1, ItemsKept
<1>9. CASE Store(w)
  <2>1. pc'[w] = "running" /\ cur'[w] = c
    BY <1>9 DEF Store, TypeInv, TypeOK
  <2>2. Leases'[w] = <<c, "working">>
    BY <2>1 DEF Leases
  <2>3. Leases' = [Leases EXCEPT ![w] = <<c, "working">>]
    BY <1>1, <2>2, OneLease DEF OthersSame
  <2>4. Contract!Grant(w, c)
    BY <1>2, <1>3, <1>8, <2>3 DEF Contract!Grant, Contract!Free
  <2> QED
    BY <1>3, <2>4 DEF Contract!Next
<1>10. CASE StoreMarksFailed(w)
  <2>1. Leases'[w] = <<NoId, "none">>
    BY <1>10, LeaveGone DEF StoreMarksFailed, Gone, Leases
  <2>2. \A v \in Worker : Leases'[v] = Leases[v]
    BY <1>1, <1>3, <2>1 DEF Leases, OthersSame
  <2>3. Leases' = Leases
    BY <2>2, LeasesKept
  <2> QED
    BY <1>2, <1>8, <2>3 DEF Contract!vars
<1> QED
  BY <1>9, <1>10

(* The message is deleted before the result is recorded: the ledger sees nothing. *)
LEMMA DeleteSimulation ==
    ASSUME TypeInv, LinkInv, CareInv, OneRow', NEW w \in Worker, Delete(w)
    PROVE  UNCHANGED Contract!vars
<1> DEFINE c == cur[w]
<1>1. /\ OthersSame(w)
      /\ Silent(w) \/ Rewrites(w) \/ \E r \in Row : Creates(w, r)
  BY WorkerEffect DEF LinkInv, Works
<1>2. /\ pc[w] = "over" /\ pc'[w] = IF out[w] = "imqerror" THEN "late" ELSE "ran"
      /\ UNCHANGED <<qid, state, cur, rec, out, commits>>
  BY DEF Delete, rowVars, TypeInv, TypeOK
<1>3. c \in Id /\ c # NoId /\ Items[c] = "open"
  BY <1>2, ItemOpen
<1>4. rec[w] \in Row /\ state[rec[w]] = "wip" /\ qid[rec[w]] = c
  BY <1>2, PastRow
<1>5. remote'[c] # "none"
  BY <1>2, <1>3, WorkerAssumption DEF Delete, Deleted, CareInv, HandsInv, InHands, TypeInv, TypeOK
<1>6. Items'[c] = "open"
  <2>1. RowItems'
    BY ItemOfRow, PTL
  <2> QED
    BY <1>2, <1>3, <1>4, <1>5, <2>1 DEF RowItems
<1>7. Items' = Items
  <2>1. \A d \in Id : Items'[d] = Items[d]
    BY <1>1, <1>3, <1>6, OtherItems
  <2> QED
    BY <2>1, ItemsKept
<1>8. Leases' = Leases
  <2>1. Leases'[w] = Leases[w]
    BY <1>2 DEF Leases
  <2>2. \A v \in Worker : Leases'[v] = Leases[v]
    BY <1>1, <2>1 DEF Leases, OthersSame
  <2> QED
    BY <2>2, LeasesKept
<1> QED
  BY <1>2, <1>7, <1>8 DEF Contract!vars

(* The result is recorded in the row, and the lease ends. *)
LEMMA RecordSimulation ==
    ASSUME TypeInv, LinkInv, CareInv, OneRow', NEW w \in Worker,
           Record(w) \/ RecordOperational(w)
    PROVE  [Contract!Next]_(Contract!vars)
<1> DEFINE c == cur[w]
<1>1. /\ OthersSame(w)
      /\ Silent(w) \/ Rewrites(w) \/ \E r \in Row : Creates(w, r)
  BY WorkerEffect DEF LinkInv, Works
<1>2. /\ pc[w] = "ran" /\ UNCHANGED <<remote, qid, commits>>
  BY DEF Record, RecordOperational, MarkFailed
<1>3. c \in Id /\ c # NoId /\ Items[c] = "open"
  BY <1>2, ItemOpen
<1>4. rec[w] \in Row /\ state[rec[w]] = "wip" /\ qid[rec[w]] = c
  BY <1>2, PastRow
<1>5. remote[c] # "none"
  BY <1>2, WorkerAssumption DEF CareInv, HandsInv, InHands
<1>6. /\ out[w] = "done" => state'[rec[w]] = "done"
      /\ out[w] # "done" => state'[rec[w]] \notin {"done", "wip"}
  <2>1. CASE Record(w)
    <3>1. state'[rec[w]] = out[w]
      BY <1>4, <2>1 DEF Record, TypeInv, TypeOK
    <3>2. out[w] # "wip"
      BY DEF TypeInv, TypeOK, Final
    <3> QED
      BY <3>1, <3>2
  <2>2. CASE RecordOperational(w)
    BY <1>4, <2>2 DEF RecordOperational, MarkFailed, TypeInv, TypeOK
  <2> QED
    BY <2>1, <2>2
<1>7. /\ out[w] = "done" => Items'[c] = "done"
      /\ out[w] # "done" => Items'[c] \in {"open", "closed"}
  <2>1. RowItems'
    BY ItemOfRow, PTL
  <2> QED
    BY <1>2, <1>3, <1>4, <1>5, <1>6, <2>1 DEF RowItems
<1>8. Items' = [Items EXCEPT ![c] = Items'[c]]
  <2>1. \A d \in Id \ {c} : Items'[d] = Items[d]
    BY <1>1, OtherItems
  <2> QED
    BY <1>3, <2>1, OneItem
<1>9. Leases' = [Leases EXCEPT ![w] = <<NoId, "none">>]
  <2>1. pc'[w] \in {"idle", "giveup"}
    BY LeaveGone DEF Record, RecordOperational, MarkFailed, Gone, TypeInv, TypeOK
  <2>2. Leases'[w] = <<NoId, "none">>
    BY <2>1 DEF Leases
  <2> QED
    BY <1>1, <2>2, OneLease DEF OthersSame
<1>10. Leases[w] = <<c, IF out[w] = "done" THEN "worked" ELSE "over">>
  BY <1>2, LeaseIs
<1>11. /\ Leases[w] # Contract!Free /\ Leases[w][1] = c
       /\ Contract!Holds(w, IF out[w] = "done" THEN "worked" ELSE "over")
  BY <1>3, <1>10 DEF Contract!Free, Contract!Holds
<1>12. Contract!Report(w)
  <2>1. CASE out[w] = "done"
    BY <1>2, <1>3, <1>7, <1>8, <1>9, <1>11, <2>1 DEF Contract!Report, Contract!Free
  <2>2. CASE out[w] # "done"
    BY <1>2, <1>3, <1>7, <1>8, <1>9, <1>11, <2>2 DEF Contract!Report, Contract!Free
  <2> QED
    BY <2>1, <2>2
<1> QED
  BY <1>12 DEF Contract!Next

(* Nobody runs it: it is closed by its deletion. *)
LEMMA Shelved ==
    ASSUME UNCHANGED commits, Leases' = Leases, NEW c \in Id, ~Contract!Leased(c),
           Items[c] \in {"open", "done", "closed"}, Items'[c] \in {Items[c], "closed"},
           \A d \in Id \ {c} : Items'[d] = Items[d]
    PROVE  [Contract!Next]_(Contract!vars)
<1>1. CASE Items'[c] = Items[c]
  BY <1>1, ItemsKept DEF Contract!vars
<1>2. CASE Items'[c] # Items[c]
  <2>1. Items' = [d \in Id |-> IF d \in {c} THEN "closed" ELSE Items[d]]
    <3>1. Items' = [d \in Id |-> Items'[d]]
      BY DEF Items
    <3> QED
      BY <1>2, <3>1
  <2>2. Contract!Shelve({c})
    BY <1>2, <2>1 DEF Contract!Shelve
  <2> QED
    BY <2>2 DEF Contract!Next
<1> QED
  BY <1>1, <1>2

LEMMA GiveUpSimulation ==
    ASSUME TypeInv, LinkInv, CareInv, NEW w \in Worker, GiveUp(w)
    PROVE  [Contract!Next]_(Contract!vars)
<1>1. PICK c \in Id : c = cur[w] /\ pc[w] = "giveup"
  BY HolderHasId DEF GiveUp, TypeInv
<1>2. /\ OthersSame(w)
      /\ Silent(w) \/ Rewrites(w) \/ \E r \in Row : Creates(w, r)
  BY WorkerEffect DEF LinkInv, Works
<1>3. pc[w] = "giveup" /\ UNCHANGED <<qid, state, commits>> /\ Leave(w)
  BY DEF GiveUp, rowVars
<1>4. ~Contract!Leased(c) /\ Leases[w] = <<NoId, "none">>
  BY <1>1, OnlyLessee, LeaseIs
<1>5. \A s : Shows(c, s)' <=> Shows(c, s)
  BY <1>3 DEF Shows
<1>6. ~Shows(c, "done")
  BY <1>1 DEF CareInv, DoneIsOver, Shows
<1>7. remote[c] # "none" /\ remote'[c] \in {remote[c], "deleted"}
  BY <1>1, WorkerAssumption DEF GiveUp, Deleted, CareInv, HandsInv, InHands, TypeInv, TypeOK
<1>8. Items[c] \in {"open", "closed"} /\ Items'[c] \in {Items[c], "closed"}
  BY <1>5, <1>6, <1>7 DEF Items
<1>9. Leases' = Leases
  <2>1. Leases'[w] = <<NoId, "none">>
    BY <1>3, LeaveGone DEF Gone, Leases
  <2>2. \A v \in Worker : Leases'[v] = Leases[v]
    BY <1>2, <1>4, <2>1 DEF Leases, OthersSame
  <2> QED
    BY <2>2, LeasesKept
<1> QED
  BY <1>1, <1>2, <1>3, <1>4, <1>8, <1>9, OtherItems, Shelved

(* A message is sent, by a producer or by a retry. *)
LEMMA SendSimulation ==
    ASSUME TypeInv, LinkInv, NEW c \in Id, SendMessage(c) \/ \E r \in Row : RetrySend(r, c)
    PROVE  Contract!Next
<1>1. /\ remote[c] = "none" /\ remote' = [remote EXCEPT ![c] = "visible"]
      /\ UNCHANGED <<qid, state, pc, cur, out, commits>>
  BY DEF SendMessage, RetrySend, NextId, rowVars
<1>2. Items[c] = "new"
  BY <1>1, ItemIs
<1>3. ~Stored(c)
  BY <1>1, IdAssumption DEF LinkInv, SentInv, Stored
<1>4. Items'[c] = "open"
  <2>1. remote'[c] = "visible" /\ \A s : ~Shows(c, s)'
    BY <1>1, <1>3 DEF Stored, Shows, TypeInv, TypeOK
  <2> QED
    BY <2>1 DEF Items
<1>5. \A d \in Id \ {c} : Items'[d] = Items[d]
  BY <1>1, ItemStays DEF TypeInv, TypeOK
<1>6. Items' = [Items EXCEPT ![c] = "open"]
  BY <1>4, <1>5, OneItem
<1>7. Contract!Submit(c)
  BY <1>1, <1>2, <1>6, LeasesSame DEF Contract!Submit
<1> QED
  BY <1>7 DEF Contract!Next

(* A retry commits: the message its row was done with has no row any more. *)
LEMMA CommitSimulation ==
    ASSUME TypeInv, LinkInv, CareInv, NEW c \in Id, RetryCommit(c)
    PROVE  [Contract!Next]_(Contract!vars)
<1>1. PICK r \in Row :
         /\ r = origin[c] /\ retrial[c] = "open" /\ ~Stored(c)
         /\ qid'[r] = c /\ state'[r] = "retry"
         /\ \A s \in Row : s # r => qid'[s] = qid[s] /\ state'[s] = state[s]
         /\ UNCHANGED <<remote, pc, cur, out>>
  BY CommitEffect
<1>2. UNCHANGED commits /\ Leases' = Leases
  BY <1>1, LeasesSame DEF RetryCommit
<1>3. PICK d \in Id : d = qid[r] /\ d # NoId /\ d # c
  <2>1. qid[r] # NoId
    BY <1>1 DEF LinkInv, RowKnown
  <2> QED
    BY <1>1, <2>1 DEF Stored, TypeInv, TypeOK
<1>4. Items'[c] = Items[c]
  <2>1. \A s \in {"done", "wip"} : ~Shows(c, s) /\ ~Shows(c, s)'
    BY <1>1, <1>3 DEF Stored, Shows
  <2> QED
    BY <1>1, <2>1 DEF Items
<1>5. \A e \in Id \ {c, d} : Items'[e] = Items[e]
  BY <1>1, <1>3, ItemStays
<1>6. \A s : ~Shows(d, s)'
  BY <1>1, <1>3 DEF Shows, LinkInv, OneRow
<1>7. \A s : Shows(d, s) <=> state[r] = s
  BY <1>3, ShowsRow DEF LinkInv
<1>8. remote[d] # "none" /\ state[r] # "wip"
  BY <1>1, <1>3 DEF LinkInv, SentInv, CareInv, RetryRests
<1>9. CASE state[r] = "done"
  <2>1. remote[d] = "deleted" /\ \A w \in Worker : cur[w] # d
    BY <1>3, <1>9 DEF CareInv, DoneIsOver
  <2>2. ~Contract!Leased(d)
    BY <2>1, LesseeHas DEF Contract!Leased
  <2>3. Items[d] = "done" /\ Items'[d] = "closed"
    BY <1>1, <1>6, <1>7, <1>8, <1>9, <2>1 DEF Items
  <2>4. \A e \in Id \ {d} : Items'[e] = Items[e]
    BY <1>4, <1>5
  <2> QED
    BY <1>2, <2>2, <2>3, <2>4, Shelved
<1>10. CASE state[r] # "done"
  <2>1. Items'[d] = Items[d]
    BY <1>1, <1>6, <1>7, <1>8, <1>10 DEF Items
  <2>2. Items' = Items
    BY <1>4, <1>5, <2>1, ItemsKept
  <2> QED
    BY <1>2, <2>2 DEF Contract!vars
<1> QED
  BY <1>9, <1>10

(* Deliveries, and retries that abort, are not seen. *)
LEMMA Unseen ==
    ASSUME TypeInv, NEW c \in Id,
           RetryAbort(c) \/ Timeout(c) \/ \E w \in Worker : Receive(w, c)
    PROVE  UNCHANGED Contract!vars
<1>1. CASE RetryAbort(c)
  BY <1>1, ItemsSame, LeasesSame DEF RetryAbort, rowVars, Contract!vars
<1>2. ASSUME NEW x \in Worker \cup {"visible"}, remote' = [remote EXCEPT ![c] = x],
             remote[c] \in Worker \cup {"visible"}, UNCHANGED <<qid, state>>
      PROVE  Items' = Items
  <2>1. x \notin {"none", "deleted"} /\ remote[c] \notin {"none", "deleted"}
    BY <1>2, WorkerAssumption
  <2>2. remote'[c] = x /\ \A d \in Id \ {c} : remote'[d] = remote[d]
    BY <1>2 DEF TypeInv, TypeOK
  <2>3. \A s : Shows(c, s)' <=> Shows(c, s)
    BY <1>2 DEF Shows
  <2>4. Items'[c] = Items[c]
    BY <2>1, <2>2, <2>3 DEF Items
  <2>5. \A d \in Id \ {c} : Items'[d] = Items[d]
    BY <1>2, <2>2, ItemStays
  <2> QED
    BY <2>4, <2>5, ItemsKept
<1>3. CASE Timeout(c)
  <2>1. PICK w \in Worker : Overdue(c, w)
    BY <1>3 DEF Timeout
  <2>2. Items' = Items
    BY <1>2, <2>1 DEF Overdue, rowVars
  <2> QED
    BY <2>1, <2>2, LeasesSame DEF Overdue, Contract!vars
<1>4. ASSUME NEW w \in Worker, Receive(w, c)
      PROVE  UNCHANGED Contract!vars
  <2>1. Items' = Items
    BY <1>2, <1>4 DEF Receive, Pickable, rowVars
  <2>2. \A v \in Worker : Leases'[v] = Leases[v]
    BY <1>4 DEF Receive, Leases, TypeInv, TypeOK
  <2> QED
    BY <1>4, <2>1, <2>2, LeasesKept DEF Receive, Contract!vars
<1> QED
  BY <1>1, <1>3, <1>4

LEMMA Simulation ==
    ASSUME NoInterference
    PROVE  TypeInv /\ LinkInv /\ CareInv /\ [Next]_vars => [Contract!Next]_(Contract!vars)
<1> SUFFICES ASSUME TypeInv, LinkInv, CareInv, [Next]_vars
             PROVE  [Contract!Next]_(Contract!vars)
  OBVIOUS
<1>1. OneRow'
  BY LinkStep DEF LinkInv
<1>2. ASSUME NEW w \in Worker, Works(w)
      PROVE  [Contract!Next]_(Contract!vars)
  <2>1. CASE Store(w)
    BY <1>1, <2>1, StoreSimulation
  <2>2. CASE StoreRefused(w) \/ RecordRefused(w)
    BY <2>2, LosesLease DEF StoreRefused, RecordRefused
  <2>3. CASE JobOk(w) \/ JobFails(w) \/ JobAgain(w) \/ CommitLate(w)
    BY <2>3, JobSimulation
  <2>4. CASE Delete(w)
    BY <1>1, <2>4, DeleteSimulation
  <2>5. CASE Record(w) \/ RecordOperational(w)
    BY <1>1, <2>5, RecordSimulation
  <2>6. CASE GiveUp(w)
    BY <2>6, GiveUpSimulation
  <2> QED
    BY <1>2, <2>1, <2>2, <2>3, <2>4, <2>5, <2>6 DEF Works
<1>3. ASSUME NEW w \in Worker, Disturbed(w)
      PROVE  [Contract!Next]_(Contract!vars)
  <2>1. CASE StoreRaisesCron(w) \/ Crash(w)
    BY <2>1, LosesLease DEF StoreRaisesCron, Crash
  <2>2. CASE StoreMarksFailed(w)
    BY <1>1, <2>2, StoreSimulation
  <2>3. CASE JobOperational(w)
    BY <2>3, JobSimulation
  <2>4. ~DeleteRaisesOnce(w) /\ ~DeleteRaises(w) /\ ~GiveUpRaises(w)
    BY DEF DeleteRaisesOnce, DeleteRaises, GiveUpRaises, Fault, NoInterference
  <2> QED
    BY <1>3, <2>1, <2>2, <2>3, <2>4 DEF Disturbed
<1>4. \A c \in Id : ~Overrun(c)
  BY DEF Overrun, Fault, NoInterference
<1>5. CASE UNCHANGED vars
  BY <1>5, ItemsSame, LeasesSame DEF vars, Contract!vars
<1> QED
  BY <1>2, <1>3, <1>4, <1>5, SendSimulation, CommitSimulation, Unseen DEF Next

LEMMA InitialLedger == Init => Contract!Init
<1> SUFFICES ASSUME Init
             PROVE  Contract!Init
  OBVIOUS
<1>1. Items = [c \in Id |-> "new"]
  BY DEF Init, Items
<1>2. Leases = [w \in Worker |-> Contract!Free]
  BY DEF Init, Leases, Contract!Free
<1> QED
  BY <1>1, <1>2 DEF Init, Contract!Init

(* A queue at SQS whose messages are not delivered while a worker has them keeps
   the contract of the PostgreSQL provider, although what SQS holds, what the row
   says and what the job did are changed by separate transactions: nothing sent is
   settled under a worker, or without a result or a retry, and only a worker whose
   own job committed makes a message done. *)
THEOREM ImplementsLedger ==
    ASSUME NoInterference
    PROVE  Spec => KeepsContract
<1>1. TypeInv /\ LinkInv /\ CareInv /\ [Next]_vars => CareInv'
  BY CareStep
<1>2. TypeInv /\ LinkInv /\ CareInv /\ [Next]_vars => [Contract!Next]_(Contract!vars)
  BY Simulation
<1> QED
  BY <1>1, <1>2, TypeInit, TypeStep, LinkInit, LinkStep, CareInit, InitialLedger, PTL
     DEF Spec, KeepsContract, Contract!Spec
=============================================================================

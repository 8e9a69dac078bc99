-------------------------- MODULE SqsFaultsProofs --------------------------
(***************************************************************************)
(* What a fault can cost at SQS: one commit of a job more than one, one    *)
(* attempt more than the processor allows, or one message whose row is     *)
(* never finished.  For any messages, rows and workers, as long as a       *)
(* message that is stored is not made visible at once (Visibility #        *)
(* "zero").                                                                *)
(***************************************************************************)
EXTENDS SqsQueueProofs

-----------------------------------------------------------------------------
(* The message is not to be deleted any more for the result of its job. *)
Finishing(w) == pc[w] \in {"ran", "giveup"}

(* Commits that are still to come without a fault: one by each worker that has
   the message and has not committed its job, ... *)
CommitsAhead(w) ==
    pc[w] \in {"got", "running", "late"} \/ (pc[w] = "over" /\ out[w] = "imqerror")

Committers(c) == {w \in Worker : cur[w] = c /\ CommitsAhead(w)}

(* ... and one more if SQS may deliver it, now or when its last receiver has
   left it undeleted. *)
Deliverable(c) ==
    \/ remote[c] \in {"none", "visible"}
    \/ \E w \in Worker : remote[c] = w /\ (cur[w] = c => Finishing(w))

Deliveries(c) == IF Deliverable(c) THEN 1 ELSE 0

(* All of them together, and the commits made, take a fault each but for one. *)
Accounted(c) ==
    /\ IsFiniteSet(Committers(c))
    /\ commits[c] + Cardinality(Committers(c)) + Deliveries(c) <= 1 + Used

(* A job that commits after the deletion has deleted its message, or another
   worker was given it since. *)
LateIsDeleted == \A w \in Worker : pc[w] = "late" => remote[cur[w]] # w

AccountInv == LateIsDeleted /\ \A c \in Id : Accounted(c)

LEMMA UsedType == TypeOK => Used \in Nat /\ faults \in Nat
BY FaultsAssumption DEF TypeOK, Used

(* Nobody new may commit, and a delivery too many takes a fault. *)
LEMMA AccountKept ==
    ASSUME TypeOK, TypeOK', NEW c \in Id, Accounted(c), commits'[c] = commits[c],
           Committers(c)' \subseteq Committers(c), faults' <= faults,
           Deliverable(c)' => Deliverable(c) \/ faults' < faults
    PROVE  Accounted(c)'
<1>1. /\ IsFiniteSet(Committers(c)') /\ IsFiniteSet(Committers(c))
      /\ Cardinality(Committers(c)') <= Cardinality(Committers(c))
  BY FS_Subset DEF Accounted
<1>2. Cardinality(Committers(c)') \in Nat /\ Cardinality(Committers(c)) \in Nat
  BY <1>1, FS_CardinalityType
<1>3. commits[c] \in Nat /\ Faults \in Nat /\ faults \in Nat /\ faults' \in Nat
  BY FaultsAssumption DEF TypeOK
<1>4. Used = Faults - faults /\ Used' = Faults - faults'
  BY DEF Used
<1>5. Deliveries(c)' <= Deliveries(c) + (faults - faults')
  <2>1. Deliveries(c) \in {0, 1} /\ Deliveries(c)' \in {0, 1}
    BY DEF Deliveries
  <2>2. CASE Deliveries(c)' <= Deliveries(c)
    BY <1>3, <2>1, <2>2
  <2>3. CASE Deliveries(c)' = 1 /\ Deliveries(c) = 0
    <3>1. Deliverable(c)' /\ ~Deliverable(c)
      BY <2>3 DEF Deliveries
    <3>2. faults' < faults
      BY <3>1
    <3>3. ASSUME NEW a \in Nat, NEW b \in Nat, b < a
          PROVE  1 <= 0 + (a - b)
      BY <3>3
    <3> QED
      BY <1>3, <2>3, <3>2, <3>3
  <2> QED
    BY <2>1, <2>2, <2>3
<1>6. Deliveries(c) \in {0, 1} /\ Deliveries(c)' \in {0, 1}
  BY DEF Deliveries
<1>7. commits[c] + Cardinality(Committers(c)) + Deliveries(c) <= 1 + (Faults - faults)
  BY <1>4 DEF Accounted
<1>8. commits[c] + Cardinality(Committers(c)') + Deliveries(c)' <= 1 + (Faults - faults')
  BY <1>1, <1>2, <1>3, <1>5, <1>6, <1>7
<1> QED
  BY <1>1, <1>4, <1>8 DEF Accounted

(* A worker turns the commit it owes into one, or into a delivery. *)
LEMMA AccountTraded ==
    ASSUME TypeOK, TypeOK', NEW c \in Id, Accounted(c), NEW w \in Committers(c),
           Committers(c)' = Committers(c) \ {w}, faults' <= faults,
           \/ commits'[c] = commits[c]
           \/ commits'[c] = commits[c] + 1 /\ (Deliverable(c)' => Deliverable(c))
    PROVE  Accounted(c)'
<1>1. /\ IsFiniteSet(Committers(c)') /\ IsFiniteSet(Committers(c))
      /\ Cardinality(Committers(c)') = Cardinality(Committers(c)) - 1
  BY FS_RemoveElement DEF Accounted
<1>2. Cardinality(Committers(c)') \in Nat /\ Cardinality(Committers(c)) \in Nat
  BY <1>1, FS_CardinalityType
<1>3. commits[c] \in Nat /\ Faults \in Nat /\ faults \in Nat /\ faults' \in Nat
  BY FaultsAssumption DEF TypeOK
<1>4. Used = Faults - faults /\ Used' = Faults - faults'
  BY DEF Used
<1>5. commits'[c] + Deliveries(c)' <= commits[c] + Deliveries(c) + 1
  <2>1. Deliveries(c) \in {0, 1} /\ Deliveries(c)' \in {0, 1}
    BY DEF Deliveries
  <2>2. CASE commits'[c] = commits[c]
    BY <1>3, <2>1, <2>2
  <2>3. CASE commits'[c] = commits[c] + 1 /\ (Deliverable(c)' => Deliverable(c))
    <3>1. Deliveries(c)' <= Deliveries(c)
      BY <2>3 DEF Deliveries
    <3> QED
      BY <1>3, <2>1, <2>3, <3>1
  <2> QED
    BY <2>2, <2>3
<1>6. Deliveries(c) \in {0, 1} /\ Deliveries(c)' \in {0, 1}
  BY DEF Deliveries
<1>7. commits[c] + Cardinality(Committers(c)) + Deliveries(c) <= 1 + (Faults - faults)
  BY <1>4 DEF Accounted
<1>8. commits'[c] \in Nat
  BY DEF TypeOK
<1>9. commits'[c] + Cardinality(Committers(c)') + Deliveries(c)' <= 1 + (Faults - faults')
  BY <1>1, <1>2, <1>3, <1>5, <1>6, <1>7, <1>8
<1> QED
  BY <1>1, <1>4, <1>9 DEF Accounted

(* A step of worker w changes nothing for the messages it does not have. *)
LEMMA OthersUntouched ==
    ASSUME TypeOK, NEW w \in Worker, NEW c \in Id, cur[w] # c, cur'[w] # c,
           \A v \in Worker \ {w} : pc'[v] = pc[v] /\ cur'[v] = cur[v] /\ out'[v] = out[v],
           remote'[c] = remote[c]
    PROVE  Committers(c)' = Committers(c) /\ (Deliverable(c)' <=> Deliverable(c))
<1>1. Committers(c)' = Committers(c)
  <2>1. ASSUME NEW v \in Worker
        PROVE  cur'[v] = c /\ CommitsAhead(v)' <=> cur[v] = c /\ CommitsAhead(v)
    BY DEF CommitsAhead
  <2> QED
    BY <2>1 DEF Committers
<1>2. ASSUME NEW v \in Worker
      PROVE  (cur'[v] = c => pc'[v] \in {"ran", "giveup"})
             <=> (cur[v] = c => pc[v] \in {"ran", "giveup"})
  OBVIOUS
<1> QED
  BY <1>1, <1>2 DEF Deliverable, Finishing

(* A step of a worker keeps the accounts if it keeps those of its message. *)
LEMMA AccountOwn ==
    ASSUME TypeInv, TypeInv', AccountInv, NEW w \in Worker, pc[w] # "idle",
           \A v \in Worker \ {w} : pc'[v] = pc[v] /\ cur'[v] = cur[v] /\ out'[v] = out[v],
           cur'[w] \in {cur[w], NoId}, faults' <= faults,
           \A d \in Id \ {cur[w]} : remote'[d] = remote[d] /\ commits'[d] = commits[d],
           remote'[cur[w]] \in {remote[cur[w]], "deleted"},
           pc'[w] = "late" => remote'[cur[w]] # w /\ cur'[w] = cur[w],
           NEW c \in Id, c = cur[w], Accounted(c)'
    PROVE  AccountInv'
<1>1. ASSUME NEW d \in Id \ {c}
      PROVE  Accounted(d)'
  <2>1. cur[w] # d /\ cur'[w] # d
    BY IdAssumption
  <2>2. Committers(d)' = Committers(d) /\ (Deliverable(d)' <=> Deliverable(d))
    BY <2>1, OthersUntouched DEF TypeInv
  <2> QED
    BY <2>2, AccountKept DEF TypeInv, AccountInv
<1>2. LateIsDeleted'
  <2> SUFFICES ASSUME NEW v \in Worker, pc'[v] = "late"
               PROVE  remote'[cur'[v]] # v
    BY DEF LateIsDeleted
  <2>1. CASE v = w
    BY <2>1
  <2>2. CASE v # w
    <3>1. pc[v] = "late" /\ cur'[v] = cur[v] /\ cur[v] \in Id /\ remote[cur[v]] # v
      BY <2>2, HolderHasId DEF AccountInv, LateIsDeleted, TypeInv
    <3>2. remote'[cur[v]] \in {remote[cur[v]], "deleted"} /\ v # "deleted"
      BY <3>1, WorkerAssumption
    <3> QED
      BY <3>1, <3>2
  <2> QED
    BY <2>1, <2>2
<1> QED
  BY <1>1, <1>2 DEF AccountInv

(* A worker leaves: from a row it could not store, after recording, after a
   fault, or after deleting its message once more. *)
LEMMA AccountLeave ==
    ASSUME TypeInv, TypeInv', AccountInv, NEW w \in Worker, Leave(w), UNCHANGED commits,
           \/ pc[w] \in {"got", "ran", "giveup"} /\ faults' <= faults
           \/ pc[w] # "idle" /\ faults' < faults,
           remote' = remote \/ remote' = [remote EXCEPT ![cur[w]] = "deleted"]
    PROVE  AccountInv'
<1>1. PICK c \in Id : c = cur[w]
  BY HolderHasId DEF TypeInv
<1>2. /\ pc'[w] = "idle" /\ cur'[w] = NoId /\ out'[w] = "none"
      /\ \A v \in Worker \ {w} : pc'[v] = pc[v] /\ cur'[v] = cur[v] /\ out'[v] = out[v]
  BY DEF Leave, TypeInv, TypeOK
<1>3. /\ \A d \in Id \ {c} : remote'[d] = remote[d]
      /\ remote'[c] \in {remote[c], "deleted"}
  BY <1>1 DEF TypeInv, TypeOK
<1>4. Committers(c)' = Committers(c) \ {w}
  <2>1. \A v \in Worker \ {w} : CommitsAhead(v)' <=> CommitsAhead(v)
    BY <1>2 DEF CommitsAhead
  <2>2. cur'[w] # c
    BY <1>2, IdAssumption
  <2> QED
    BY <1>2, <2>1, <2>2 DEF Committers
<1>5. /\ faults' <= faults /\ faults \in Nat /\ faults' \in Nat
  BY FaultsAssumption DEF TypeInv, TypeOK
<1>6. Deliverable(c)' => Deliverable(c) \/ remote[c] = w
  <2> SUFFICES ASSUME Deliverable(c)', remote[c] # w
               PROVE  Deliverable(c)
    OBVIOUS
  <2>1. remote'[c] = remote[c]
    BY <1>3, WorkerAssumption DEF Deliverable, Finishing
  <2> QED
    BY <1>2, <2>1 DEF Deliverable, Finishing
<1>7. Accounted(c)'
  <2>1. CASE w \in Committers(c) /\ ~(faults' < faults)
    BY <1>4, <1>5, <2>1, AccountTraded DEF AccountInv, TypeInv
  <2>2. CASE faults' < faults
    BY <1>4, <1>5, <2>2, AccountKept DEF AccountInv, TypeInv
  <2>3. CASE w \notin Committers(c) /\ ~(faults' < faults)
    <3>1. pc[w] \in {"ran", "giveup"}
      BY <1>1, <2>3 DEF Committers, CommitsAhead
    <3>2. Deliverable(c)' => Deliverable(c)
      BY <1>6, <3>1 DEF Deliverable, Finishing
    <3> QED
      BY <1>4, <1>5, <3>2, AccountKept DEF AccountInv, TypeInv
  <2> QED
    BY <2>1, <2>2, <2>3
<1> QED
  BY <1>1, <1>2, <1>3, <1>5, <1>7, AccountOwn

(* A worker goes on with its message: it commits or not, owes a commit less or
   not, and SQS does not get the message back without a trade or a fault. *)
LEMMA AccountStay ==
    ASSUME TypeInv, TypeInv', AccountInv, NEW w \in Worker, pc[w] # "idle", UNCHANGED cur,
           \A v \in Worker \ {w} : pc'[v] = pc[v] /\ out'[v] = out[v],
           faults' <= faults,
           \A d \in Id \ {cur[w]} : remote'[d] = remote[d] /\ commits'[d] = commits[d],
           \/ remote'[cur[w]] = remote[cur[w]] /\ (remote[cur[w]] # w \/ (Finishing(w)' => Finishing(w)))
           \/ remote'[cur[w]] = "deleted"
           \/ remote' = remote /\ CommitsAhead(w) /\ ~CommitsAhead(w)' /\ UNCHANGED commits,
           \/ commits'[cur[w]] = commits[cur[w]] /\ (CommitsAhead(w)' => CommitsAhead(w))
           \/ /\ commits'[cur[w]] = commits[cur[w]] + 1
              /\ CommitsAhead(w) /\ ~CommitsAhead(w)'
              /\ remote' = remote /\ (remote[cur[w]] # w \/ (Finishing(w)' => Finishing(w))),
           pc'[w] = "late" => remote'[cur[w]] # w
    PROVE  AccountInv'
<1>1. PICK c \in Id : c = cur[w]
  BY HolderHasId DEF TypeInv
<1>2. \A v \in Worker \ {w} : CommitsAhead(v)' <=> CommitsAhead(v)
  BY DEF CommitsAhead
<1>3. remote'[c] \in {remote[c], "deleted"}
  BY <1>1
<1>4. /\ CommitsAhead(w)' => CommitsAhead(w)
      /\ w \in Committers(c) <=> CommitsAhead(w)
  BY <1>1 DEF Committers
<1>5. ASSUME \/ remote'[c] = remote[c] /\ (remote[c] # w \/ (Finishing(w)' => Finishing(w)))
             \/ remote'[c] = "deleted"
      PROVE  Deliverable(c)' => Deliverable(c)
  <2> SUFFICES ASSUME Deliverable(c)'
               PROVE  Deliverable(c)
    OBVIOUS
  <2>1. remote'[c] = remote[c] /\ (remote[c] # w \/ (Finishing(w)' => Finishing(w)))
    BY <1>5, WorkerAssumption DEF Deliverable, Finishing
  <2>2. CASE remote[c] \in {"none", "visible"}
    BY <2>2 DEF Deliverable, Finishing
  <2>3. CASE remote[c] \notin {"none", "visible"}
    <3>1. PICK v \in Worker : /\ remote[c] = v
                              /\ cur[v] = c => pc'[v] \in {"ran", "giveup"}
      BY <2>1, <2>3 DEF Deliverable, Finishing
    <3>2. CASE v # w
      BY <3>1, <3>2 DEF Deliverable, Finishing
    <3>3. CASE v = w
      BY <1>1, <2>1, <3>1, <3>3 DEF Deliverable, Finishing
    <3> QED
      BY <3>2, <3>3
  <2> QED
    BY <2>2, <2>3
<1>6. CASE CommitsAhead(w)'
  <2>1. Committers(c)' = Committers(c)
    BY <1>2, <1>4, <1>6 DEF Committers
  <2> QED
    BY <1>1, <1>3, <1>5, <1>6, <2>1, AccountKept, AccountOwn DEF AccountInv, TypeInv
<1>7. CASE CommitsAhead(w) /\ ~CommitsAhead(w)'
  <2>1. Committers(c)' = Committers(c) \ {w} /\ w \in Committers(c)
    BY <1>2, <1>4, <1>7 DEF Committers
  <2>2. \/ commits'[c] = commits[c]
        \/ commits'[c] = commits[c] + 1 /\ (Deliverable(c)' => Deliverable(c))
    BY <1>1, <1>5
  <2>3. Accounted(c)'
    BY <2>1, <2>2, AccountTraded DEF AccountInv, TypeInv
  <2> QED
    BY <1>1, <1>3, <2>3, AccountOwn
<1>8. CASE ~CommitsAhead(w) /\ ~CommitsAhead(w)'
  <2>1. Committers(c)' = Committers(c)
    BY <1>2, <1>8 DEF Committers
  <2>2. commits'[c] = commits[c] /\ (Deliverable(c)' => Deliverable(c))
    BY <1>1, <1>5, <1>8
  <2> QED
    BY <1>1, <1>3, <2>1, <2>2, AccountKept, AccountOwn DEF AccountInv, TypeInv
<1> QED
  BY <1>4, <1>6, <1>7, <1>8

LEMMA AccountJob ==
    ASSUME TypeInv, TypeInv', AccountInv, NEW w \in Worker,
           \/ JobOk(w) \/ JobFails(w) \/ JobAgain(w) \/ JobOperational(w)
           \/ CommitLate(w) \/ DeleteRaisesOnce(w)
    PROVE  AccountInv'
<1>1. PICK c \in Id : c = cur[w]
  BY HolderHasId DEF TypeInv, JobOk, JobFails, JobAgain, JobOperational, CommitLate,
         DeleteRaisesOnce
<1>2. ASSUME NEW x, NEW p \in {"over", "ran"}, Ends(w, x, p)
      PROVE  /\ UNCHANGED <<cur, remote>> /\ pc'[w] = p /\ out'[w] = x
             /\ \A v \in Worker \ {w} : pc'[v] = pc[v] /\ out'[v] = out[v]
  BY <1>2 DEF Ends, sqsVars, TypeInv, TypeOK
<1>3. faults \in Nat /\ faults <= faults /\ faults - 1 <= faults
  BY FaultsAssumption DEF TypeInv, TypeOK
<1>4. CASE JobOk(w) \/ CommitLate(w)
  <2>1. /\ UNCHANGED <<cur, remote>> /\ pc'[w] \in {"over", "ran"}
        /\ pc'[w] = "over" => out'[w] # "imqerror"
        /\ \A v \in Worker \ {w} : pc'[v] = pc[v] /\ out'[v] = out[v]
    BY <1>2, <1>4 DEF JobOk, CommitLate
  <2>2. CommitsAhead(w) /\ ~CommitsAhead(w)'
    BY <1>4, <2>1 DEF CommitsAhead, JobOk, CommitLate
  <2>3. remote[cur[w]] # w \/ (Finishing(w)' => Finishing(w))
    <3>1. CASE JobOk(w)
      BY <1>2, <3>1 DEF JobOk, Finishing
    <3>2. CASE CommitLate(w)
      BY <3>2 DEF CommitLate, AccountInv, LateIsDeleted
    <3> QED
      BY <1>4, <3>1, <3>2
  <2>4. /\ commits'[c] = commits[c] + 1 /\ UNCHANGED faults /\ pc[w] # "idle"
        /\ \A d \in Id \ {c} : commits'[d] = commits[d]
    BY <1>1, <1>4 DEF JobOk, CommitLate, TypeInv, TypeOK
  <2> QED
    BY <1>1, <1>3, <2>1, <2>2, <2>3, <2>4, AccountStay
<1>5. CASE JobFails(w) \/ DeleteRaisesOnce(w)
  <2>1. PICK x \in Final \cup {"imqerror"} : Ends(w, x, "over")
    BY <1>5 DEF JobFails, DeleteRaisesOnce, Final
  <2>2. /\ UNCHANGED <<cur, remote>> /\ pc'[w] = "over"
        /\ \A v \in Worker \ {w} : pc'[v] = pc[v] /\ out'[v] = out[v]
    BY <1>2, <2>1
  <2>3. /\ UNCHANGED commits /\ pc[w] # "idle" /\ faults' <= faults
        /\ CommitsAhead(w)' => CommitsAhead(w)
    <3>1. CASE JobFails(w)
      BY <1>3, <3>1 DEF JobFails, CommitsAhead
    <3>2. CASE DeleteRaisesOnce(w)
      BY <1>2, <1>3, <3>2 DEF DeleteRaisesOnce, Fault, CommitsAhead
    <3> QED
      BY <1>5, <3>1, <3>2
  <2>4. Finishing(w)' => Finishing(w)
    BY <2>2 DEF Finishing
  <2> QED
    BY <1>1, <2>2, <2>3, <2>4, AccountStay
<1>6. CASE JobAgain(w) \/ JobOperational(w)
  <2>1. PICK x \in {"retry", "failed", "psycopg2_Error"} : Ends(w, x, "ran")
    BY <1>6 DEF JobAgain, JobOperational
  <2>2. /\ UNCHANGED <<cur, remote>> /\ pc'[w] = "ran"
        /\ \A v \in Worker \ {w} : pc'[v] = pc[v] /\ out'[v] = out[v]
    BY <1>2, <2>1
  <2>3. UNCHANGED commits /\ pc[w] = "running" /\ faults' <= faults
    BY <1>3, <1>6 DEF JobAgain, JobOperational, Fault
  <2>4. CommitsAhead(w) /\ ~CommitsAhead(w)'
    BY <2>2, <2>3 DEF CommitsAhead
  <2> QED
    BY <1>1, <2>2, <2>3, <2>4, AccountStay
<1> QED
  BY <1>4, <1>5, <1>6

LEMMA AccountDelete ==
    ASSUME TypeInv, TypeInv', AccountInv, NEW w \in Worker, Delete(w)
    PROVE  AccountInv'
<1>1. PICK c \in Id : c = cur[w]
  BY HolderHasId DEF TypeInv, Delete
<1>2. /\ UNCHANGED <<cur, out, commits, faults>> /\ pc[w] = "over"
      /\ pc'[w] = IF out[w] = "imqerror" THEN "late" ELSE "ran"
      /\ \A v \in Worker \ {w} : pc'[v] = pc[v]
  BY DEF Delete, TypeInv, TypeOK
<1>3. /\ \A d \in Id \ {c} : remote'[d] = remote[d]
      /\ \/ remote'[c] = "deleted"
         \/ remote'[c] = remote[c] /\ remote[c] # w
  BY <1>1 DEF Delete, Deleted, TypeInv, TypeOK
<1>4. remote'[c] # w
  BY <1>3, WorkerAssumption
<1>5. CommitsAhead(w)' => CommitsAhead(w)
  BY <1>2 DEF CommitsAhead
<1>6. faults' <= faults
  BY <1>2, FaultsAssumption DEF TypeInv, TypeOK
<1> QED
  BY <1>1, <1>2, <1>3, <1>4, <1>5, <1>6, AccountStay

LEMMA AccountStore ==
    ASSUME TypeInv, TypeInv', AccountInv, Visibility # "zero", NEW w \in Worker, Store(w)
    PROVE  AccountInv'
<1>1. /\ UNCHANGED <<remote, cur, out, commits, faults>> /\ pc[w] = "got"
      /\ pc'[w] = "running" /\ \A v \in Worker \ {w} : pc'[v] = pc[v]
  BY DEF Store, AfterChange, TypeInv, TypeOK
<1>2. CommitsAhead(w) /\ (Finishing(w)' => Finishing(w)) /\ faults' <= faults
  BY <1>1, FaultsAssumption DEF CommitsAhead, Finishing, TypeInv, TypeOK
<1> QED
  BY <1>1, <1>2, AccountStay

(* Recording changes neither the message at SQS nor the commits. *)
LEMMA AccountRecord ==
    ASSUME TypeInv, TypeInv', AccountInv, NEW w \in Worker, Record(w)
    PROVE  AccountInv'
<1>1. /\ UNCHANGED <<remote, commits, faults>> /\ pc[w] = "ran" /\ faults' <= faults
  BY FaultsAssumption DEF Record, TypeInv, TypeOK
<1>2. CASE Leave(w)
  BY <1>1, <1>2, AccountLeave
<1>3. CASE pc' = [pc EXCEPT ![w] = "giveup"] /\ UNCHANGED <<cur, rec, last, out>>
  <2>1. pc'[w] = "giveup" /\ \A v \in Worker \ {w} : pc'[v] = pc[v]
    BY <1>3 DEF TypeInv, TypeOK
  <2>2. Finishing(w) /\ ~CommitsAhead(w)'
    BY <1>1, <2>1 DEF Finishing, CommitsAhead
  <2> QED
    BY <1>1, <1>3, <2>1, <2>2, AccountStay
<1> QED
  BY <1>2, <1>3 DEF Record

LEMMA AccountWorker ==
    ASSUME TypeInv, TypeInv', AccountInv, Visibility # "zero", NEW w \in Worker,
           Works(w) \/ Disturbed(w)
    PROVE  AccountInv'
<1>1. ASSUME NEW e, Fault(e)
      PROVE  faults' < faults
  BY <1>1, FaultsAssumption DEF Fault, TypeInv, TypeOK
<1>2. faults <= faults
  BY FaultsAssumption DEF TypeInv, TypeOK
<1>3. CASE StoreRefused(w) \/ RecordRefused(w)
  BY <1>2, <1>3, AccountLeave DEF StoreRefused, RecordRefused, LeaveQuietly, sqsVars
<1>4. CASE StoreRaisesCron(w) \/ GiveUpRaises(w) \/ Crash(w)
  BY <1>1, <1>4, AccountLeave
     DEF StoreRaisesCron, GiveUpRaises, Crash, LeaveQuietly, sqsVars
<1>5. CASE StoreMarksFailed(w)
  BY <1>1, <1>5, AccountLeave DEF StoreMarksFailed
<1>6. CASE DeleteRaises(w)
  BY <1>1, <1>6, AccountLeave DEF DeleteRaises, MarkFailed, LeaveQuietly, sqsVars
<1>7. CASE RecordOperational(w)
  BY <1>2, <1>7, AccountLeave DEF RecordOperational, MarkFailed
<1>8. CASE GiveUp(w)
  <2>1. remote' = remote \/ remote' = [remote EXCEPT ![cur[w]] = "deleted"]
    BY <1>8 DEF GiveUp, Deleted
  <2> QED
    BY <1>2, <1>8, <2>1, AccountLeave DEF GiveUp
<1> QED
  BY <1>3, <1>4, <1>5, <1>6, <1>7, <1>8, AccountJob, AccountDelete, AccountStore,
     AccountRecord DEF Works, Disturbed

(* A delivery turns into the commit its receiver owes. *)
LEMMA AccountReceive ==
    ASSUME TypeInv, TypeInv', AccountInv, NEW w \in Worker, NEW c \in Id, Receive(w, c)
    PROVE  AccountInv'
<1>1. /\ pc[w] = "idle" /\ cur[w] = NoId /\ pc'[w] = "got" /\ cur'[w] = c
      /\ \A v \in Worker \ {w} : pc'[v] = pc[v] /\ cur'[v] = cur[v] /\ out'[v] = out[v]
      /\ UNCHANGED <<commits, faults>>
      /\ remote[c] = "visible" /\ remote'[c] = w
      /\ \A d \in Id \ {c} : remote'[d] = remote[d]
  BY DEF Receive, Pickable, TypeInv, TypeOK
<1>2. c # NoId /\ w \notin {"none", "visible", "deleted"}
  BY IdAssumption, WorkerAssumption
<1>3. ASSUME NEW d \in Id \ {c}
      PROVE  Accounted(d)'
  <2>1. cur[w] # d /\ cur'[w] # d
    BY <1>1, IdAssumption
  <2>2. Committers(d)' = Committers(d) /\ (Deliverable(d)' <=> Deliverable(d))
    BY <1>1, <2>1, OthersUntouched DEF TypeInv
  <2>3. faults' <= faults
    BY <1>1, FaultsAssumption DEF TypeInv, TypeOK
  <2> QED
    BY <1>1, <2>2, <2>3, AccountKept DEF TypeInv, AccountInv
<1>4. Accounted(c)'
  <2>1. Deliveries(c) = 1 /\ Deliveries(c)' = 0
    <3>1. Deliverable(c)
      BY <1>1 DEF Deliverable
    <3>2. ~Deliverable(c)'
      BY <1>1, <1>2 DEF Deliverable, Finishing
    <3> QED
      BY <3>1, <3>2 DEF Deliveries
  <2>2. Committers(c)' = Committers(c) \cup {w} /\ w \notin Committers(c)
    <3>1. \A v \in Worker \ {w} : CommitsAhead(v)' <=> CommitsAhead(v)
      BY <1>1 DEF CommitsAhead
    <3>2. CommitsAhead(w)'
      BY <1>1 DEF CommitsAhead
    <3> QED
      BY <1>1, <1>2, <3>1, <3>2 DEF Committers
  <2>3. /\ IsFiniteSet(Committers(c)) /\ IsFiniteSet(Committers(c)')
        /\ Cardinality(Committers(c)') = Cardinality(Committers(c)) + 1
    BY <2>2, FS_AddElement DEF AccountInv, Accounted
  <2>4. /\ Cardinality(Committers(c)) \in Nat /\ commits[c] \in Nat
        /\ Faults \in Nat /\ faults \in Nat
    BY <2>3, FS_CardinalityType, FaultsAssumption DEF TypeInv, TypeOK
  <2>5. commits[c] + Cardinality(Committers(c)) + 1 <= 1 + (Faults - faults)
    BY <2>1 DEF AccountInv, Accounted, Used
  <2>6. commits[c] + (Cardinality(Committers(c)) + 1) + 0 <= 1 + (Faults - faults)
    BY <2>4, <2>5
  <2> QED
    BY <1>1, <2>1, <2>3, <2>6 DEF Accounted, Used
<1>5. LateIsDeleted'
  <2> SUFFICES ASSUME NEW v \in Worker, pc'[v] = "late"
               PROVE  remote'[cur'[v]] # v
    BY DEF LateIsDeleted
  <2>1. v # w /\ pc[v] = "late" /\ cur'[v] = cur[v]
    BY <1>1
  <2>2. cur[v] \in Id /\ remote[cur[v]] # v
    BY <2>1, HolderHasId DEF AccountInv, LateIsDeleted, TypeInv
  <2> QED
    BY <1>1, <2>1, <2>2
<1> QED
  BY <1>3, <1>4, <1>5 DEF AccountInv

(* SQS and the retries: they put a message in the queue that may be delivered
   already, or take a fault. *)
LEMMA AccountQueue ==
    ASSUME TypeInv, TypeInv', AccountInv, NEW c \in Id,
           \/ SendMessage(c) \/ RetryCommit(c) \/ RetryAbort(c)
           \/ Timeout(c) \/ Overrun(c)
           \/ \E r \in Row : RetrySend(r, c)
    PROVE  AccountInv'
<1>1. /\ UNCHANGED <<pc, cur, out, commits>>
      /\ faults' = faults \/ faults' < faults
      /\ \/ remote' = remote
         \/ /\ remote' = [remote EXCEPT ![c] = "visible"]
            /\ Deliverable(c) \/ faults' < faults
  <2>1. CASE SendMessage(c) \/ \E r \in Row : RetrySend(r, c)
    BY <2>1 DEF SendMessage, RetrySend, NextId, Deliverable
  <2>2. CASE RetryCommit(c) \/ RetryAbort(c)
    BY <2>2 DEF RetryCommit, RetryAbort
  <2>3. CASE Timeout(c)
    BY <2>3 DEF Timeout, Overdue, Deliverable
  <2>4. CASE Overrun(c)
    <3>1. faults' < faults
      BY <2>4, FaultsAssumption DEF Overrun, Fault, TypeInv, TypeOK
    <3> QED
      BY <2>4, <3>1 DEF Overrun, Overdue
  <2> QED
    BY <2>1, <2>2, <2>3, <2>4
<1>2. faults' <= faults
  BY <1>1, FaultsAssumption DEF TypeInv, TypeOK
<1>3. ASSUME NEW d \in Id
      PROVE  Accounted(d)'
  <2>1. Committers(d)' = Committers(d)
    BY <1>1 DEF Committers, CommitsAhead
  <2>2. Deliverable(d)' => Deliverable(d) \/ faults' < faults
    <3>1. CASE remote'[d] = remote[d]
      BY <1>1, <3>1 DEF Deliverable, Finishing
    <3>2. CASE remote'[d] # remote[d]
      BY <1>1, <3>2 DEF TypeInv, TypeOK
    <3> QED
      BY <3>1, <3>2
  <2> QED
    BY <1>1, <1>2, <2>1, <2>2, AccountKept DEF TypeInv, AccountInv
<1>4. LateIsDeleted'
  BY <1>1, HolderHasId, WorkerAssumption DEF AccountInv, LateIsDeleted, TypeInv, TypeOK
<1> QED
  BY <1>3, <1>4 DEF AccountInv

LEMMA AccountStep ==
    Visibility # "zero" /\ TypeInv /\ TypeInv' /\ AccountInv /\ [Next]_vars => AccountInv'
<1> SUFFICES ASSUME Visibility # "zero", TypeInv, TypeInv', AccountInv, [Next]_vars
             PROVE  AccountInv'
  OBVIOUS
<1>1. CASE UNCHANGED vars
  BY <1>1 DEF vars, AccountInv, LateIsDeleted, Accounted, Committers, CommitsAhead,
              Deliveries, Deliverable, Finishing, Used
<1> QED
  BY <1>1, AccountWorker, AccountReceive, AccountQueue DEF Next

LEMMA AccountInit == Init => AccountInv
<1> SUFFICES ASSUME Init
             PROVE  AccountInv
  OBVIOUS
<1>1. LateIsDeleted
  BY DEF Init, LateIsDeleted
<1>2. ASSUME NEW c \in Id
      PROVE  Accounted(c)
  <2>1. Committers(c) = {}
    BY DEF Init, Committers, CommitsAhead
  <2>2. IsFiniteSet(Committers(c)) /\ Cardinality(Committers(c)) = 0
    BY <2>1, FS_EmptySet
  <2>3. Deliveries(c) \in {0, 1} /\ commits[c] = 0 /\ faults = Faults
    BY DEF Init, Deliveries
  <2> QED
    BY <2>2, <2>3, FaultsAssumption DEF Accounted, Used
<1> QED
  BY <1>1, <1>2 DEF AccountInv

(* Unless the processor forces a visibility timeout of zero, the job of a
   message commits once, and once more for each fault at most: every further
   commit is paid for by a crash, a failure, or a delivery while the message
   is still in the hands of a worker. *)
THEOREM DuplicatesWithinFaults ==
    ASSUME Visibility # "zero"
    PROVE  Spec => []DuplicatesBounded
<1>1. TypeInv /\ AccountInv => DuplicatesBounded
  <2> SUFFICES ASSUME TypeInv, AccountInv, NEW c \in Id
               PROVE  commits[c] <= 1 + Used
    BY DEF DuplicatesBounded
  <2>1. /\ Cardinality(Committers(c)) \in Nat /\ commits[c] \in Nat /\ Used \in Nat
        /\ Deliveries(c) \in {0, 1}
    BY FS_CardinalityType, UsedType DEF AccountInv, Accounted, Deliveries, TypeInv, TypeOK
  <2>2. commits[c] + Cardinality(Committers(c)) + Deliveries(c) <= 1 + Used
    BY DEF AccountInv, Accounted
  <2> QED
    BY <2>1, <2>2
<1>2. TypeInv /\ TypeInv' /\ AccountInv /\ [Next]_vars => AccountInv'
  BY AccountStep
<1> QED
  BY <1>1, <1>2, TypeInit, TypeStep, AccountInit, PTL DEF Spec

-----------------------------------------------------------------------------
(* What a worker knows of its receipt, its result and its row. *)

(* A retryable failure is not the last attempt, and a worker whose receipt is
   still good when it records its result meant not to delete the message. *)
OutcomeInv ==
    \A w \in Worker :
        /\ out[w] = "retry" => ~last[w]
        /\ pc[w] = "ran" /\ remote[cur[w]] = w =>
               out[w] \in {"retry", "psycopg2_Error"} \/ (Kind[w] = "cron" /\ out[w] = "failed")

(* A worker lost its receipt to a fault. *)
ReceiptInv ==
    \A w \in Worker : pc[w] # "idle" /\ remote[cur[w]] \notin {w, "deleted"} => Used > 0

(* Of two workers that know one row, the later to store it has the only fresh
   snapshot, and the one that is to store it has a receipt that is good. *)
FreshInv ==
    \A v, w \in Worker : v # w /\ rec[v] = rec[w] /\ rec[v] # NoRow /\ snap[v] = "fresh" /\ Past(w) =>
        /\ pc[v] = "got" => remote[cur[v]] # w
        /\ Past(v) => snap[w] # "fresh"

(* What a fault is: nothing else uses one up. *)
LEMMA FaultsSpent ==
    ASSUME TypeInv, NEW w \in Worker, Works(w) \/ Disturbed(w)
    PROVE  /\ faults' \in Nat /\ faults \in Nat /\ faults' <= faults
           /\ Disturbed(w) => faults' < faults
           /\ pc[w] # "idle"
<1>1. faults \in Nat
  BY UsedType DEF TypeInv
<1>2. CASE Works(w)
  <2>1. faults' = faults /\ pc[w] # "idle"
    BY <1>2 DEF Works, Store, StoreRefused, JobOk, JobFails, JobAgain, Delete, CommitLate, Record,
       RecordOperational, RecordRefused, GiveUp
  <2>2. ~Disturbed(w) \/ faults' < faults
    BY <1>1 DEF Disturbed, StoreRaisesCron, StoreMarksFailed, JobOperational, DeleteRaisesOnce,
       DeleteRaises, GiveUpRaises, Crash, Fault
  <2> QED
    BY <1>1, <2>1, <2>2
<1>3. CASE Disturbed(w)
  <2>1. faults > 0 /\ faults' = faults - 1 /\ pc[w] # "idle"
    BY <1>3 DEF Disturbed, StoreRaisesCron, StoreMarksFailed, JobOperational, DeleteRaisesOnce,
       DeleteRaises, GiveUpRaises, Crash, Fault
  <2> QED
    BY <1>1, <2>1
<1> QED
  BY <1>2, <1>3

(* Unless it is to be visible at once, a worker changes its message at SQS by
   deleting it only. *)
LEMMA RemoteKept ==
    ASSUME Visibility # "zero", TypeInv, NEW w \in Worker, MessageKept(w)
    PROVE  \A c \in Id : remote'[c] = remote[c] \/ (c = cur[w] /\ remote'[c] = "deleted")
BY DEF MessageKept, TypeInv, TypeOK

LEMMA FreshWorker ==
    ASSUME Visibility # "zero", TypeInv, LinkInv, FreshInv, NEW x \in Worker,
           OthersSame(x), MessageKept(x), pc[x] # "idle",
           Silent(x) \/ Rewrites(x) \/ \E r \in Row : Creates(x, r)
    PROVE  FreshInv'
<1> SUFFICES ASSUME NEW v \in Worker, NEW w \in Worker, v # w, rec'[v] = rec'[w], rec'[v] # NoRow,
                    snap'[v] = "fresh", Past(w)'
             PROVE  /\ pc'[v] = "got" => remote'[cur'[v]] # w
                    /\ Past(v)' => snap'[w] # "fresh"
  BY DEF FreshInv, Past
<1>1. \A c \in Id : remote'[c] = remote[c] \/ (c = cur[x] /\ remote'[c] = "deleted")
  BY RemoteKept
<1>2. \A u \in Worker : rec[u] # NoRow => cur[u] \in Id /\ rec[u] \in Row /\ qid[rec[u]] # NoId
  BY DEF LinkInv, RowKnown, TypeInv, TypeOK
<1>3. \A u \in Worker : u # x => /\ pc'[u] = pc[u] /\ cur'[u] = cur[u] /\ rec'[u] = rec[u]
  BY DEF OthersSame
<1>4. ~Gone(x) \/ (v # x /\ w # x)
  BY DEF Gone
<1>5. Stays(x) \/ Gone(x)
  BY DEF Silent, Rewrites, Creates
<1>6. "deleted" # w
  BY WorkerAssumption
<1>7. CASE Silent(x)
  <2>1. /\ rec'[v] = rec[v] /\ rec'[w] = rec[w] /\ Past(w) /\ snap[v] = "fresh" /\ cur'[v] = cur[v]
        /\ (pc'[v] = "got" => pc[v] = "got") /\ (Past(v)' => Past(v))
        /\ (snap'[w] = "fresh" => snap[w] = "fresh")
    BY <1>3, <1>4, <1>7 DEF Silent, Past, Stays
  <2> QED
    BY <1>1, <1>2, <1>6, <2>1 DEF FreshInv
<1>8. CASE Rewrites(x)
  <2>1. /\ rec'[v] = rec[v] /\ rec'[w] = rec[w] /\ (snap[v] = "fresh" \/ v = x)
    BY <1>3, <1>4, <1>8 DEF Rewrites, Touches
  <2>2. \A u \in Worker : u # x /\ rec[u] = rec[x] => snap'[u] # "fresh"
    BY <1>8 DEF Rewrites, Touches
  <2>3. rec'[x] = rec[x] \/ Gone(x)
    BY <1>8 DEF Rewrites
  <2>4. CASE v = x
    BY <1>3, <1>4, <1>5, <2>2, <2>3, <2>4 DEF Stays
  <2>5. CASE w = x
    BY <1>3, <1>4, <1>5, <2>2, <2>3, <2>5 DEF Stays
  <2>6. CASE v # x /\ w # x
    <3>1. /\ rec[v] = rec[w] /\ rec[v] # NoRow /\ pc'[v] = pc[v] /\ cur'[v] = cur[v] /\ Past(w)
          /\ (Past(v)' => Past(v)) /\ snap[v] = "fresh" /\ (snap'[w] = "fresh" => snap[w] = "fresh")
      BY <1>3, <1>8, <2>6 DEF Rewrites, Touches, Past
    <3> QED
      BY <1>1, <1>2, <1>6, <3>1 DEF FreshInv
  <2> QED
    BY <2>4, <2>5, <2>6
<1>9. ASSUME NEW r \in Row, Creates(x, r)
      PROVE  /\ pc'[v] = "got" => remote'[cur'[v]] # w
             /\ Past(v)' => snap'[w] # "fresh"
  <2>1. qid[r] = NoId /\ \A u \in Worker : rec[u] # r
    BY <1>2, <1>9, IdAssumption DEF Creates, NewRow
  <2>2. v # x /\ w # x
    <3>1. rec'[x] = r \/ Gone(x)
      BY <1>9 DEF Creates
    <3> QED
      BY <1>3, <1>4, <2>1, <3>1
  <2>3. /\ rec[v] = rec[w] /\ rec[v] # NoRow /\ pc'[v] = pc[v] /\ cur'[v] = cur[v] /\ Past(w)
        /\ (Past(v)' => Past(v)) /\ snap[v] = "fresh" /\ (snap'[w] = "fresh" => snap[w] = "fresh")
    BY <1>3, <1>9, <2>2 DEF Creates, Touches, Past
  <2> QED
    BY <1>1, <1>2, <1>6, <2>3 DEF FreshInv
<1> QED
  BY <1>7, <1>8, <1>9

LEMMA ReceiptWorker ==
    ASSUME Visibility # "zero", TypeInv, TypeInv', ReceiptInv, NEW x \in Worker,
           OthersSame(x), MessageKept(x), pc[x] # "idle", faults' <= faults,
           Gone(x) \/ Stays(x)
    PROVE  ReceiptInv'
<1> SUFFICES ASSUME NEW w \in Worker, pc'[w] # "idle", remote'[cur'[w]] \notin {w, "deleted"}
             PROVE  Used' > 0
  BY DEF ReceiptInv
<1>1. pc[w] # "idle" /\ cur'[w] = cur[w] /\ cur[w] \in Id
  <2>1. pc[w] # "idle" /\ cur'[w] = cur[w]
    BY DEF OthersSame, Gone, Stays
  <2> QED
    BY <2>1, HolderHasId DEF TypeInv
<1>2. remote[cur[w]] \notin {w, "deleted"}
  BY <1>1, RemoteKept
<1>3. Used > 0
  BY <1>1, <1>2 DEF ReceiptInv
<1>4. Faults \in Nat /\ faults \in Nat /\ faults' \in Nat
  BY FaultsAssumption DEF TypeInv, TypeOK
<1>5. Used = Faults - faults /\ Used' = Faults - faults'
  BY DEF Used
<1>6. \A a, b, c \in Nat : a - b > 0 /\ c <= b => a - c > 0
  OBVIOUS
<1>7. Faults - faults > 0 /\ faults' <= faults
  BY <1>3, <1>5
<1>8. Faults - faults' > 0
  BY <1>4, <1>6, <1>7
<1> QED
  BY <1>5, <1>8

(* Of OutcomeInv, worker by worker. *)
OutcomeOf(w) ==
    /\ out[w] = "retry" => ~last[w]
    /\ pc[w] = "ran" /\ remote[cur[w]] = w =>
           out[w] \in {"retry", "psycopg2_Error"} \/ (Kind[w] = "cron" /\ out[w] = "failed")

LEMMA OutcomeOthers ==
    ASSUME Visibility # "zero", TypeInv, OutcomeInv, NEW x \in Worker, OthersSame(x), MessageKept(x),
           NEW w \in Worker, w # x
    PROVE  OutcomeOf(w)'
<1>1. pc[w] = "ran" => cur[w] \in Id
  BY HolderHasId DEF TypeInv
<1>2. /\ pc'[w] = pc[w] /\ cur'[w] = cur[w] /\ last'[w] = last[w] /\ out'[w] = out[w]
  BY DEF OthersSame
<1>3. "deleted" # w
  BY WorkerAssumption
<1>4. pc[w] = "ran" /\ remote'[cur[w]] = w => remote[cur[w]] = w
  BY <1>1, <1>3, RemoteKept
<1> QED
  BY <1>2, <1>4 DEF OutcomeOf, OutcomeInv

LEMMA OutcomeOwn ==
    ASSUME Visibility # "zero", TypeInv, CommitInv, AccountInv, OutcomeInv, NEW w \in Worker,
           Works(w) \/ Disturbed(w)
    PROVE  OutcomeOf(w)'
<1>1. ASSUME Leave(w)
      PROVE  OutcomeOf(w)'
  BY <1>1 DEF Leave, OutcomeOf, TypeInv, TypeOK
<1>2. CASE \/ StoreRefused(w) \/ RecordRefused(w) \/ StoreRaisesCron(w) \/ GiveUpRaises(w)
           \/ Crash(w) \/ DeleteRaises(w) \/ RecordOperational(w) \/ GiveUp(w) \/ StoreMarksFailed(w)
  BY <1>1, <1>2 DEF StoreRefused, RecordRefused, StoreRaisesCron, GiveUpRaises, Crash, DeleteRaises,
     RecordOperational, GiveUp, StoreMarksFailed, MarkFailed, LeaveQuietly
<1>3. CASE Store(w)
  BY <1>3 DEF Store, OutcomeOf, CommitInv, DoneResultCommitted, TypeInv, TypeOK
<1>4. CASE JobOk(w) \/ JobFails(w) \/ DeleteRaisesOnce(w)
  <2>1. PICK x \in {"done", "imqerror", "terminated", "failed"} : Ends(w, x, "over")
    BY <1>4 DEF JobOk, JobFails, DeleteRaisesOnce
  <2> QED
    BY <2>1 DEF Ends, OutcomeOf, TypeInv, TypeOK
<1>5. CASE JobAgain(w)
  BY <1>5 DEF JobAgain, MayTryAgain, Ends, OutcomeOf, TypeInv, TypeOK
<1>6. CASE JobOperational(w)
  BY <1>6 DEF JobOperational, Ends, OutcomeOf, TypeInv, TypeOK
<1>7. CASE CommitLate(w)
  BY <1>7 DEF CommitLate, Ends, sqsVars, OutcomeOf, AccountInv, LateIsDeleted, TypeInv, TypeOK
<1>8. CASE Delete(w)
  <2>1. /\ cur[w] \in Id /\ Deleted(w) /\ UNCHANGED <<cur, last, out>> /\ "deleted" # w
    BY <1>8, HolderHasId, WorkerAssumption DEF Delete, TypeInv
  <2>2. remote'[cur[w]] # w
    BY <2>1 DEF Deleted, TypeInv, TypeOK
  <2> QED
    BY <2>1, <2>2 DEF OutcomeOf, OutcomeInv
<1>9. CASE Record(w)
  <2>1. CASE Leave(w)
    BY <1>1, <2>1
  <2>2. CASE pc' = [pc EXCEPT ![w] = "giveup"] /\ UNCHANGED <<cur, rec, last, out>>
    BY <2>2 DEF OutcomeOf, OutcomeInv, TypeInv, TypeOK
  <2> QED
    BY <1>9, <2>1, <2>2 DEF Record
<1> QED
  BY <1>2, <1>3, <1>4, <1>5, <1>6, <1>7, <1>8, <1>9 DEF Works, Disturbed

HeldInv == OutcomeInv /\ ReceiptInv /\ FreshInv

LEMMA HeldWorker ==
    ASSUME Visibility # "zero", TypeInv, TypeInv', LinkInv, CommitInv, AccountInv, HeldInv,
           NEW w \in Worker, Works(w) \/ Disturbed(w)
    PROVE  HeldInv'
<1>1. /\ OthersSame(w) /\ MessageKept(w)
      /\ Silent(w) \/ Rewrites(w) \/ \E r \in Row : Creates(w, r)
  BY WorkerEffect DEF LinkInv
<1>2. faults' <= faults /\ pc[w] # "idle"
  BY FaultsSpent
<1>3. Gone(w) \/ Stays(w)
  BY <1>1 DEF Silent, Rewrites, Creates
<1>4. FreshInv'
  BY <1>1, <1>2, FreshWorker DEF HeldInv
<1>5. ReceiptInv'
  BY <1>1, <1>2, <1>3, ReceiptWorker DEF HeldInv
<1>6. \A v \in Worker : OutcomeOf(v)'
  BY <1>1, OutcomeOwn, OutcomeOthers DEF HeldInv
<1>7. OutcomeInv'
  BY <1>6 DEF OutcomeInv, OutcomeOf
<1> QED
  BY <1>4, <1>5, <1>7 DEF HeldInv

LEMMA HeldReceive ==
    ASSUME TypeInv, LinkInv, HeldInv, NEW x \in Worker, NEW c \in Id, Receive(x, c)
    PROVE  HeldInv'
<1>1. /\ pc[x] = "idle" /\ remote[c] = "visible" /\ remote'[c] = x /\ pc'[x] = "got"
      /\ cur'[x] = c /\ out'[x] = out[x] /\ last'[x] = last[x]
      /\ \A d \in Id : d # c => remote'[d] = remote[d]
      /\ \A v \in Worker : v # x => /\ pc'[v] = pc[v] /\ cur'[v] = cur[v] /\ rec'[v] = rec[v]
                                    /\ snap'[v] = snap[v]
      /\ UNCHANGED <<last, out, faults>>
  BY DEF Receive, Pickable, TypeInv, TypeOK
<1>2. /\ \A v \in Worker : pc[v] # "idle" => cur[v] \in Id
      /\ \A v \in Worker : v # "visible"
      /\ \A v \in Worker : rec[v] # NoRow => cur[v] \in Id
  BY HolderHasId, WorkerAssumption DEF TypeInv, TypeOK, LinkInv, RowKnown
<1>3. OutcomeInv'
  BY <1>1, <1>2 DEF HeldInv, OutcomeInv
<1>4. ReceiptInv'
  <2>1. Used' = Used
    BY <1>1 DEF Used
  <2>2. \A v \in Worker : v # x /\ pc[v] # "idle" /\ remote'[cur[v]] \notin {v, "deleted"} =>
            remote[cur[v]] \notin {v, "deleted"}
    BY <1>1, <1>2
  <2> QED
    BY <1>1, <2>1, <2>2 DEF HeldInv, ReceiptInv
<1>5. FreshInv'
  <2> SUFFICES ASSUME NEW v \in Worker, NEW w \in Worker, v # w, rec'[v] = rec'[w], rec'[v] # NoRow,
                      snap'[v] = "fresh", Past(w)'
               PROVE  /\ pc'[v] = "got" => remote'[cur'[v]] # w
                      /\ Past(v)' => snap'[w] # "fresh"
    BY DEF FreshInv
  <2>1. w # x
    BY <1>1 DEF Past
  <2>2. CASE v = x
    BY <1>1, <2>1, <2>2 DEF Past
  <2>3. CASE v # x
    BY <1>1, <1>2, <2>1, <2>3 DEF Past, HeldInv, FreshInv
  <2> QED
    BY <2>2, <2>3
<1> QED
  BY <1>3, <1>4, <1>5 DEF HeldInv

(* SQS, an operator's transaction: no worker moves, and what it knew to be fresh
   can only become stale. *)
LEMMA HeldQueue ==
    ASSUME TypeInv, TypeInv', LinkInv, HeldInv, UNCHANGED <<pc, cur, rec, last, out>>,
           \A v \in Worker : snap'[v] = "fresh" => snap[v] = "fresh",
           faults' <= faults, NEW c \in Id,
           \/ remote' = remote
           \/ remote[c] # "deleted" /\ remote' = [remote EXCEPT ![c] = "visible"],
           \A v \in Worker : cur[v] = c /\ remote[c] = v /\ remote' # remote => faults' < faults
    PROVE  HeldInv'
<1>1. /\ \A d \in Id : remote'[d] = remote[d] \/ (d = c /\ remote'[d] = "visible" /\ remote' # remote)
      /\ \A v \in Worker : v # "visible"
      /\ \A v \in Worker : pc[v] # "idle" => cur[v] \in Id
      /\ \A v \in Worker : rec[v] # NoRow => cur[v] \in Id
  BY HolderHasId, WorkerAssumption DEF TypeInv, TypeOK, LinkInv, RowKnown
<1>2. OutcomeInv'
  BY <1>1 DEF HeldInv, OutcomeInv
<1>3. FreshInv'
  BY <1>1 DEF HeldInv, FreshInv, Past
<1>4. ReceiptInv'
  <2> SUFFICES ASSUME NEW v \in Worker, pc[v] # "idle", remote'[cur[v]] \notin {v, "deleted"}
               PROVE  Used' > 0
    BY DEF ReceiptInv
  <2>1. Used > 0 \/ faults' < faults
    <3>1. remote[cur[v]] \notin {v, "deleted"} => Used > 0
      BY DEF HeldInv, ReceiptInv
    <3>2. CASE remote'[cur[v]] = remote[cur[v]]
      BY <3>1, <3>2
    <3>3. CASE cur[v] = c /\ remote' # remote /\ remote[c] = v
      BY <3>3
    <3>4. remote'[cur[v]] = remote[cur[v]] \/ (cur[v] = c /\ remote' # remote /\ remote[c] # "deleted")
      BY <1>1
    <3> QED
      BY <3>1, <3>2, <3>3, <3>4
  <2>2. Faults \in Nat /\ faults \in 0..Faults /\ faults' \in 0..Faults
    BY FaultsAssumption DEF TypeInv, TypeOK
  <2>3. Used = Faults - faults /\ Used' = Faults - faults'
    BY DEF Used
  <2>4. \A a \in Nat : \A b, d \in 0..a : (a - b > 0 \/ d < b) /\ d <= b => a - d > 0
    OBVIOUS
  <2>5. Faults - faults > 0 \/ faults' < faults
    BY <2>1, <2>3
  <2>6. Faults - faults' > 0
    BY <2>2, <2>4, <2>5
  <2> QED
    BY <2>3, <2>6
<1> QED
  BY <1>2, <1>3, <1>4 DEF HeldInv

LEMMA OverdueEffect ==
    ASSUME TypeInv, NEW c \in Id, Timeout(c) \/ Overrun(c)
    PROVE  /\ remote[c] \in Worker /\ remote'[c] = "visible"
           /\ \A d \in Id : d # c => remote'[d] = remote[d]
           /\ faults' <= faults /\ (cur[remote[c]] = c => faults' < faults)
           /\ Timeout(c) => cur[remote[c]] # c
           /\ UNCHANGED <<origin, retrial, qid, state, attempt, pc, cur, rec, snap, last, out>>
<1>1. PICK w \in Worker : /\ remote[c] = w /\ remote' = [remote EXCEPT ![c] = "visible"]
                          /\ \/ cur[w] # c /\ faults' = faults
                             \/ cur[w] = c /\ Fault("overrun")
                          /\ UNCHANGED <<origin, retrial, rowVars, pc, cur, rec, snap, last, out>>
  BY DEF Timeout, Overrun, Overdue
<1>2. faults \in Nat
  BY UsedType DEF TypeInv
<1>3. faults' <= faults /\ (cur[w] = c => faults' < faults)
  BY <1>1, <1>2 DEF Fault
<1>4. Timeout(c) => cur[w] # c
  BY <1>1 DEF Timeout, Overdue
<1>5. remote'[c] = "visible" /\ \A d \in Id : d # c => remote'[d] = remote[d]
  BY <1>1 DEF TypeInv, TypeOK
<1> QED
  BY <1>1, <1>3, <1>4, <1>5 DEF rowVars

LEMMA HeldStep ==
    Visibility # "zero" /\ TypeInv /\ TypeInv' /\ LinkInv /\ CommitInv /\ AccountInv /\ HeldInv
        /\ [Next]_vars => HeldInv'
<1> SUFFICES ASSUME Visibility # "zero", TypeInv, TypeInv', LinkInv, CommitInv, AccountInv, HeldInv,
                    [Next]_vars
             PROVE  HeldInv'
  OBVIOUS
<1>1. faults \in Nat
  BY UsedType DEF TypeInv
<1>2. ASSUME NEW c \in Id, SendMessage(c) \/ \E r \in Row : RetrySend(r, c)
      PROVE  HeldInv'
  <2>1. /\ remote[c] = "none" /\ remote' = [remote EXCEPT ![c] = "visible"]
        /\ UNCHANGED <<pc, cur, rec, snap, last, out, faults>>
    BY <1>2 DEF SendMessage, RetrySend, NextId
  <2>2. \A v \in Worker : cur[v] # c \/ remote[c] # v
    BY <2>1, WorkerAssumption
  <2>3. faults' <= faults
    BY <1>1, <2>1
  <2> QED
    BY <2>1, <2>2, <2>3, HeldQueue
<1>3. ASSUME NEW c \in Id, RetryAbort(c) \/ RetryCommit(c)
      PROVE  HeldInv'
  <2>1. UNCHANGED <<remote, pc, cur, rec, last, out, faults>>
    BY <1>3 DEF RetryAbort, RetryCommit
  <2>2. \A v \in Worker : snap'[v] = "fresh" => snap[v] = "fresh"
    BY <1>3 DEF RetryAbort, RetryCommit, TouchedWorkers
  <2>3. faults' <= faults
    BY <1>1, <2>1
  <2> QED
    BY <2>1, <2>2, <2>3, HeldQueue
<1>4. ASSUME NEW c \in Id, Timeout(c) \/ Overrun(c)
      PROVE  HeldInv'
  <2>1. /\ remote[c] \in Worker
        /\ faults' <= faults /\ (cur[remote[c]] = c => faults' < faults)
        /\ UNCHANGED <<pc, cur, rec, snap, last, out>>
    BY <1>4, OverdueEffect
  <2>2. remote[c] # "deleted" /\ remote' = [remote EXCEPT ![c] = "visible"]
    BY <1>4, <2>1, WorkerAssumption DEF Timeout, Overrun, Overdue
  <2> QED
    BY <2>1, <2>2, HeldQueue
<1>5. CASE UNCHANGED vars
  BY <1>5 DEF vars, HeldInv, OutcomeInv, ReceiptInv, FreshInv, Past, Used
<1> QED
  BY <1>2, <1>3, <1>4, <1>5, HeldReceive, HeldWorker DEF Next

LEMMA HeldInit == Init => HeldInv
BY DEF Init, HeldInv, OutcomeInv, ReceiptInv, FreshInv, Past

-----------------------------------------------------------------------------
(* What the attempts of a row cost. *)

SentFor(r) == {c \in Id : origin[c] = r}
CommittedFor(r) == {c \in SentFor(r) : retrial[c] = "committed"}

(* w may write row r. *)
Knows(w, r) == rec[w] = r /\ snap[w] = "fresh"

(* The delivery w has of the message row r shows will not be the last thing that
   becomes of it: w deletes it, unless something fails. *)
Consumed(w, r) ==
    /\ Past(w) /\ Knows(w, r) /\ remote[qid[r]] = w /\ last[w] /\ out[w] # "psycopg2_Error"

(* The message may still be delivered without a fault. *)
Free(r) == remote[qid[r]] # "deleted" /\ \A w \in Worker : ~Consumed(w, r)

(* A worker that has lost its receipt will still count an attempt. *)
Owes(w, r) == pc[w] = "got" /\ Knows(w, r) /\ remote[qid[r]] # w
Owing(r) == \E w \in Worker : Owes(w, r)

(* Attempts before the last cost nothing; the last one, and those after it, a
   delivery each. *)
Spent(r) == IF attempt[r] < MaxAttempt THEN MaxAttempt - 1 ELSE attempt[r]

Price(r) == Spent(r) + (IF Free(r) THEN 1 ELSE 0) + (IF Owing(r) THEN 1 ELSE 0)

Priced(r) == Price(r) <= MaxAttempt + Used + Cardinality(CommittedFor(r))

PriceInv == \A r \in Row : IsFiniteSet(SentFor(r)) /\ (qid[r] # NoId => Priced(r))

LEMMA SpentType ==
    ASSUME TypeOK, NEW r \in Row
    PROVE  Spent(r) \in Nat /\ attempt[r] <= Spent(r) /\ Price(r) \in Nat
<1>1. attempt[r] \in Nat /\ MaxAttempt \in Nat /\ MaxAttempt > 0
  BY MaxAttemptAssumption DEF TypeOK
<1>2. Spent(r) \in Nat /\ attempt[r] <= Spent(r)
  BY <1>1 DEF Spent
<1> QED
  BY <1>2 DEF Price

LEMMA CommittedFinite ==
    ASSUME NEW r, IsFiniteSet(SentFor(r))
    PROVE  IsFiniteSet(CommittedFor(r)) /\ Cardinality(CommittedFor(r)) \in Nat
<1>1. CommittedFor(r) \subseteq SentFor(r)
  BY DEF CommittedFor
<1> QED
  BY <1>1, FS_Subset, FS_CardinalityType

(* A row pays with faults and with retries. *)
LEMMA PricePaid ==
    ASSUME TypeOK, TypeOK', NEW r \in Row, IsFiniteSet(SentFor(r)), IsFiniteSet(SentFor(r)'),
           Priced(r), NEW paid \in {0, 1},
           Cardinality(CommittedFor(r)') = Cardinality(CommittedFor(r)) + paid,
           Price(r)' + faults' <= Price(r) + faults + paid
    PROVE  Priced(r)'
<1>1. /\ Price(r) \in Nat /\ Cardinality(CommittedFor(r)) \in Nat
      /\ faults \in Nat /\ Faults \in Nat /\ MaxAttempt \in Nat
  BY SpentType, CommittedFinite, FaultsAssumption, MaxAttemptAssumption DEF TypeOK
<1>2. Price(r)' \in Nat /\ faults' \in Nat
  <2>1. /\ (attempt[r])' \in Nat /\ MaxAttempt \in Nat /\ MaxAttempt > 0
    BY MaxAttemptAssumption DEF TypeOK
  <2>2. Spent(r)' \in Nat
    BY <2>1 DEF Spent
  <2>3. Price(r)' \in Nat
    BY <2>2 DEF Price
  <2> QED
    BY <2>3 DEF TypeOK
<1>3. Used = Faults - faults /\ Used' = Faults - faults'
  BY DEF Used
<1>4. Price(r) <= MaxAttempt + (Faults - faults) + Cardinality(CommittedFor(r))
  BY <1>3 DEF Priced
<1>5. \A p, q, f, g, a, m, k \in Nat :
          q + g <= p + f + paid /\ p <= m + (a - f) + k => q <= m + (a - g) + (k + paid)
  OBVIOUS
<1>6. Price(r)' <= MaxAttempt + (Faults - faults') + (Cardinality(CommittedFor(r)) + paid)
  BY <1>1, <1>2, <1>4, <1>5
<1> QED
  BY <1>3, <1>6 DEF Priced

(* A row whose attempts are not counted: what is delivered or owed passes from
   one to the other, or takes a fault. *)
LEMMA PriceSettled ==
    ASSUME TypeOK, TypeOK', NEW r \in Row, attempt'[r] = attempt[r],
           IsFiniteSet(SentFor(r)), IsFiniteSet(SentFor(r)'), Priced(r),
           CommittedFor(r)' = CommittedFor(r), faults' <= faults,
           Free(r)' => Free(r) \/ faults' < faults,
           Owing(r)' => Owing(r) \/ (Free(r) /\ (~Free(r)' \/ faults' < faults))
    PROVE  Priced(r)'
<1>1. Spent(r) \in Nat /\ faults \in Nat /\ faults' \in Nat
  BY SpentType, FaultsAssumption DEF TypeOK
<1>2. Spent(r)' = Spent(r)
  BY DEF Spent
<1>3. PICK t \in {0, 1}, o \in {0, 1} :
          /\ Price(r) = Spent(r) + t + o /\ (t = 1 <=> Free(r)) /\ (o = 1 <=> Owing(r))
  BY DEF Price
<1>4. PICK t1 \in {0, 1}, o1 \in {0, 1} :
          /\ Price(r)' = Spent(r)' + t1 + o1 /\ (t1 = 1 <=> Free(r)') /\ (o1 = 1 <=> Owing(r)')
  BY DEF Price
<1>5. t1 + o1 + faults' <= t + o + faults
  <2>1. t1 + o1 <= t + o \/ (t1 + o1 <= t + o + 1 /\ faults' < faults)
    BY <1>3, <1>4
  <2>2. \A x, y, f, g \in Nat : g <= f /\ (x <= y \/ (x <= y + 1 /\ g < f)) => x + g <= y + f
    OBVIOUS
  <2>3. t1 + o1 \in Nat /\ t + o \in Nat
    OBVIOUS
  <2> QED
    BY <1>1, <2>1, <2>2, <2>3
<1>6. Price(r)' + faults' <= Price(r) + faults + 0
  BY <1>1, <1>2, <1>3, <1>4, <1>5
<1>7. Cardinality(CommittedFor(r)') = Cardinality(CommittedFor(r)) + 0
  BY CommittedFinite
<1> QED
  BY <1>6, <1>7, PricePaid

LEMMA SentFinite ==
    ASSUME TypeOK', PriceInv, NEW c \in Id, \A d \in Id : d # c => origin'[d] = origin[d]
    PROVE  \A r \in Row : IsFiniteSet(SentFor(r)')
<1> SUFFICES ASSUME NEW r \in Row PROVE IsFiniteSet(SentFor(r)')
  OBVIOUS
<1>1. SentFor(r)' \subseteq SentFor(r) \cup {c}
  BY DEF SentFor
<1>2. IsFiniteSet(SentFor(r) \cup {c})
  BY FS_AddElement DEF PriceInv
<1> QED
  BY <1>1, <1>2, FS_Subset

LEMMA KnowsMessage ==
    ASSUME LinkInv, NEW w \in Worker, NEW r \in Row, Knows(w, r)
    PROVE  qid[r] = cur[w] /\ rec[w] = r
BY IdAssumption DEF Knows, LinkInv, HolderInv

(* What SQS and operators do, but for the commit of a retry. *)
LEMMA PriceStill ==
    ASSUME TypeInv, TypeInv', LinkInv, PriceInv, NEW c \in Id,
           UNCHANGED <<qid, attempt, pc, rec, snap, last, out>>,
           \A d \in Id : d # c => remote'[d] = remote[d] /\ origin'[d] = origin[d],
           \A r \in Row : CommittedFor(r)' = CommittedFor(r),
           faults' <= faults,
           \/ remote'[c] = remote[c]
           \/ \A r \in Row : qid[r] # c
           \/ /\ remote[c] \in Worker /\ remote'[c] = "visible"
              /\ cur[remote[c]] = c => faults' < faults
    PROVE  PriceInv'
<1> SUFFICES ASSUME NEW r \in Row, qid[r] # NoId
             PROVE  Priced(r)'
  BY SentFinite DEF PriceInv, TypeInv
<1>1. qid[r] \in Id /\ IsFiniteSet(SentFor(r)) /\ IsFiniteSet(SentFor(r)') /\ Priced(r)
  BY SentFinite DEF PriceInv, TypeInv, TypeOK
<1>2. \A v \in Worker : (Knows(v, r)' <=> Knows(v, r)) /\ (Past(v)' <=> Past(v))
  BY DEF Knows, Past
<1>3. CASE remote'[qid[r]] = remote[qid[r]]
  <2>1. \A v \in Worker : (Consumed(v, r)' <=> Consumed(v, r)) /\ (Owes(v, r)' <=> Owes(v, r))
    BY <1>2, <1>3 DEF Consumed, Owes
  <2>2. (Free(r)' <=> Free(r)) /\ (Owing(r)' <=> Owing(r))
    BY <1>3, <2>1 DEF Free, Owing
  <2> QED
    BY <1>1, <2>2, PriceSettled DEF TypeInv
<1>4. CASE /\ qid[r] = c /\ remote[c] \in Worker /\ remote'[c] = "visible"
           /\ cur[remote[c]] = c => faults' < faults
  <2>1. remote[c] # "deleted"
    BY <1>4, WorkerAssumption
  <2>2. ASSUME NEW u \in Worker, Consumed(u, r)
        PROVE  remote[c] = u /\ pc[u] # "got" /\ cur[u] = c
    BY <1>4, <2>2, KnowsMessage DEF Consumed, Past
  <2>3. ASSUME Owing(r)', ~Owing(r)
        PROVE  Free(r) /\ faults' < faults
    <3>1. PICK v \in Worker : pc[v] = "got" /\ Knows(v, r) /\ remote[c] = v
      BY <1>2, <1>4, <2>3 DEF Owing, Owes
    <3>2. cur[v] = c
      BY <1>4, <3>1, KnowsMessage
    <3> QED
      BY <1>4, <2>1, <2>2, <3>1, <3>2 DEF Free
  <2>4. Free(r) \/ faults' < faults
    BY <1>4, <2>1, <2>2 DEF Free
  <2> QED
    BY <1>1, <2>3, <2>4, PriceSettled DEF TypeInv
<1> QED
  BY <1>1, <1>3, <1>4

LEMMA PriceReceive ==
    ASSUME TypeInv, TypeInv', LinkInv, PriceInv, NEW w \in Worker, NEW c \in Id, Receive(w, c)
    PROVE  PriceInv'
<1>1. /\ pc[w] = "idle" /\ remote[c] = "visible" /\ remote'[c] = w /\ pc'[w] = "got"
      /\ \A d \in Id : d # c => remote'[d] = remote[d]
      /\ \A v \in Worker : v # w => /\ pc'[v] = pc[v] /\ rec'[v] = rec[v] /\ snap'[v] = snap[v]
      /\ UNCHANGED <<origin, retrial, qid, state, attempt, last, out, faults>>
  BY DEF Receive, Pickable, rowVars, TypeInv, TypeOK
<1>2. rec'[w] \in Row => qid[rec'[w]] = c
  <2>1. rec'[w] = IF Stored(c) THEN CHOOSE r \in Row : qid[r] = c ELSE NoRow
    BY DEF Receive, TypeInv, TypeOK
  <2> QED
    BY <2>1, IdAssumption DEF Stored
<1> SUFFICES ASSUME NEW r \in Row, qid[r] # NoId
             PROVE  Priced(r)'
  BY <1>1, SentFinite DEF PriceInv, TypeInv
<1>3. /\ qid[r] \in Id /\ IsFiniteSet(SentFor(r)) /\ IsFiniteSet(SentFor(r)') /\ Priced(r)
      /\ CommittedFor(r)' = CommittedFor(r)
  <2>1. CommittedFor(r)' = CommittedFor(r)
    BY <1>1 DEF CommittedFor, SentFor
  <2> QED
    BY <1>1, <2>1, SentFinite DEF PriceInv, TypeInv, TypeOK
<1>4. \A v \in Worker : v # w => (Knows(v, r)' <=> Knows(v, r)) /\ (Past(v)' <=> Past(v))
  BY <1>1 DEF Knows, Past
<1>5. "visible" # "deleted" /\ \A v \in Worker : v # "visible"
  BY WorkerAssumption
<1>6. faults' <= faults
  BY <1>1, UsedType DEF TypeInv
<1>7. Free(r)' => Free(r)
  <2>1. ASSUME NEW v \in Worker, Consumed(v, r)
        PROVE  Consumed(v, r)' \/ remote'[qid[r]] = "deleted"
    <3>1. v # w /\ qid[r] # c
      BY <1>1, <1>5, <2>1 DEF Consumed, Past
    <3> QED
      BY <1>1, <1>3, <1>4, <2>1, <3>1 DEF Consumed
  <2>2. remote[qid[r]] = "deleted" => remote'[qid[r]] = "deleted"
    BY <1>1, <1>3
  <2> QED
    BY <1>1, <2>1, <2>2 DEF Free
<1>8. Owing(r)' => Owing(r)
  <2> SUFFICES ASSUME NEW v \in Worker, Owes(v, r)'
               PROVE  Owes(v, r)
    BY DEF Owing
  <2>1. CASE v = w
    BY <1>1, <1>2, <2>1 DEF Owes, Knows
  <2>2. CASE v # w
    BY <1>1, <1>3, <1>4, <1>5, <2>2 DEF Owes
  <2> QED
    BY <2>1, <2>2
<1> QED
  BY <1>1, <1>3, <1>6, <1>7, <1>8, PriceSettled DEF TypeInv

(* The commit of a retry pays for the delivery it adds. *)
LEMMA PriceCommit ==
    ASSUME TypeInv, TypeInv', LinkInv, PriceInv, NEW c \in Id, RetryCommit(c)
    PROVE  PriceInv'
<1>1. /\ origin[c] \in Row /\ retrial[c] = "open" /\ retrial'[c] = "committed"
      /\ \A s \in Row : s # origin[c] => qid'[s] = qid[s]
      /\ \A d \in Id : d # c => (retrial'[d] = "committed" <=> retrial[d] = "committed")
      /\ \A v \in Worker : snap'[v] = IF rec[v] = origin[c] /\ snap[v] = "fresh" THEN "stale"
                                      ELSE snap[v]
      /\ UNCHANGED <<remote, origin, attempt, pc, cur, rec, last, out, faults>>
  BY CommitEffect
<1>2. \A r \in Row : IsFiniteSet(SentFor(r)')
  BY <1>1, SentFinite DEF TypeInv
<1>3. faults' \in Nat /\ faults \in Nat /\ faults' = faults
  BY <1>1, UsedType DEF TypeInv
<1>4. ASSUME NEW r \in Row, r # origin[c], qid'[r] # NoId
      PROVE  Priced(r)'
  <2>1. \A v \in Worker : Knows(v, r)' <=> Knows(v, r)
    BY <1>1, <1>4 DEF Knows
  <2>2. \A v \in Worker : (Consumed(v, r)' <=> Consumed(v, r)) /\ (Owes(v, r)' <=> Owes(v, r))
    BY <1>1, <1>4, <2>1 DEF Consumed, Owes, Past
  <2>3. (Free(r)' <=> Free(r)) /\ (Owing(r)' <=> Owing(r))
    BY <1>1, <1>4, <2>2 DEF Free, Owing
  <2>4. CommittedFor(r)' = CommittedFor(r)
    BY <1>1, <1>4 DEF CommittedFor, SentFor
  <2>5. IsFiniteSet(SentFor(r)) /\ Priced(r)
    BY <1>1, <1>4 DEF PriceInv
  <2> QED
    BY <1>1, <1>2, <1>3, <2>3, <2>4, <2>5, PriceSettled DEF TypeInv
<1>5. ASSUME NEW r \in Row, r = origin[c]
      PROVE  Priced(r)'
  <2>1. IsFiniteSet(SentFor(r)) /\ Priced(r)
    BY <1>1, <1>5 DEF PriceInv, LinkInv, RowKnown
  <2>2. ~Owing(r)'
    BY <1>1, <1>5 DEF Owing, Owes, Knows
  <2>3. Cardinality(CommittedFor(r)') = Cardinality(CommittedFor(r)) + 1
    <3>1. CommittedFor(r)' = CommittedFor(r) \cup {c} /\ c \notin CommittedFor(r)
      BY <1>1, <1>5 DEF CommittedFor, SentFor
    <3> QED
      BY <2>1, <3>1, CommittedFinite, FS_AddElement
  <2>4. Spent(r)' = Spent(r) /\ Spent(r) \in Nat
    BY <1>1, SpentType DEF Spent, TypeInv
  <2>5. PICK n \in {0, 1} : Price(r)' = Spent(r)' + n + 0
    BY <2>2 DEF Price
  <2>6. PICK m \in {0, 1, 2} : Price(r) = Spent(r) + m
    BY <2>4 DEF Price
  <2>7. Price(r)' + faults' <= Price(r) + faults + 1
    BY <1>3, <2>4, <2>5, <2>6
  <2> QED
    BY <1>2, <2>1, <2>3, <2>7, PricePaid DEF TypeInv
<1> QED
  BY <1>2, <1>4, <1>5 DEF PriceInv

(* A worker that holds the last delivery of its message deletes it, or keeps it,
   or fails. *)
LEMMA ConsumedKept ==
    ASSUME Visibility # "zero", TypeInv, LinkInv, CommitInv, AccountInv, HeldInv, NEW w \in Worker,
           Works(w) \/ Disturbed(w), NEW r \in Row, Consumed(w, r), qid'[r] = qid[r]
    PROVE  Consumed(w, r)' \/ remote'[qid[r]] = "deleted" \/ faults' < faults
<1>1. /\ Past(w) /\ rec[w] = r /\ snap[w] = "fresh" /\ qid[r] = cur[w] /\ cur[w] \in Id
      /\ remote[cur[w]] = w /\ last[w] /\ out[w] # "psycopg2_Error"
  BY KnowsMessage, HolderHasId DEF Consumed, Knows, Past, TypeInv
<1>2. CASE Disturbed(w)
  BY <1>2, FaultsSpent
<1>3. CASE Store(w) \/ StoreRefused(w)
  BY <1>1, <1>3 DEF Store, StoreRefused, Past
<1>4. CASE JobOk(w) \/ JobFails(w) \/ JobAgain(w)
  <2>1. PICK x \in {"done", "imqerror", "terminated", "failed", "retry"}, p \in {"over", "ran"} :
            Ends(w, x, p)
    BY <1>4 DEF JobOk, JobFails, JobAgain
  <2>2. /\ pc'[w] = p /\ out'[w] = x /\ UNCHANGED <<remote, rec, snap, last>>
    BY <2>1 DEF Ends, sqsVars, TypeInv, TypeOK
  <2> QED
    BY <1>1, <2>2 DEF Consumed, Knows, Past
<1>5. CASE Delete(w) \/ GiveUp(w)
  BY <1>1, <1>5 DEF Delete, GiveUp, Deleted, TypeInv, TypeOK
<1>6. CASE CommitLate(w)
  BY <1>1, <1>6 DEF CommitLate, AccountInv, LateIsDeleted
<1>7. CASE Record(w)
  <2>1. Kind[w] = "cron" /\ out[w] # "done"
    BY <1>1, <1>7 DEF Record, HeldInv, OutcomeInv
  <2>2. /\ pc' = [pc EXCEPT ![w] = "giveup"] /\ Wrote(w, rec[w], "fresh")
        /\ UNCHANGED <<remote, rec, last, out>>
    BY <1>1, <1>7, <2>1 DEF Record
  <2>3. pc'[w] = "giveup" /\ snap'[w] = "fresh"
    BY <2>2, WroteTouches DEF TypeInv, TypeOK
  <2> QED
    BY <1>1, <2>2, <2>3 DEF Consumed, Knows, Past
<1>8. CASE RecordOperational(w) \/ RecordRefused(w)
  BY <1>1, <1>8 DEF RecordOperational, RecordRefused
<1> QED
  BY <1>2, <1>3, <1>4, <1>5, <1>6, <1>7, <1>8 DEF Works

(* So a worker makes no delivery of a message that had none, but by a fault. *)
LEMMA FreeKept ==
    ASSUME Visibility # "zero", TypeInv, LinkInv, CommitInv, AccountInv, HeldInv, NEW w \in Worker,
           Works(w) \/ Disturbed(w), NEW r \in Row, qid[r] # NoId, qid'[r] = qid[r], Free(r)'
    PROVE  Free(r) \/ faults' < faults
<1>1. /\ OthersSame(w) /\ MessageKept(w) /\ pc[w] # "idle"
      /\ Silent(w) \/ Rewrites(w) \/ \E q \in Row : Creates(w, q)
  BY WorkerEffect, FaultsSpent DEF LinkInv
<1>2. qid[r] \in Id /\ remote'[qid[r]] # "deleted"
  BY DEF Free, TypeInv, TypeOK
<1>3. remote'[qid[r]] = remote[qid[r]] /\ remote[qid[r]] # "deleted"
  BY <1>1, <1>2, RemoteKept
<1> SUFFICES ASSUME NEW u \in Worker, Consumed(u, r), ~(faults' < faults)
             PROVE  FALSE
  BY <1>3 DEF Free
<1>4. ~Consumed(u, r)'
  BY DEF Free
<1>5. u # w
  BY <1>2, <1>4, ConsumedKept
<1>6. /\ Past(u) /\ rec[u] = r /\ snap[u] = "fresh" /\ remote[qid[r]] = u
      /\ last[u] /\ out[u] # "psycopg2_Error"
  BY DEF Consumed, Knows
<1>7. snap'[u] # "fresh"
  BY <1>1, <1>3, <1>4, <1>5, <1>6 DEF OthersSame, Consumed, Knows, Past
<1>8. Rewrites(w) /\ rec[w] = r /\ snap[w] = "fresh"
  <2>1. CASE Silent(w)
    BY <1>5, <1>6, <1>7, <2>1 DEF Silent
  <2>2. ASSUME NEW q \in Row, Creates(w, q)
        PROVE  FALSE
    <3>1. rec[u] = q
      BY <1>5, <1>6, <1>7, <2>2 DEF Creates, Touches
    <3> QED
      BY <1>6, <2>2, <3>1 DEF Creates, NewRow
  <2>3. CASE Rewrites(w)
    BY <1>5, <1>6, <1>7, <2>3 DEF Rewrites, Touches
  <2> QED
    BY <1>1, <2>1, <2>2, <2>3
<1>9. qid[r] = cur[w] /\ r # NoRow
  BY <1>8, KnowsMessage, IdAssumption DEF Knows
<1>10. (pc[w] = "got" => remote[cur[w]] # u) /\ (Past(w) => snap[u] # "fresh")
  BY <1>5, <1>6, <1>8, <1>9 DEF HeldInv, FreshInv
<1> QED
  BY <1>1, <1>6, <1>9, <1>10 DEF Past

(* Rows whose attempt w does not count. *)
LEMMA PriceOthers ==
    ASSUME Visibility # "zero", TypeInv, TypeInv', LinkInv, CommitInv, AccountInv, HeldInv, PriceInv,
           NEW w \in Worker, Works(w) \/ Disturbed(w),
           NEW r \in Row, qid[r] # NoId, qid'[r] = qid[r], attempt'[r] = attempt[r],
           CommittedFor(r)' = CommittedFor(r), IsFiniteSet(SentFor(r)')
    PROVE  Priced(r)'
<1>1. /\ OthersSame(w) /\ MessageKept(w)
      /\ Silent(w) \/ Rewrites(w) \/ \E q \in Row : Creates(w, q)
      /\ faults' <= faults
  BY WorkerEffect, FaultsSpent DEF LinkInv
<1>2. Free(r)' => Free(r) \/ faults' < faults
  BY FreeKept
<1>3. Owing(r)' => Owing(r) \/ (Free(r) /\ ~Free(r)')
  <2> SUFFICES ASSUME NEW v \in Worker, Owes(v, r)', ~Owing(r)
               PROVE  Free(r) /\ ~Free(r)'
    BY DEF Owing
  <2>1. v # w /\ pc[v] = "got" /\ rec[v] = r /\ snap[v] = "fresh" /\ remote'[qid[r]] # v
    <3>1. pc'[v] = "got" /\ rec'[v] = r /\ snap'[v] = "fresh" /\ remote'[qid[r]] # v
      BY DEF Owes, Knows
    <3>2. v # w
      BY <1>1, <3>1 DEF Silent, Rewrites, Creates, Gone, Stays
    <3>3. pc[v] = "got" /\ rec[v] = r
      BY <1>1, <3>1, <3>2 DEF OthersSame
    <3>4. snap[v] = "fresh"
      BY <1>1, <3>1, <3>2 DEF Silent, Rewrites, Creates, Touches
    <3> QED
      BY <3>1, <3>2, <3>3, <3>4
  <2>2. remote[qid[r]] = v
    BY <2>1 DEF Owing, Owes, Knows
  <2>3. qid[r] \in Id /\ v # "deleted"
    BY WorkerAssumption DEF TypeInv, TypeOK
  <2>4. remote'[qid[r]] = "deleted"
    BY <1>1, <2>1, <2>2, <2>3, RemoteKept
  <2>5. \A u \in Worker : ~Consumed(u, r)
    BY <2>1, <2>2 DEF Consumed, Past
  <2> QED
    BY <2>2, <2>3, <2>4, <2>5 DEF Free
<1>4. IsFiniteSet(SentFor(r)) /\ Priced(r)
  BY DEF PriceInv
<1> QED
  BY <1>1, <1>2, <1>3, <1>4, PriceSettled DEF TypeInv

LEMMA RetriesSame ==
    ASSUME TypeInv, LinkInv, NEW w \in Worker, Works(w) \/ Disturbed(w), NEW r \in Row
    PROVE  SentFor(r)' = SentFor(r) /\ CommittedFor(r)' = CommittedFor(r)
<1>1. /\ OthersSame(w)
      /\ Silent(w) \/ Rewrites(w) \/ \E q \in Row : Creates(w, q)
  BY WorkerEffect DEF LinkInv
<1>2. origin' = origin /\ \A d \in Id : retrial'[d] = "committed" <=> retrial[d] = "committed"
  BY <1>1 DEF OthersSame, Silent, Rewrites, Creates, Touches
<1> QED
  BY <1>2 DEF SentFor, CommittedFor

(* What a worker that stores its message does to the row it writes. *)
Stores(w, r) ==
    /\ pc[w] = "got" /\ attempt'[r] = attempt[r] + 1 /\ qid'[r] = cur[w] /\ remote' = remote
    /\ \A s \in Row : s # r => attempt'[s] = attempt[s] /\ qid'[s] = qid[s]
    /\ \/ Knows(w, r) /\ qid[r] = cur[w]
       \/ qid[r] = NoId
    /\ \A v \in Worker : Knows(v, r)' => v = w
    /\ pc'[w] # "got"
    /\ \/ /\ pc'[w] = "running" /\ Knows(w, r)' /\ out'[w] = "none" /\ faults' = faults
          /\ last'[w] = (attempt[r] + 1 >= MaxAttempt)
       \/ faults' < faults

LEMMA StoreEffect ==
    ASSUME Visibility # "zero", TypeInv, LinkInv, CommitInv, NEW w \in Worker,
           Store(w) \/ StoreMarksFailed(w)
    PROVE  \E r \in Row : Stores(w, r)
<1>1. PICK r \in Row, s \in {"wip", "failed"} :
          /\ Target(w, r) /\ WriteRow(w, r, s) /\ pc[w] = "got" /\ remote' = remote
          /\ \/ /\ rec' = [rec EXCEPT ![w] = r] /\ Wrote(w, r, "fresh")
                /\ last' = [last EXCEPT ![w] = attempt[r] + 1 >= MaxAttempt]
                /\ pc' = [pc EXCEPT ![w] = "running"] /\ UNCHANGED <<out, faults>>
             \/ Leave(w) /\ Wrote(w, r, "none") /\ faults' < faults
  <2>1. CASE Store(w)
    BY <2>1 DEF Store, AfterChange
  <2>2. CASE StoreMarksFailed(w)
    <3>1. faults' < faults
      BY <2>2, FaultsSpent DEF Disturbed
    <3> QED
      BY <2>2, <3>1 DEF StoreMarksFailed
  <2> QED
    BY <2>1, <2>2
<1>2. /\ attempt'[r] = attempt[r] + 1 /\ qid'[r] = cur[w]
      /\ \A q \in Row : q # r => attempt'[q] = attempt[q] /\ qid'[q] = qid[q]
  BY <1>1 DEF WriteRow, TypeInv, TypeOK
<1>3. (Knows(w, r) /\ qid[r] = cur[w]) \/ (qid[r] = NoId /\ \A v \in Worker : rec[v] # r)
  <2>1. CASE rec[w] # NoRow
    BY <1>1, <2>1, KnowsMessage DEF Target, Knows
  <2>2. CASE rec[w] = NoRow
    <3>1. qid[r] = NoId
      BY <1>1, <2>2 DEF Target, NewRow
    <3> QED
      BY <3>1, IdAssumption DEF LinkInv, RowKnown
  <2> QED
    BY <2>1, <2>2
<1>4. \A v \in Worker : Knows(v, r)' => v = w
  <2> SUFFICES ASSUME NEW v \in Worker, v # w, rec'[v] = r, snap'[v] = "fresh"
               PROVE  FALSE
    BY DEF Knows
  <2>1. Touches(w, r)
    BY <1>1, WroteTouches
  <2>2. rec'[v] = rec[v]
    BY <1>1 DEF Leave, TypeInv, TypeOK
  <2> QED
    BY <2>1, <2>2 DEF Touches
<1>5. CASE /\ rec' = [rec EXCEPT ![w] = r] /\ Wrote(w, r, "fresh")
           /\ last' = [last EXCEPT ![w] = attempt[r] + 1 >= MaxAttempt]
           /\ pc' = [pc EXCEPT ![w] = "running"] /\ UNCHANGED <<out, faults>>
  <2>1. snap'[w] = "fresh"
    BY <1>5, WroteTouches
  <2>2. /\ rec'[w] = r /\ last'[w] = (attempt[r] + 1 >= MaxAttempt) /\ pc'[w] = "running"
        /\ out'[w] = "none"
    BY <1>1, <1>5 DEF CommitInv, DoneResultCommitted, TypeInv, TypeOK
  <2> QED
    BY <1>1, <1>2, <1>3, <1>4, <1>5, <2>1, <2>2 DEF Stores, Knows
<1>6. CASE Leave(w) /\ faults' < faults
  <2>1. pc'[w] = "idle"
    BY <1>6 DEF Leave, TypeInv, TypeOK
  <2> QED
    BY <1>1, <1>2, <1>3, <1>4, <1>6, <2>1 DEF Stores
<1> QED
  BY <1>1, <1>5, <1>6

(* What Price is made of. *)
LEMMA PriceParts ==
    ASSUME NEW r
    PROVE  \E t, o \in {0, 1} : /\ Price(r) = Spent(r) + t + o
                                /\ (t = 1 <=> Free(r)) /\ (o = 1 <=> Owing(r))
BY DEF Price

LEMMA SpentStored ==
    ASSUME TypeOK, NEW r \in Row, attempt'[r] = attempt[r] + 1
    PROVE  /\ Spent(r) \in Nat /\ Spent(r)' \in Nat /\ Spent(r)' <= Spent(r) + 1
           /\ ~(attempt[r] + 1 >= MaxAttempt) => Spent(r)' = Spent(r)
           /\ attempt[r] = 0 /\ MaxAttempt > 1 => Spent(r)' = MaxAttempt - 1
           /\ attempt[r] = 0 /\ MaxAttempt = 1 => Spent(r)' = 1
<1>1. attempt[r] \in Nat /\ MaxAttempt \in Nat /\ MaxAttempt > 0
  BY MaxAttemptAssumption DEF TypeOK
<1>2. Spent(r)' = IF attempt[r] + 1 < MaxAttempt THEN MaxAttempt - 1 ELSE attempt[r] + 1
  BY DEF Spent
<1>3. Spent(r) = IF attempt[r] < MaxAttempt THEN MaxAttempt - 1 ELSE attempt[r]
  BY DEF Spent
<1> QED
  BY <1>1, <1>2, <1>3

(* Storing a message turns its delivery, or what its worker owes, into an
   attempt. *)
LEMMA PriceStored ==
    ASSUME Visibility # "zero", TypeInv, TypeInv', LinkInv, CommitInv, AccountInv, HeldInv, PriceInv,
           NEW w \in Worker, Store(w) \/ StoreMarksFailed(w),
           NEW r \in Row, Stores(w, r), Knows(w, r), qid[r] = cur[w]
    PROVE  Priced(r)'
<1>1. /\ faults \in Nat /\ faults' \in Nat /\ faults' <= faults
      /\ Works(w) \/ Disturbed(w)
  BY FaultsSpent DEF Works, Disturbed
<1>2. qid[r] # NoId /\ qid[r] \in Id /\ qid'[r] = qid[r] /\ remote' = remote
  BY HolderHasId, IdAssumption DEF Stores, TypeInv
<1>3. ~Owing(r)'
  BY DEF Owing, Owes, Stores
<1>4. Free(r) \/ Owes(w, r)
  <2>1. CASE remote[qid[r]] = w
    BY <2>1, WorkerAssumption DEF Free, Consumed, Past, Stores
  <2>2. CASE remote[qid[r]] # w
    BY <2>2 DEF Owes, Stores
  <2> QED
    BY <2>1, <2>2
<1>5. Free(r)' => faults' < faults \/ (Free(r) /\ Owing(r)) \/ Spent(r)' = Spent(r)
  <2> SUFFICES ASSUME Free(r)', ~(faults' < faults), ~(Free(r) /\ Owing(r))
               PROVE  Spent(r)' = Spent(r)
    OBVIOUS
  <2>1. Free(r)
    BY <1>1, <1>2, FreeKept
  <2>2. remote[qid[r]] = w
    BY <2>1 DEF Owing, Owes, Stores
  <2>3. /\ pc'[w] = "running" /\ Knows(w, r)' /\ out'[w] = "none"
        /\ last'[w] = (attempt[r] + 1 >= MaxAttempt)
    BY DEF Stores
  <2>4. ~last'[w]
    <3>1. ~Consumed(w, r)'
      BY DEF Free
    <3> QED
      BY <1>2, <2>2, <2>3, <3>1 DEF Consumed, Past
  <2> QED
    BY <2>3, <2>4, SpentStored DEF Stores, TypeInv
<1>6. PICK t \in {0, 1}, o \in {0, 1} :
          Price(r) = Spent(r) + t + o /\ (t = 1 <=> Free(r)) /\ (o = 1 <=> Owing(r))
  BY PriceParts
<1>7. PICK t1 \in {0, 1} : Price(r)' = Spent(r)' + t1 + 0 /\ (t1 = 1 => Free(r)')
  BY <1>3 DEF Price
<1>8. t + o >= 1
  BY <1>4, <1>6 DEF Owing
<1>9. t1 = 0 \/ faults' < faults \/ t + o = 2 \/ Spent(r)' = Spent(r)
  BY <1>5, <1>6, <1>7
<1>10. Spent(r) \in Nat /\ Spent(r)' \in Nat /\ Spent(r)' <= Spent(r) + 1
  BY SpentStored DEF Stores, TypeInv
<1>11. \A a, b, f, g, k \in Nat :
          a <= b + 1 /\ k >= 1 /\ g <= f /\ (t1 = 0 \/ g < f \/ k = 2 \/ a = b)
          => a + t1 + 0 + g <= b + k + f + 0
  OBVIOUS
<1>12. Spent(r)' + t1 + 0 + faults' <= Spent(r) + (t + o) + faults + 0
  <2>1. t + o \in Nat
    OBVIOUS
  <2> QED
    BY <1>1, <1>8, <1>9, <1>10, <1>11, <2>1
<1>13. Price(r)' + faults' <= Price(r) + faults + 0
  BY <1>1, <1>6, <1>7, <1>10, <1>12
<1>14. /\ IsFiniteSet(SentFor(r)) /\ IsFiniteSet(SentFor(r)') /\ Priced(r)
       /\ Cardinality(CommittedFor(r)') = Cardinality(CommittedFor(r)) + 0
  BY <1>1, <1>2, RetriesSame, CommittedFinite DEF PriceInv
<1> QED
  BY <1>13, <1>14, PricePaid DEF TypeInv

(* The first attempt of a new row. *)
LEMMA PriceCreated ==
    ASSUME Visibility # "zero", TypeInv, TypeInv', LinkInv, HeldInv, PriceInv,
           NEW w \in Worker, Works(w) \/ Disturbed(w), NEW r \in Row, Stores(w, r), qid[r] = NoId
    PROVE  Priced(r)'
<1>1. /\ faults \in 0..Faults /\ faults' \in 0..Faults /\ Faults \in Nat
      /\ MaxAttempt \in Nat /\ MaxAttempt > 0
  BY FaultsAssumption, MaxAttemptAssumption DEF TypeInv, TypeOK
<1>2. Used = Faults - faults /\ Used' = Faults - faults'
  BY DEF Used
<1>3. PICK u \in Nat : u = Used'
  <2>1. \A f \in 0..Faults : Faults - f \in Nat
    BY <1>1
  <2>2. Used' \in Nat
    BY <1>1, <1>2, <2>1
  <2> QED
    BY <2>2
<1>4. PICK k \in Nat : k = Cardinality(CommittedFor(r)')
  BY RetriesSame, CommittedFinite DEF PriceInv
<1>5. attempt[r] = 0 /\ attempt'[r] = attempt[r] + 1 /\ cur[w] \in Id /\ qid'[r] = cur[w]
  BY HolderHasId DEF Stores, LinkInv, RowKnown, TypeInv
<1>6. PICK t1 \in {0, 1} : Price(r)' = Spent(r)' + t1 + 0 /\ (t1 = 1 => Free(r)')
  <2>1. ~Owing(r)'
    BY DEF Owing, Owes, Stores
  <2> QED
    BY <2>1 DEF Price
<1>7. MaxAttempt = 1 => t1 = 0 \/ u > 0
  <2> SUFFICES ASSUME MaxAttempt = 1, Free(r)'
               PROVE  u > 0
    BY <1>6
  <2>1. CASE faults' < faults
    <3>1. \A f, g \in 0..Faults : g < f => Faults - g > 0
      BY <1>1
    <3> QED
      BY <1>1, <1>2, <1>3, <2>1, <3>1
  <2>2. CASE /\ pc'[w] = "running" /\ Knows(w, r)' /\ out'[w] = "none" /\ faults' = faults
             /\ last'[w] = (attempt[r] + 1 >= MaxAttempt)
    <3>1. last'[w]
      <4>1. attempt[r] + 1 >= MaxAttempt
        BY <1>5
      <4> QED
        BY <2>2, <4>1
    <3>2. remote[cur[w]] \notin {w, "deleted"}
      <4>1. ~Consumed(w, r)' /\ remote'[qid'[r]] # "deleted"
        BY DEF Free
      <4> QED
        BY <1>5, <2>2, <3>1, <4>1 DEF Consumed, Past, Stores
    <3>3. Used > 0
      BY <3>2 DEF HeldInv, ReceiptInv, Stores
    <3> QED
      BY <1>2, <1>3, <2>2, <3>3
  <2> QED
    BY <2>1, <2>2 DEF Stores
<1>8. /\ MaxAttempt > 1 => Spent(r)' = MaxAttempt - 1
      /\ MaxAttempt = 1 => Spent(r)' = 1
  BY <1>5, SpentStored DEF TypeInv
<1>9. PICK s \in Nat : s = Spent(r)'
  BY <1>5, SpentStored DEF TypeInv
<1>10. s + t1 + 0 <= MaxAttempt + u + k
  <2>1. CASE MaxAttempt > 1
    BY <1>1, <1>8, <1>9, <2>1
  <2>2. CASE MaxAttempt = 1
    BY <1>7, <1>8, <1>9, <2>2
  <2> QED
    BY <1>1, <2>1, <2>2
<1> QED
  BY <1>3, <1>4, <1>6, <1>9, <1>10 DEF Priced

LEMMA PriceWorker ==
    ASSUME Visibility # "zero", TypeInv, TypeInv', LinkInv, CommitInv, AccountInv, HeldInv, PriceInv,
           NEW w \in Worker, Works(w) \/ Disturbed(w)
    PROVE  PriceInv'
<1>1. \A r \in Row : /\ SentFor(r)' = SentFor(r) /\ CommittedFor(r)' = CommittedFor(r)
                     /\ IsFiniteSet(SentFor(r)')
  BY RetriesSame DEF PriceInv
<1>2. CASE Store(w) \/ StoreMarksFailed(w)
  <2>1. PICK r \in Row : Stores(w, r)
    BY <1>2, StoreEffect
  <2>2. Priced(r)'
    BY <1>2, <2>1, PriceStored, PriceCreated DEF Stores
  <2>3. ASSUME NEW s \in Row, s # r, qid'[s] # NoId
        PROVE  Priced(s)'
    <3>1. attempt'[s] = attempt[s] /\ qid'[s] = qid[s]
      BY <2>1, <2>3 DEF Stores
    <3> QED
      BY <1>1, <2>3, <3>1, PriceOthers
  <2> QED
    BY <1>1, <2>2, <2>3 DEF PriceInv
<1>3. CASE UNCHANGED <<qid, attempt>>
  <2> SUFFICES ASSUME NEW s \in Row, qid'[s] # NoId
               PROVE  Priced(s)'
    BY <1>1 DEF PriceInv
  <2> QED
    BY <1>1, <1>3, PriceOthers
<1>4. Store(w) \/ StoreMarksFailed(w) \/ UNCHANGED <<qid, attempt>>
  <2>1. CASE Works(w)
    BY <2>1 DEF Works, StoreRefused, JobOk, JobFails, JobAgain, Delete, CommitLate, Record,
       RecordOperational, RecordRefused, GiveUp, LeaveQuietly, Ends, MarkFailed, rowVars
  <2>2. CASE Disturbed(w)
    BY <2>2 DEF Disturbed, StoreRaisesCron, JobOperational, DeleteRaisesOnce, DeleteRaises,
       GiveUpRaises, Crash, LeaveQuietly, Ends, MarkFailed, rowVars
  <2> QED
    BY <2>1, <2>2
<1> QED
  BY <1>2, <1>3, <1>4

LEMMA PriceStep ==
    Visibility # "zero" /\ TypeInv /\ TypeInv' /\ LinkInv /\ CommitInv /\ AccountInv /\ HeldInv
        /\ PriceInv /\ [Next]_vars => PriceInv'
<1> SUFFICES ASSUME Visibility # "zero", TypeInv, TypeInv', LinkInv, CommitInv, AccountInv, HeldInv,
                    PriceInv, [Next]_vars
             PROVE  PriceInv'
  OBVIOUS
<1>1. faults \in Nat
  BY UsedType DEF TypeInv
<1>2. ASSUME NEW c \in Id, SendMessage(c) \/ \E r \in Row : RetrySend(r, c)
      PROVE  PriceInv'
  <2>1. /\ remote[c] = "none" /\ retrial[c] = "none"
        /\ remote' = [remote EXCEPT ![c] = "visible"]
        /\ UNCHANGED <<qid, attempt, pc, rec, snap, last, out, faults>>
        /\ \A d \in Id : d # c => origin'[d] = origin[d] /\ retrial'[d] = retrial[d]
        /\ retrial'[c] # "committed"
    BY <1>2 DEF SendMessage, RetrySend, NextId, rowVars, LinkInv, SentInv, TypeInv, TypeOK
  <2>2. \A d \in Id : d # c => remote'[d] = remote[d]
    BY <2>1 DEF TypeInv, TypeOK
  <2>3. \A r \in Row : qid[r] # c
    BY <2>1, IdAssumption DEF LinkInv, SentInv
  <2>4. \A r \in Row : CommittedFor(r)' = CommittedFor(r)
    BY <2>1 DEF CommittedFor, SentFor
  <2>5. faults' <= faults
    BY <1>1, <2>1
  <2> QED
    BY <2>1, <2>2, <2>3, <2>4, <2>5, PriceStill
<1>3. ASSUME NEW c \in Id, RetryAbort(c)
      PROVE  PriceInv'
  <2>1. /\ UNCHANGED <<remote, origin, qid, attempt, pc, rec, snap, last, out, faults>>
        /\ retrial[c] # "committed" /\ retrial'[c] # "committed"
        /\ \A d \in Id : d # c => retrial'[d] = retrial[d]
    BY <1>3 DEF RetryAbort, rowVars, TypeInv, TypeOK
  <2>2. \A r \in Row : CommittedFor(r)' = CommittedFor(r)
    BY <2>1 DEF CommittedFor, SentFor
  <2>3. faults' <= faults
    BY <1>1, <2>1
  <2> QED
    BY <2>1, <2>2, <2>3, PriceStill
<1>4. ASSUME NEW c \in Id, Timeout(c) \/ Overrun(c)
      PROVE  PriceInv'
  <2>1. /\ remote[c] \in Worker /\ remote'[c] = "visible"
        /\ \A d \in Id : d # c => remote'[d] = remote[d]
        /\ faults' <= faults /\ (cur[remote[c]] = c => faults' < faults)
        /\ UNCHANGED <<origin, retrial, qid, state, attempt, pc, cur, rec, snap, last, out>>
    BY <1>4, OverdueEffect
  <2>2. \A r \in Row : CommittedFor(r)' = CommittedFor(r)
    BY <2>1 DEF CommittedFor, SentFor
  <2> QED
    BY <2>1, <2>2, PriceStill
<1>5. CASE UNCHANGED vars
  <2>1. \A r \in Row : SentFor(r)' = SentFor(r) /\ CommittedFor(r)' = CommittedFor(r)
    BY <1>5 DEF vars, SentFor, CommittedFor
  <2>2. \A r \in Row : Price(r)' = Price(r) /\ Used' = Used
    BY <1>5 DEF vars, Price, Spent, Free, Owing, Owes, Consumed, Knows, Past, Used
  <2> QED
    BY <1>5, <2>1, <2>2 DEF vars, PriceInv, Priced
<1> QED
  BY <1>2, <1>3, <1>4, <1>5, PriceReceive, PriceCommit, PriceWorker DEF Next

LEMMA PriceInit == Init => PriceInv
<1> SUFFICES ASSUME Init, NEW r \in Row
             PROVE  IsFiniteSet(SentFor(r)) /\ qid[r] = NoId
  BY DEF PriceInv
<1>1. SentFor(r) = {}
  BY IdAssumption DEF Init, SentFor
<1> QED
  BY <1>1, FS_EmptySet DEF Init

(* Unless the processor forces a visibility timeout of zero, a row counts
   max_attempt attempts at most, and one more for each fault and each retry of it
   that committed. *)
THEOREM AttemptsWithinFaults ==
    ASSUME Visibility # "zero"
    PROVE  Spec => []AttemptsBounded
<1>1. TypeInv /\ LinkInv /\ PriceInv => AttemptsBounded
  <2>1. \A r \in Row : CommittedFor(r) = {c \in Id : origin[c] = r /\ retrial[c] = "committed"}
    BY DEF CommittedFor, SentFor
  <2> SUFFICES ASSUME TypeInv, LinkInv, PriceInv, NEW r \in Row
               PROVE  attempt[r] <= MaxAttempt + Used + Cardinality(CommittedFor(r))
    BY <2>1 DEF AttemptsBounded
  <2>2. Cardinality(CommittedFor(r)) \in Nat
    BY CommittedFinite, FS_CardinalityType DEF PriceInv
  <2>3. /\ Used \in Nat /\ MaxAttempt \in Nat /\ attempt[r] \in Nat
        /\ Spent(r) \in Nat /\ attempt[r] <= Spent(r)
    BY UsedType, SpentType, MaxAttemptAssumption DEF TypeInv, TypeOK
  <2>4. CASE qid[r] = NoId
    <3>1. attempt[r] = 0
      BY <2>4 DEF LinkInv, RowKnown
    <3> QED
      BY <2>2, <2>3, <3>1
  <2>5. CASE qid[r] # NoId
    <3>1. Price(r) <= MaxAttempt + Used + Cardinality(CommittedFor(r))
      BY <2>5 DEF PriceInv, Priced
    <3>2. PICK t \in {0, 1}, o \in {0, 1} : Price(r) = Spent(r) + t + o
      BY PriceParts
    <3> QED
      BY <2>2, <2>3, <3>1, <3>2
  <2> QED
    BY <2>4, <2>5
<1>2. Visibility # "zero" /\ TypeInv /\ TypeInv' /\ AccountInv /\ [Next]_vars => AccountInv'
  BY AccountStep
<1>3. Init => CommitInv
  BY DEF Init, CommitInv, DoneRowCommitted, DoneResultCommitted, RowShowsMessage
<1> DEFINE AllInv == TypeInv /\ LinkInv /\ CommitInv /\ AccountInv /\ HeldInv /\ PriceInv
<1>4. Init => AllInv
  BY <1>3, TypeInit, LinkInit, AccountInit, HeldInit, PriceInit
<1>5. AllInv /\ [Next]_vars => AllInv'
  BY <1>2, TypeStep, LinkStep, CommitStep, HeldStep, PriceStep
<1>6. AllInv => AttemptsBounded
  BY <1>1
<1> QED
  BY <1>4, <1>5, <1>6, PTL DEF Spec

-----------------------------------------------------------------------------
(* Messages no fault has got at. *)

(* w has the receipt of c for as long as it has not deleted it, and it deletes it
   unless the message is to be tried again. *)
ReceiptGood(w, c) ==
    /\ remote[c] \in {w, "deleted"}
    /\ pc[w] \in {"got", "running", "over"} => remote[c] = w
    /\ pc[w] = "late" => remote[c] = "deleted"
    /\ pc[w] = "ran" /\ out[w] = "retry" => remote[c] = w

(* w will write the row that shows c, or has finished it. *)
RowGood(w, r, c) ==
    /\ Knows(w, r) \/ Overtaken(r, c)
    /\ pc[w] = "giveup" => state[r] \in Final \/ Overtaken(r, c)

Recording(w, r, c) ==
    cur[w] = c /\ Knows(w, r) /\ (pc[w] = "late" \/ (pc[w] = "ran" /\ out[w] \in Final))

(* The row of a message that is deleted is finished, or about to be. *)
RowClosed(r, c) ==
    \/ state[r] \in Final
    \/ Overtaken(r, c)
    \/ \E w \in Worker : Recording(w, r, c)

Sound(c) ==
    /\ \A v, w \in Worker : cur[v] = c /\ cur[w] = c => v = w
    /\ \A w \in Worker : cur[w] = c =>
           /\ ReceiptGood(w, c)
           /\ \A r \in Row : qid[r] = c /\ Past(w) => RowGood(w, r, c)
    /\ remote[c] = "deleted" => \A r \in Row : qid[r] = c => RowClosed(r, c)

Unsound == {c \in Id : ~Sound(c)}

SoundInv == IsFiniteSet(Unsound) /\ Cardinality(Unsound) <= Used

(* The retries that overtake a message stay committed. *)
LEMMA OvertakenKept ==
    ASSUME NEW r, NEW c, Overtaken(r, c), state'[r] = state[r],
           origin'[c] = origin[c], retrial'[c] = retrial[c],
           \A d \in Id : retrial[d] = "committed" =>
               retrial'[d] = "committed" /\ origin'[d] = origin[d]
    PROVE  Overtaken(r, c)'
BY DEF Overtaken

(* A step that leaves message c, its row and its worker alone. *)
LEMMA SoundUntouched ==
    ASSUME TypeInv, LinkInv, NEW c \in Id, Sound(c),
           remote'[c] = remote[c], origin'[c] = origin[c],
           retrial[c] = "committed" => retrial'[c] = "committed",
           \A d \in Id : retrial[d] = "committed" =>
               retrial'[d] = "committed" /\ origin'[d] = origin[d],
           \A w \in Worker : cur'[w] = c => cur[w] = c,
           \A w \in Worker : cur[w] = c => /\ cur'[w] = c /\ pc'[w] = pc[w] /\ rec'[w] = rec[w]
                                           /\ out'[w] = out[w],
           \A r \in Row : qid'[r] = c =>
               /\ qid[r] = c /\ state'[r] = state[r]
               /\ \A w \in Worker : cur[w] = c /\ rec[w] = r => snap'[w] = snap[w]
    PROVE  Sound(c)'
<1>1. ASSUME NEW r \in Row, qid'[r] = c
      PROVE  /\ qid[r] = c /\ state'[r] = state[r] /\ (Overtaken(r, c) => Overtaken(r, c)')
             /\ \A w \in Worker : cur[w] = c /\ Knows(w, r) => Knows(w, r)'
  <2>1. Overtaken(r, c) => Overtaken(r, c)'
    BY <1>1 DEF Overtaken
  <2> QED
    BY <1>1, <2>1 DEF Knows
<1>2. \A w \in Worker : cur'[w] = c => ReceiptGood(w, c)'
  BY DEF Sound, ReceiptGood
<1>3. ASSUME NEW w \in Worker, cur'[w] = c, NEW r \in Row, qid'[r] = c, Past(w)'
      PROVE  RowGood(w, r, c)'
  <2>1. cur[w] = c /\ Past(w) /\ pc'[w] = pc[w]
    BY <1>3 DEF Past
  <2>2. RowGood(w, r, c)
    BY <1>1, <1>3, <2>1 DEF Sound
  <2> QED
    BY <1>1, <1>3, <2>1, <2>2 DEF RowGood
<1>4. ASSUME remote'[c] = "deleted", NEW r \in Row, qid'[r] = c
      PROVE  RowClosed(r, c)'
  <2>1. RowClosed(r, c)
    BY <1>1, <1>4 DEF Sound
  <2>2. \A w \in Worker : Recording(w, r, c) => Recording(w, r, c)'
    BY <1>1, <1>4 DEF Recording
  <2> QED
    BY <1>1, <1>4, <2>1, <2>2 DEF RowClosed
<1>5. \A v, w \in Worker : cur'[v] = c /\ cur'[w] = c => v = w
  BY DEF Sound
<1> QED
  BY <1>2, <1>3, <1>4, <1>5 DEF Sound

(* A message nobody has and that is not deleted is sound. *)
LEMMA SoundFree ==
    ASSUME NEW c, \A w \in Worker : cur'[w] # c, remote'[c] # "deleted"
    PROVE  Sound(c)'
BY DEF Sound

(* SQS and operators disturb no message, but by an overrun. *)
LEMMA SoundQueue ==
    ASSUME TypeInv, LinkInv, NEW c \in Id, Sound(c), NEW d \in Id,
           \/ SendMessage(d) \/ RetryAbort(d) \/ Timeout(d) \/ (Overrun(d) /\ c # d)
           \/ \E r \in Row : RetrySend(r, d)
    PROVE  Sound(c)'
<1>1. CASE SendMessage(d) \/ \E r \in Row : RetrySend(r, d)
  <2>1. /\ remote[d] = "none" /\ retrial[d] = "none" /\ remote'[d] = "visible"
        /\ UNCHANGED <<qid, state, pc, cur, rec, snap, out>>
        /\ \A e \in Id : e # d => /\ origin'[e] = origin[e] /\ retrial'[e] = retrial[e]
                                  /\ remote'[e] = remote[e]
    <3>1. /\ remote[d] = "none" /\ remote' = [remote EXCEPT ![d] = "visible"]
          /\ UNCHANGED <<qid, state, pc, cur, rec, snap, out>>
          /\ \/ UNCHANGED <<origin, retrial>>
             \/ \E r : /\ origin' = [origin EXCEPT ![d] = r]
                       /\ retrial' = [retrial EXCEPT ![d] = "open"]
      BY <1>1 DEF SendMessage, RetrySend, NextId, rowVars
    <3>2. retrial[d] = "none"
      BY <3>1 DEF LinkInv, SentInv
    <3> QED
      BY <3>1, <3>2 DEF TypeInv, TypeOK
  <2>2. CASE c = d
    <3>1. \A w \in Worker : cur'[w] # c
      BY <2>1, <2>2, IdAssumption DEF LinkInv, SentInv
    <3> QED
      BY <2>1, <2>2, <3>1, SoundFree
  <2>3. CASE c # d
    <3>1. \A e \in Id : retrial[e] = "committed" => retrial'[e] = "committed" /\ origin'[e] = origin[e]
      BY <2>1
    <3> QED
      BY <2>1, <2>3, <3>1, SoundUntouched
  <2> QED
    BY <2>2, <2>3
<1>2. CASE RetryAbort(d)
  <2>1. /\ UNCHANGED <<remote, origin, qid, state, pc, cur, rec, snap, out>>
        /\ \A e \in Id : retrial[e] = "committed" => retrial'[e] = "committed"
    BY <1>2 DEF RetryAbort, rowVars, TypeInv, TypeOK
  <2> QED
    BY <2>1, SoundUntouched
<1>3. CASE Timeout(d) \/ (Overrun(d) /\ c # d)
  <2>1. /\ remote[d] \in Worker /\ remote'[d] = "visible"
        /\ \A e \in Id : e # d => remote'[e] = remote[e]
        /\ Timeout(d) => cur[remote[d]] # d
        /\ UNCHANGED <<origin, retrial, qid, state, pc, cur, rec, snap, out>>
    BY <1>3, OverdueEffect
  <2>2. CASE c = d
    <3>1. \A w \in Worker : cur'[w] # c
      BY <1>3, <2>1, <2>2, WorkerAssumption DEF Sound, ReceiptGood
    <3> QED
      BY <2>1, <2>2, <3>1, SoundFree
  <2>3. CASE c # d
    BY <2>1, <2>3, SoundUntouched
  <2> QED
    BY <2>2, <2>3
<1> QED
  BY <1>1, <1>2, <1>3

LEMMA SoundReceive ==
    ASSUME TypeInv, LinkInv, NEW c \in Id, Sound(c), NEW x \in Worker, NEW d \in Id, Receive(x, d)
    PROVE  Sound(c)'
<1>1. /\ pc[x] = "idle" /\ remote[d] = "visible" /\ remote'[d] = x /\ pc'[x] = "got"
      /\ cur'[x] = d /\ cur[x] = NoId
      /\ \A e \in Id : e # d => remote'[e] = remote[e]
      /\ \A w \in Worker : w # x => /\ pc'[w] = pc[w] /\ cur'[w] = cur[w] /\ rec'[w] = rec[w]
                                    /\ snap'[w] = snap[w]
      /\ UNCHANGED <<origin, retrial, qid, state, out>>
  BY DEF Receive, Pickable, rowVars, TypeInv, TypeOK
<1>2. c # NoId /\ d # NoId /\ x # "deleted" /\ \A w \in Worker : w # "visible"
  BY IdAssumption, WorkerAssumption
<1>3. CASE c = d
  <2>1. \A w \in Worker : cur[w] # c
    BY <1>1, <1>2, <1>3 DEF Sound, ReceiptGood
  <2>2. \A w \in Worker : cur'[w] = c <=> w = x
    BY <1>1, <1>3, <2>1
  <2>3. ReceiptGood(x, c)' /\ ~Past(x)'
    BY <1>1, <1>3 DEF ReceiptGood, Past
  <2> QED
    BY <1>1, <1>2, <1>3, <2>2, <2>3 DEF Sound
<1>4. CASE c # d
  <2>1. \A w \in Worker : cur'[w] = c \/ cur[w] = c => w # x
    BY <1>1, <1>2, <1>4
  <2> QED
    BY <1>1, <1>4, <2>1, SoundUntouched
<1> QED
  BY <1>3, <1>4

(* A retry that commits may find that its message was executed in another row,
   and deleted: the row is overtaken then. *)
LEMMA SoundCommit ==
    ASSUME TypeInv, LinkInv, NEW c \in Id, Sound(c), NEW d \in Id, RetryCommit(d)
    PROVE  Sound(c)'
<1>1. PICK s \in Row : s = origin[d]
  BY CommitEffect
<1>2. /\ s = origin[d] /\ retrial[d] = "open" /\ ~Stored(d)
      /\ qid'[s] = d /\ state'[s] = "retry" /\ retrial'[d] = "committed"
      /\ \A r \in Row : r # s => qid'[r] = qid[r] /\ state'[r] = state[r]
      /\ \A e \in Id : retrial[e] = "committed" => retrial'[e] = "committed"
      /\ \A w \in Worker : snap'[w] = IF rec[w] = s /\ snap[w] = "fresh" THEN "stale" ELSE snap[w]
      /\ UNCHANGED <<remote, origin, pc, cur, rec, out>>
  BY <1>1, CommitEffect
<1>3. CASE c # d
  BY <1>2, <1>3, SoundUntouched
<1>4. CASE c = d
  <2>1. Outrun(d) => Overtaken(s, d)'
    BY <1>2 DEF Outrun, Overtaken
  <2>2. \A r \in Row : qid'[r] = d <=> r = s
    BY <1>2 DEF Stored
  <2>3. ASSUME NEW w \in Worker, cur[w] = d, Past(w)
        PROVE  Overtaken(s, d)'
    <3>1. rec[w] \in Row /\ rec[w] # s
      BY <1>2, <2>3, IdAssumption DEF TypeInv, TypeOK, Past, LinkInv, HolderInv
    <3>2. MovedOn(rec[w], d)
      BY <1>2, <2>3, <3>1, IdAssumption DEF LinkInv, HolderInv, Stored
    <3>3. Outrun(d)
      BY <1>2, <3>1, <3>2 DEF MovedOn, Outrun
    <3> QED
      BY <2>1, <3>3
  <2>4. \A w \in Worker : cur'[w] = d => ReceiptGood(w, d)'
    BY <1>2, <1>4 DEF Sound, ReceiptGood
  <2>5. \A w \in Worker : cur'[w] = d => \A r \in Row : qid'[r] = d /\ Past(w)' => RowGood(w, r, d)'
    BY <1>2, <2>2, <2>3 DEF RowGood, Past
  <2>6. ASSUME remote'[d] = "deleted"
        PROVE  RowClosed(s, d)'
    <3>1. Outrun(d)
      BY <1>2, <2>6 DEF LinkInv, DeletedOpen
    <3> QED
      BY <2>1, <3>1 DEF RowClosed
  <2> QED
    BY <1>2, <1>4, <2>2, <2>4, <2>5, <2>6 DEF Sound
<1> QED
  BY <1>3, <1>4

LEMMA WorkerCommitted ==
    ASSUME TypeInv, LinkInv, NEW w \in Worker, Works(w) \/ Disturbed(w)
    PROVE  /\ origin' = origin
           /\ \A d \in Id : retrial[d] = "committed" => retrial'[d] = "committed"
<1>1. /\ OthersSame(w)
      /\ Silent(w) \/ Rewrites(w) \/ \E q \in Row : Creates(w, q)
  BY WorkerEffect DEF LinkInv
<1> QED
  BY <1>1 DEF OthersSame, Silent, Rewrites, Creates, Touches

(* A worker disturbs its own message only, whatever happens to it. *)
LEMMA SoundOthers ==
    ASSUME Visibility # "zero", TypeInv, LinkInv, NEW c \in Id, Sound(c),
           NEW x \in Worker, Works(x) \/ Disturbed(x), cur[x] # c
    PROVE  Sound(c)'
<1>1. /\ OthersSame(x) /\ MessageKept(x)
      /\ Silent(x) \/ Rewrites(x) \/ \E q \in Row : Creates(x, q)
  BY WorkerEffect DEF LinkInv
<1>2. /\ origin' = origin
      /\ \A d \in Id : retrial[d] = "committed" => retrial'[d] = "committed"
  BY WorkerCommitted
<1>3. cur'[x] # c
  BY <1>1, IdAssumption DEF Silent, Rewrites, Creates, Gone, Stays
<1>4. remote'[c] = remote[c]
  BY <1>1, RemoteKept
<1>5. ASSUME NEW r \in Row, qid'[r] = c
      PROVE  /\ qid[r] = c /\ state'[r] = state[r]
             /\ \A w \in Worker : cur[w] = c /\ rec[w] = r => snap'[w] = snap[w]
  <2>1. CASE Silent(x)
    BY <1>5, <2>1 DEF Silent
  <2>2. CASE Rewrites(x)
    <3>1. rec[x] # r
      BY <1>5, <2>2, KnowsMessage DEF Rewrites, Knows
    <3> QED
      BY <1>5, <2>2, <3>1 DEF Rewrites, Touches
  <2>3. ASSUME NEW q \in Row, Creates(x, q)
        PROVE  /\ qid[r] = c /\ state'[r] = state[r]
               /\ \A w \in Worker : cur[w] = c /\ rec[w] = r => snap'[w] = snap[w]
    <3>1. q # r
      BY <1>5, <2>3 DEF Creates
    <3> QED
      BY <1>5, <2>3, <3>1 DEF Creates, Touches
  <2> QED
    BY <1>1, <2>1, <2>2, <2>3
<1>6. \A w \in Worker : w # x => /\ pc'[w] = pc[w] /\ cur'[w] = cur[w] /\ rec'[w] = rec[w]
                                 /\ out'[w] = out[w]
  BY <1>1 DEF OthersSame
<1> QED
  BY <1>2, <1>3, <1>4, <1>5, <1>6, SoundUntouched

(* What is left to show once w has left c, ... *)
LEMMA SoundLeft ==
    ASSUME NEW c, \A w \in Worker : cur'[w] # c,
           \A r \in Row : remote'[c] = "deleted" /\ qid'[r] = c => state'[r] \in Final \/ Overtaken(r, c)'
    PROVE  Sound(c)'
BY DEF Sound, RowClosed

(* ... or has it still. *)
LEMMA SoundHeld ==
    ASSUME NEW c, NEW x \in Worker, \A w \in Worker : cur'[w] = c => w = x, ReceiptGood(x, c)',
           \A r \in Row : qid'[r] = c /\ Past(x)' => RowGood(x, r, c)',
           \A r \in Row : remote'[c] = "deleted" /\ qid'[r] = c =>
               state'[r] \in Final \/ Overtaken(r, c)' \/ Recording(x, r, c)'
    PROVE  Sound(c)'
BY DEF Sound, RowClosed

(* A worker that is not disturbed keeps its message sound: storing it, ... *)
LEMMA SoundStore ==
    ASSUME Visibility # "zero", TypeInv, LinkInv, LinkInv', NEW x \in Worker, NEW c \in Id, cur[x] = c,
           Sound(c), Store(x) \/ StoreRefused(x)
    PROVE  Sound(c)'
<1>1. pc[x] = "got" /\ remote' = remote /\ remote[c] = x /\ x # "deleted"
  <2>1. pc[x] = "got" /\ remote' = remote
    BY DEF Store, StoreRefused, AfterChange, LeaveQuietly, sqsVars
  <2> QED
    BY <2>1, WorkerAssumption DEF Sound, ReceiptGood
<1>2. \A w \in Worker : cur[w] = c => w = x
  BY DEF Sound
<1>3. CASE StoreRefused(x)
  <2>1. Leave(x)
    BY <1>3 DEF StoreRefused, LeaveQuietly
  <2>2. \A w \in Worker : cur'[w] # c
    BY <1>2, <2>1, IdAssumption DEF Leave, TypeInv, TypeOK
  <2> QED
    BY <1>1, <2>2, SoundFree
<1>4. CASE Store(x)
  <2>1. PICK q \in Row : WriteRow(x, q, "wip") /\ rec' = [rec EXCEPT ![x] = q] /\ Wrote(x, q, "fresh")
    BY <1>4 DEF Store
  <2>2. /\ qid'[q] = c /\ rec'[x] = q /\ snap'[x] = "fresh" /\ pc'[x] = "running" /\ cur' = cur
    BY <1>4, <2>1, WroteTouches DEF Store, WriteRow, TypeInv, TypeOK
  <2>3. \A r \in Row : qid'[r] = c => r = q
    BY <2>2, IdAssumption DEF LinkInv, OneRow
  <2>4. \A r \in Row : qid'[r] = c => RowGood(x, r, c)'
    BY <2>2, <2>3 DEF RowGood, Knows
  <2>5. ReceiptGood(x, c)'
    BY <1>1, <2>2 DEF ReceiptGood
  <2> QED
    BY <1>1, <1>2, <2>2, <2>4, <2>5, SoundHeld
<1> QED
  BY <1>3, <1>4

(* ... running its job, ... *)
LEMMA SoundJob ==
    ASSUME TypeInv, LinkInv, NEW x \in Worker, NEW c \in Id, cur[x] = c, Sound(c),
           JobOk(x) \/ JobFails(x) \/ JobAgain(x) \/ CommitLate(x)
    PROVE  Sound(c)'
<1>1. PICK z \in {"done", "imqerror", "terminated", "failed", "retry"}, p \in {"over", "ran"} :
          /\ Ends(x, z, p)
          /\ \/ pc[x] = "running"
             \/ pc[x] = "late" /\ p = "ran" /\ z = "failed"
  BY DEF JobOk, JobFails, JobAgain, CommitLate
<1>2. /\ pc'[x] = p /\ out'[x] = z
      /\ UNCHANGED <<remote, origin, retrial, qid, state, cur, rec, snap>>
  BY <1>1 DEF Ends, sqsVars, rowVars, TypeInv, TypeOK
<1>3. (\A w \in Worker : cur'[w] = c => w = x) /\ x # "deleted"
  BY <1>2, WorkerAssumption DEF Sound
<1>4. /\ pc[x] = "running" => remote[c] = x
      /\ pc[x] = "late" => remote[c] = "deleted"
  BY DEF Sound, ReceiptGood
<1>5. ReceiptGood(x, c)'
  BY <1>1, <1>2, <1>4 DEF ReceiptGood
<1>6. ASSUME NEW r \in Row, qid[r] = c
      PROVE  /\ Knows(x, r) \/ Overtaken(r, c)
             /\ (Knows(x, r)' <=> Knows(x, r)) /\ (Overtaken(r, c)' <=> Overtaken(r, c))
  <2>1. Knows(x, r) \/ Overtaken(r, c)
    BY <1>1, <1>6 DEF Sound, RowGood, Past
  <2> QED
    BY <1>2, <2>1 DEF Knows, Overtaken
<1>7. \A r \in Row : qid'[r] = c => RowGood(x, r, c)'
  BY <1>2, <1>6 DEF RowGood
<1>8. \A r \in Row : remote'[c] = "deleted" /\ qid'[r] = c => Overtaken(r, c)' \/ Recording(x, r, c)'
  BY <1>1, <1>2, <1>3, <1>4, <1>6 DEF Recording, Final
<1> QED
  BY <1>3, <1>5, <1>7, <1>8, SoundHeld

(* ... deleting the message, ... *)
LEMMA SoundDelete ==
    ASSUME TypeInv, LinkInv, NEW x \in Worker, NEW c \in Id, cur[x] = c, Sound(c),
           Delete(x) \/ GiveUp(x)
    PROVE  Sound(c)'
<1>1. \A w \in Worker : cur[w] = c => w = x
  BY DEF Sound
<1>2. /\ Deleted(x) /\ UNCHANGED <<origin, retrial, qid, state>>
      /\ pc[x] \in {"over", "giveup"}
  BY DEF Delete, GiveUp, rowVars
<1>3. \A r \in Row : Overtaken(r, c)' <=> Overtaken(r, c)
  BY <1>2 DEF Overtaken
<1>4. ASSUME NEW r \in Row, qid[r] = c
      PROVE  RowGood(x, r, c)
  BY <1>2, <1>4 DEF Sound, Past
<1>5. CASE Delete(x)
  <2>1. /\ pc[x] = "over" /\ UNCHANGED <<cur, rec, snap, out>>
        /\ pc'[x] = IF out[x] = "imqerror" THEN "late" ELSE "ran"
    BY <1>5 DEF Delete, TypeInv, TypeOK
  <2>2. remote'[c] = "deleted"
    BY <1>2, <2>1 DEF Sound, ReceiptGood, Deleted, TypeInv, TypeOK
  <2>3. out[x] \in Final \cup {"imqerror"}
    BY <2>1 DEF TypeInv, TypeOK, OverHasResult
  <2>4. ReceiptGood(x, c)'
    BY <2>1, <2>2, <2>3 DEF ReceiptGood, Final
  <2>5. \A r \in Row : qid'[r] = c => RowGood(x, r, c)'
    BY <1>2, <1>3, <1>4, <2>1 DEF RowGood, Knows
  <2>6. \A r \in Row : qid'[r] = c => Overtaken(r, c)' \/ Recording(x, r, c)'
    BY <1>2, <1>3, <1>4, <2>1, <2>3 DEF RowGood, Knows, Recording
  <2> QED
    BY <1>1, <2>1, <2>4, <2>5, <2>6, SoundHeld
<1>6. CASE GiveUp(x)
  <2>1. Leave(x) /\ pc[x] = "giveup"
    BY <1>6 DEF GiveUp
  <2>2. \A w \in Worker : cur'[w] # c
    BY <1>1, <2>1, IdAssumption DEF Leave, TypeInv, TypeOK
  <2>3. \A r \in Row : qid'[r] = c => state'[r] \in Final \/ Overtaken(r, c)'
    BY <1>2, <1>3, <1>4, <2>1 DEF RowGood
  <2> QED
    BY <2>2, <2>3, SoundLeft
<1> QED
  BY <1>5, <1>6

(* ... or recording its result. *)
LEMMA SoundRecord ==
    ASSUME TypeInv, LinkInv, HeldInv, NEW x \in Worker, NEW c \in Id, cur[x] = c, Sound(c),
           Record(x) \/ RecordOperational(x)
    PROVE  Sound(c)'
<1>1. \A w \in Worker : cur[w] = c => w = x
  BY DEF Sound
<1>2. /\ pc[x] = "ran" /\ snap[x] = "fresh" /\ rec[x] \in Row /\ Knows(x, rec[x])
      /\ UNCHANGED <<remote, qid>>
  BY DEF Record, RecordOperational, MarkFailed, Knows, TypeInv, TypeOK
<1>3. \A r \in Row : qid'[r] = c => r = rec[x]
  BY <1>2, KnowsMessage, IdAssumption DEF LinkInv, OneRow
<1>4. PICK z : /\ state'[rec[x]] = z
               /\ z \in Final \/ (z = "retry" /\ out[x] = "retry" /\ Record(x))
  <2>1. CASE Record(x)
    <3>1. out[x] \in Final \cup {"retry"} /\ state'[rec[x]] = out[x]
      BY <1>2, <2>1 DEF Record, TypeInv, TypeOK
    <3> QED
      BY <2>1, <3>1
  <2>2. CASE RecordOperational(x)
    <3>1. state'[rec[x]] = "failed"
      BY <1>2, <2>2 DEF RecordOperational, MarkFailed, TypeInv, TypeOK
    <3> QED
      BY <3>1 DEF Final
  <2> QED
    BY <2>1, <2>2
<1>5. remote'[c] = "deleted" => state'[rec[x]] \in Final
  <2>1. out[x] = "retry" => remote[c] = x /\ x # "deleted"
    BY <1>2, WorkerAssumption DEF Sound, ReceiptGood
  <2> QED
    BY <1>2, <1>4, <2>1
<1>6. CASE Leave(x)
  <2>1. \A w \in Worker : cur'[w] # c
    BY <1>1, <1>6, IdAssumption DEF Leave, TypeInv, TypeOK
  <2> QED
    BY <1>3, <1>5, <2>1, SoundLeft
<1>7. CASE /\ pc' = [pc EXCEPT ![x] = "giveup"] /\ Wrote(x, rec[x], "fresh")
           /\ UNCHANGED <<cur, rec, last, out>> /\ last[x]
  <2>1. pc'[x] = "giveup" /\ snap'[x] = "fresh"
    BY <1>7, WroteTouches DEF TypeInv, TypeOK
  <2>2. state'[rec[x]] \in Final
    BY <1>4, <1>7 DEF HeldInv, OutcomeInv
  <2>3. ReceiptGood(x, c)'
    BY <1>2, <1>7, <2>1 DEF Sound, ReceiptGood
  <2>4. \A r \in Row : qid'[r] = c => RowGood(x, r, c)'
    BY <1>3, <1>7, <2>1, <2>2 DEF RowGood, Knows
  <2> QED
    BY <1>1, <1>3, <1>7, <2>2, <2>3, <2>4, SoundHeld
<1> QED
  BY <1>6, <1>7 DEF Record, RecordOperational, MarkFailed

(* A record that is refused loses nothing that is not overtaken. *)
LEMMA SoundRefused ==
    ASSUME TypeInv, LinkInv, NEW x \in Worker, NEW c \in Id, cur[x] = c, Sound(c), RecordRefused(x)
    PROVE  Sound(c)'
<1>1. \A w \in Worker : cur[w] = c => w = x
  BY DEF Sound
<1>2. /\ pc[x] = "ran" /\ Leave(x) /\ UNCHANGED <<remote, origin, retrial, qid, state>>
      /\ snap[x] = "stale" \/ out[x] = "psycopg2_Error"
  BY DEF RecordRefused, LeaveQuietly, sqsVars, rowVars
<1>3. \A w \in Worker : cur'[w] # c
  BY <1>1, <1>2, IdAssumption DEF Leave, TypeInv, TypeOK
<1>4. \A r \in Row : Overtaken(r, c)' <=> Overtaken(r, c)
  BY <1>2 DEF Overtaken
<1>5. ASSUME NEW r \in Row, remote[c] = "deleted", qid[r] = c
      PROVE  state[r] \in Final \/ Overtaken(r, c)
  <2>1. RowClosed(r, c) /\ RowGood(x, r, c)
    BY <1>2, <1>5 DEF Sound, Past
  <2>2. CASE snap[x] = "stale"
    BY <2>1, <2>2 DEF RowGood, Knows
  <2>3. CASE out[x] = "psycopg2_Error"
    BY <1>1, <1>2, <2>1, <2>3 DEF RowClosed, Recording, Final
  <2> QED
    BY <1>2, <2>2, <2>3
<1> QED
  BY <1>2, <1>3, <1>4, <1>5, SoundLeft

LEMMA UsedMore ==
    ASSUME TypeOK, TypeOK', NEW n \in Nat, n <= Used
    PROVE  /\ faults' <= faults => n <= Used'
           /\ faults' < faults => n + 1 <= Used'
<1>1. /\ Used = Faults - faults /\ Used' = Faults - faults'
      /\ faults \in 0..Faults /\ faults' \in 0..Faults /\ Faults \in Nat
  BY FaultsAssumption DEF TypeOK, Used
<1>2. \A f, g \in 0..Faults : n <= Faults - f =>
          /\ g <= f => n <= Faults - g
          /\ g < f => n + 1 <= Faults - g
  BY <1>1
<1>3. n <= Faults - faults
  BY <1>1
<1> QED
  BY <1>1, <1>2, <1>3

(* A step makes one message unsound at most, and none unless it is a fault. *)
LEMMA UnsoundCounted ==
    ASSUME TypeOK, TypeOK', SoundInv, faults' <= faults, NEW c,
           \A d \in Id : Sound(d) => Sound(d)' \/ (d = c /\ faults' < faults)
    PROVE  SoundInv'
<1>1. IsFiniteSet(Unsound) /\ Cardinality(Unsound) \in Nat /\ Cardinality(Unsound) <= Used
  BY FS_CardinalityType DEF SoundInv
<1>2. PICK u : u = Unsound
  OBVIOUS
<1>3. CASE faults' < faults
  <2>1. Unsound' \subseteq u \cup {c}
    BY <1>2 DEF Unsound
  <2>2. IsFiniteSet(u \cup {c}) /\ Cardinality(u \cup {c}) <= Cardinality(u) + 1
    <3>1. IsFiniteSet(u) /\ Cardinality(u) \in Nat
      BY <1>1, <1>2
    <3>2. CASE c \in u
      <4>1. u \cup {c} = u
        BY <3>2
      <4>2. \A n \in Nat : n <= n + 1
        OBVIOUS
      <4> QED
        BY <3>1, <4>1, <4>2
    <3>3. CASE c \notin u
      <4>1. IsFiniteSet(u \cup {c}) /\ Cardinality(u \cup {c}) = Cardinality(u) + 1
        BY <3>1, <3>3, FS_AddElement
      <4>2. \A n \in Nat : n + 1 <= n + 1
        OBVIOUS
      <4> QED
        BY <3>1, <4>1, <4>2
    <3> QED
      BY <3>2, <3>3
  <2>3. IsFiniteSet(Unsound') /\ Cardinality(Unsound') <= Cardinality(u \cup {c})
    BY <2>1, <2>2, FS_Subset
  <2>4. Cardinality(Unsound') \in Nat /\ Cardinality(u \cup {c}) \in Nat
    BY <2>2, <2>3, FS_CardinalityType
  <2>5. PICK m \in Nat : m = Used'
    <3>1. \A f \in 0..Faults : Faults - f \in Nat
      BY FaultsAssumption
    <3>2. Used' = Faults - faults' /\ faults' \in 0..Faults
      BY DEF Used, TypeOK
    <3>3. Used' \in Nat
      BY <3>1, <3>2
    <3> QED
      BY <3>3
  <2>6. Cardinality(u) + 1 <= m
    BY <1>1, <1>2, <1>3, <2>5, UsedMore
  <2>7. Cardinality(Unsound') <= m
    BY <1>1, <1>2, <2>2, <2>3, <2>4, <2>6
  <2> QED
    BY <2>3, <2>5, <2>7 DEF SoundInv
<1>4. CASE ~(faults' < faults)
  <2>1. Unsound' \subseteq u
    BY <1>2, <1>4 DEF Unsound
  <2>2. IsFiniteSet(Unsound') /\ Cardinality(Unsound') <= Cardinality(u)
    BY <1>1, <1>2, <2>1, FS_Subset
  <2>3. Cardinality(Unsound') \in Nat
    BY <2>2, FS_CardinalityType
  <2>4. PICK m \in Nat : m = Used'
    <3>1. \A f \in 0..Faults : Faults - f \in Nat
      BY FaultsAssumption
    <3>2. Used' = Faults - faults' /\ faults' \in 0..Faults
      BY DEF Used, TypeOK
    <3>3. Used' \in Nat
      BY <3>1, <3>2
    <3> QED
      BY <3>3
  <2>5. Cardinality(u) <= m
    BY <1>1, <1>2, <2>4, UsedMore
  <2>6. Cardinality(Unsound') <= m
    BY <1>1, <1>2, <2>2, <2>3, <2>5
  <2> QED
    BY <2>2, <2>4, <2>6 DEF SoundInv
<1> QED
  BY <1>3, <1>4

LEMMA SoundStep ==
    Visibility # "zero" /\ TypeInv /\ TypeInv' /\ LinkInv /\ LinkInv' /\ HeldInv /\ SoundInv
        /\ [Next]_vars => SoundInv'
<1> SUFFICES ASSUME Visibility # "zero", TypeInv, TypeInv', LinkInv, LinkInv', HeldInv, SoundInv,
                    [Next]_vars
             PROVE  SoundInv'
  OBVIOUS
<1>1. faults \in Nat
  BY UsedType DEF TypeInv
<1>2. ASSUME NEW x \in Worker, Works(x) \/ Disturbed(x)
      PROVE  SoundInv'
  <2>1. PICK c : c = cur[x]
    OBVIOUS
  <2>2. /\ faults' <= faults /\ (Disturbed(x) => faults' < faults)
        /\ pc[x] # "idle"
    BY <1>2, FaultsSpent
  <2>3. ASSUME NEW d \in Id, Sound(d), d # c
        PROVE  Sound(d)'
    BY <1>2, <2>1, <2>3, SoundOthers
  <2>4. ASSUME Works(x), NEW d \in Id, Sound(d), d = c
        PROVE  Sound(d)'
    BY <2>1, <2>4, SoundStore, SoundJob, SoundDelete, SoundRecord, SoundRefused DEF Works
  <2>5. \A d \in Id : Sound(d) => Sound(d)' \/ (d = c /\ faults' < faults)
    BY <1>2, <2>2, <2>3, <2>4
  <2> QED
    BY <2>2, <2>5, UnsoundCounted DEF TypeInv
<1>3. ASSUME NEW c \in Id, \/ SendMessage(c) \/ RetryCommit(c) \/ RetryAbort(c) \/ Timeout(c)
                           \/ \E r \in Row : RetrySend(r, c)
      PROVE  SoundInv'
  <2>1. faults' = faults
    BY <1>3 DEF SendMessage, RetryCommit, RetryAbort, RetrySend, Timeout
  <2>2. faults' <= faults
    BY <1>1, <2>1
  <2>3. \A d \in Id : Sound(d) => Sound(d)'
    BY <1>3, SoundQueue, SoundCommit
  <2> QED
    BY <2>2, <2>3, UnsoundCounted DEF TypeInv
<1>4. ASSUME NEW c \in Id, Overrun(c)
      PROVE  SoundInv'
  <2>1. faults' <= faults /\ faults' < faults
    BY <1>1, <1>4 DEF Overrun, Fault
  <2>2. \A d \in Id : Sound(d) => Sound(d)' \/ d = c
    BY <1>4, SoundQueue
  <2> QED
    BY <2>1, <2>2, UnsoundCounted DEF TypeInv
<1>5. ASSUME NEW w \in Worker, NEW c \in Id, Receive(w, c)
      PROVE  SoundInv'
  <2>1. faults' <= faults
    BY <1>1, <1>5 DEF Receive
  <2>2. \A d \in Id : Sound(d) => Sound(d)'
    BY <1>5, SoundReceive
  <2> QED
    BY <2>1, <2>2, UnsoundCounted DEF TypeInv
<1>6. CASE UNCHANGED vars
  <2>1. faults' <= faults
    BY <1>1, <1>6 DEF vars
  <2>2. \A d \in Id : Sound(d) => Sound(d)'
    BY <1>6, SoundUntouched DEF vars
  <2> QED
    BY <2>1, <2>2, UnsoundCounted DEF TypeInv
<1> QED
  BY <1>2, <1>3, <1>4, <1>5, <1>6 DEF Next

LEMMA SoundInit == Init => SoundInv
<1> SUFFICES ASSUME Init
             PROVE  SoundInv
  OBVIOUS
<1>1. \A c \in Id : Sound(c)
  BY IdAssumption DEF Init, Sound
<1>2. Unsound = {}
  BY <1>1 DEF Unsound
<1>3. IsFiniteSet(Unsound) /\ Cardinality(Unsound) = 0
  BY <1>2, FS_EmptySet
<1>4. Used = 0
  BY FaultsAssumption DEF Init, Used
<1> QED
  BY <1>3, <1>4 DEF SoundInv

(* Unless the processor forces a visibility timeout of zero, a message that is
   deleted and not finished in its row takes a fault of its own: as many rows are
   left in wip or retry for ever as there were faults, at most. *)
THEOREM StrandedWithinFaults ==
    ASSUME Visibility # "zero"
    PROVE  Spec => []StrandedByFaults
<1>1. TypeInv /\ SoundInv => StrandedByFaults
  <2> SUFFICES ASSUME TypeInv, SoundInv
               PROVE  Cardinality({c \in Id : Stranded(c)}) <= Used
    BY DEF StrandedByFaults
  <2>1. \A c \in Id : Stranded(c) => ~Sound(c)
    BY DEF Stranded, Sound, RowClosed, Recording
  <2>2. {c \in Id : Stranded(c)} \subseteq Unsound
    BY <2>1 DEF Unsound
  <2>3. /\ IsFiniteSet({c \in Id : Stranded(c)}) /\ IsFiniteSet(Unsound)
        /\ Cardinality({c \in Id : Stranded(c)}) <= Cardinality(Unsound)
    BY <2>2, FS_Subset DEF SoundInv
  <2>4. Cardinality({c \in Id : Stranded(c)}) \in Nat /\ Cardinality(Unsound) \in Nat /\ Used \in Nat
    BY <2>3, FS_CardinalityType, UsedType DEF TypeInv
  <2> QED
    BY <2>3, <2>4 DEF SoundInv
<1>2. Visibility # "zero" /\ TypeInv /\ TypeInv' /\ AccountInv /\ [Next]_vars => AccountInv'
  BY AccountStep
<1>3. Init => CommitInv
  BY DEF Init, CommitInv, DoneRowCommitted, DoneResultCommitted, RowShowsMessage
<1> DEFINE AllInv == TypeInv /\ LinkInv /\ CommitInv /\ AccountInv /\ HeldInv /\ SoundInv
<1>4. Init => AllInv
  BY <1>3, TypeInit, LinkInit, AccountInit, HeldInit, SoundInit
<1>5. AllInv /\ [Next]_vars => AllInv'
  BY <1>2, TypeStep, LinkStep, CommitStep, HeldStep, SoundStep
<1>6. AllInv => StrandedByFaults
  BY <1>1
<1> QED
  BY <1>4, <1>5, <1>6, PTL DEF Spec
=============================================================================

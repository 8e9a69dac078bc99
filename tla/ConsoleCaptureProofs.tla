------------------------ MODULE ConsoleCaptureProofs ------------------------
(***************************************************************************)
(* Proofs about ConsoleCapture, for any number of jobs, threads and writes,*)
(* stragglers and failing INSERTs included.                                *)
(***************************************************************************)
EXTENDS ConsoleCapture, FiniteSetTheorems, SequenceTheorems, TLAPS

USE TasksAssumption

-----------------------------------------------------------------------------
(* The inductive invariant. *)

TextTypes ==
    /\ buf \in [Task -> [Thread -> Seq(Piece)]]
    /\ rows \in [Task -> Seq(Seq(Piece))]
    /\ due \in [Task -> SUBSET Piece]

(* Streams, cursors and handlers belong to jobs that were started; the stream
   in thread-local storage has a cursor that was not closed. *)
CaptureInv ==
    /\ flushed => Tearing /\ tls # NoTask
    /\ tls <= task
    /\ tls # NoTask => cursor[tls] \in {"open", "aborted"}
    /\ \A p \in Task : given[p] \in {p, NoTask}
    /\ \A p \in Task : p > task => cursor[p] = "none"

(* What a standalone worker has on its thread is of its current message. *)
StandaloneInv ==
    kind = "standalone" =>
        /\ phase = "idle" => tls = NoTask
        /\ handlers \subseteq (IF phase = "idle" \/ flushed THEN {} ELSE {task})
        /\ \A p \in Task : cursor[p] \in {"open", "aborted"} => tls = p /\ p = task
        /\ tls # NoTask => tls = task

(* s is text that thread t of job p wrote, in order, among its first n pieces. *)
Line(s, p, t, n) ==
    /\ \A i \in 1..Len(s) : s[i].of = p /\ s[i].by = t /\ s[i].at <= n
    /\ \A i, j \in 1..Len(s) : i < j => s[i].at < s[j].at

(* Nothing of D by t is missing behind the start of s. *)
Complete(s, D, t) ==
    s # <<>> => \A a \in D : a.by = t /\ s[1].at < a.at => a \in PiecesOf(s)

(* Nothing of D is missing between the start and the end of s. *)
Whole(s, D) ==
    \A a \in D : a.by = s[1].by /\ s[1].at < a.at /\ a.at < s[Len(s)].at => a \in PiecesOf(s)

Written(p) == UNION {PiecesOf(rows[p][k]) : k \in 1..Len(rows[p])}

DueInv == \A p \in Task : \A a \in due[p] : a.of = p /\ a.at <= count[p]

BufferInv ==
    \A p \in Task, t \in Thread :
        Line(buf[p][t], p, t, count[p]) /\ Complete(buf[p][t], due[p], t)

RowInv ==
    \A p \in Task : \A k \in 1..Len(rows[p]) :
        /\ rows[p][k] # <<>>
        /\ \E t \in Thread : Line(rows[p][k], p, t, count[p])
        /\ Whole(rows[p][k], due[p])

OnceInv ==
    \A p \in Task : \A k \in 1..Len(rows[p]) :
        /\ \A l \in 1..Len(rows[p]) :
               k # l => PiecesOf(rows[p][k]) \cap PiecesOf(rows[p][l]) = {}
        /\ \A t \in Thread : PiecesOf(rows[p][k]) \cap PiecesOf(buf[p][t]) = {}

KeptInv ==
    \A p \in Task : p \notin broken => \A a \in due[p] :
        \/ a \in Written(p)
        \/ /\ a \in PiecesOf(buf[p][a.by])
           /\ cursor[p] # "closed" /\ ~(flushed /\ tls = p)

TextInv == DueInv /\ BufferInv /\ RowInv /\ OnceInv /\ KeptInv

CInv == TypeOK /\ TextTypes /\ CaptureInv /\ StandaloneInv /\ TextInv

-----------------------------------------------------------------------------
(* Sequences. *)

(* SetToSeq lists every element of a finite set once. *)
LEMMA Enumeration ==
    ASSUME NEW S, IsFiniteSet(S)
    PROVE  /\ Cardinality(S) \in Nat
           /\ SetToSeq(S) \in [1..Cardinality(S) -> S]
           /\ \A i, j \in 1..Cardinality(S) : SetToSeq(S)[i] = SetToSeq(S)[j] => i = j
           /\ \A x \in S : \E i \in 1..Cardinality(S) : SetToSeq(S)[i] = x
<1> DEFINE n == Cardinality(S)
<1>1. n \in Nat /\ ExistsBijection(1..n, S)
  BY FS_CardinalityType
<1>2. PICK f \in Bijection(1..n, S) : TRUE
  BY <1>1 DEF ExistsBijection
<1>3. f \in [1..n -> S] /\ IsInjective(f)
  BY <1>2 DEF Bijection, Injection
<1>4. SetToSeq(S) \in [1..n -> S] /\ IsInjective(SetToSeq(S))
  BY <1>3 DEF SetToSeq
<1>5. SetToSeq(S) \in Injection(1..n, S)
  BY <1>4 DEF Injection
<1>6. Cardinality(1..n) = n
  BY <1>1, FS_Interval
<1>7. SetToSeq(S) \in Surjection(1..n, S)
  BY <1>5, <1>6, FS_Injection
<1> QED
  BY <1>1, <1>4, <1>7 DEF IsInjective, Surjection

(* r is s with elements of W behind it, none of them twice. *)
Extended(r, s, W) ==
    /\ Len(r) >= Len(s)
    /\ \A k \in 1..Len(s) : r[k] = s[k]
    /\ \A k \in 1..Len(r) : k > Len(s) => r[k] \in W
    /\ \A k, l \in 1..Len(r) : k > Len(s) /\ l > Len(s) /\ r[k] = r[l] => k = l

Covers(r, W) == \A x \in W : \E k \in 1..Len(r) : r[k] = x

(* The rows of a set of texts, behind those already there. *)
LEMMA RowsAdded ==
    ASSUME NEW T, NEW s \in Seq(T), NEW W, W \subseteq T, IsFiniteSet(W),
           NEW r, r = s \o SetToSeq(W)
    PROVE  r \in Seq(T) /\ Extended(r, s, W) /\ Covers(r, W)
<1> DEFINE n == Cardinality(W)
           w == SetToSeq(W)
<1>1. /\ n \in Nat /\ w \in [1..n -> W]
      /\ \A i, j \in 1..n : w[i] = w[j] => i = j
      /\ \A x \in W : \E i \in 1..n : w[i] = x
  BY Enumeration
<1>2. w \in Seq(T) /\ Len(w) = n
  <2>1. w \in [1..n -> T]
    BY <1>1
  <2> HIDE DEF w, n
  <2> QED
    BY <1>1, <2>1
<1>3. r = s \o w
  OBVIOUS
<1> HIDE DEF w, n
<1>4. /\ r \in Seq(T) /\ Len(r) = Len(s) + n
      /\ \A i \in 1..(Len(s) + n) : r[i] = IF i <= Len(s) THEN s[i] ELSE w[i - Len(s)]
  <2>1. /\ s \o w \in Seq(T) /\ Len(s \o w) = Len(s) + Len(w)
        /\ \A i \in 1..(Len(s) + Len(w)) :
               (s \o w)[i] = IF i <= Len(s) THEN s[i] ELSE w[i - Len(s)]
    BY <1>2, ConcatProperties, Zenon
  <2> QED
    BY <1>2, <1>3, <2>1, Zenon
<1>5. PICK m \in Nat : m = Len(s)
  OBVIOUS
<1>6. \A k \in 1..Len(r) : k > m => k - m \in 1..n /\ r[k] = w[k - m]
  BY <1>1, <1>4, <1>5
<1>7. \A k \in 1..Len(r) : k > m => r[k] \in W
  BY <1>1, <1>6
<1>8. \A k, l \in 1..Len(r) : k > m /\ l > m /\ r[k] = r[l] => k = l
  <2> SUFFICES ASSUME NEW k \in 1..Len(r), NEW l \in 1..Len(r), k > m, l > m, r[k] = r[l]
               PROVE  k = l
    OBVIOUS
  <2>1. k - m = l - m
    BY <1>1, <1>6
  <2> QED
    BY <1>4, <1>5, <1>1, <2>1
<1>9. \A x \in W : \E k \in 1..Len(r) : r[k] = x
  <2> SUFFICES ASSUME NEW x \in W PROVE \E k \in 1..Len(r) : r[k] = x
    OBVIOUS
  <2>1. PICK i \in 1..n : w[i] = x
    BY <1>1
  <2>2. i + m \in 1..Len(r) /\ i + m > m /\ (i + m) - m = i
    BY <1>1, <1>4, <1>5, <2>1
  <2> QED
    BY <1>6, <2>1, <2>2
<1>10. \A k \in 1..Len(s) : r[k] = s[k]
  BY <1>1, <1>4
<1>11. Len(r) >= Len(s)
  BY <1>1, <1>4, <1>5
<1> QED
  BY <1>4, <1>5, <1>7, <1>8, <1>9, <1>10, <1>11, Zenon DEF Extended, Covers

-----------------------------------------------------------------------------
(* What Emit does. *)

(* Rows are added for texts of W, each at most once, and for all of them
   unless an INSERT failed. *)
Emitted(p, W) ==
    /\ rows' \in [Task -> Seq(Seq(Piece))]
    /\ \A q \in Task : q # p => rows'[q] = rows[q]
    /\ Extended(rows'[p], rows[p], W)
    /\ p \notin broken' => Covers(rows'[p], W)
    /\ cursor' \in [Task -> {"none", "open", "aborted", "closed"}]
    /\ \A q \in Task : \/ cursor'[q] = cursor[q]
                       \/ cursor[q] = "open" /\ cursor'[q] = "aborted"
    /\ broken \subseteq broken' /\ broken' \subseteq Task

LEMMA EmitAdds ==
    ASSUME TypeOK, TextTypes, NEW p \in Task, NEW W, W \subseteq Seq(Piece), IsFiniteSet(W),
           Emit(p, W)
    PROVE  Emitted(p, W)
<1>1. PICK V \in SUBSET W :
          /\ rows' = [rows EXCEPT ![p] = @ \o SetToSeq(V)]
          /\ IF V = W THEN UNCHANGED <<cursor, broken>>
             ELSE /\ cursor' = [cursor EXCEPT ![p] = IF @ = "open" THEN "aborted" ELSE @]
                  /\ broken' = broken \cup {p}
  BY Zenon DEF Emit
<1> DEFINE r == rows[p] \o SetToSeq(V)
<1>2. IsFiniteSet(V) /\ V \subseteq Seq(Piece)
  BY <1>1, FS_Subset
<1>3. rows[p] \in Seq(Seq(Piece))
  BY DEF TextTypes
<1>4. r \in Seq(Seq(Piece)) /\ Extended(r, rows[p], V) /\ Covers(r, V)
  <2> DEFINE T == Seq(Piece)
  <2>1. IsFiniteSet(V) /\ V \subseteq T /\ rows[p] \in Seq(T)
    BY <1>2, <1>3
  <2>2. r = rows[p] \o SetToSeq(V)
    OBVIOUS
  <2>3. Seq(T) = Seq(Seq(Piece))
    OBVIOUS
  <2> HIDE DEF T, r
  <2>4. r \in Seq(T) /\ Extended(r, rows[p], V) /\ Covers(r, V)
    BY <2>1, <2>2, RowsAdded
  <2> QED
    BY <2>3, <2>4
<1> HIDE DEF r
<1>5. rows' = [rows EXCEPT ![p] = r]
  BY <1>1 DEF r
<1>6. rows'[p] = r /\ rows' \in [Task -> Seq(Seq(Piece))]
      /\ \A q \in Task : q # p => rows'[q] = rows[q]
  BY <1>4, <1>5 DEF TextTypes
<1>7. p \notin broken' => V = W
  BY <1>1
<1>8. /\ cursor' \in [Task -> {"none", "open", "aborted", "closed"}]
      /\ \A q \in Task : \/ cursor'[q] = cursor[q]
                         \/ cursor[q] = "open" /\ cursor'[q] = "aborted"
      /\ broken \subseteq broken' /\ broken' \subseteq Task
  BY <1>1 DEF TypeOK
<1>9. Extended(r, rows[p], W)
  BY <1>1, <1>4 DEF Extended
<1> QED
  BY <1>4, <1>6, <1>7, <1>8, <1>9, Zenon DEF Emitted

LEMMA NothingEmitted ==
    ASSUME TypeOK, TextTypes, NEW p \in Task, UNCHANGED <<cursor, rows, broken>>
    PROVE  Emitted(p, {})
<1>1. rows[p] \in Seq(Seq(Piece)) /\ Len(rows[p]) \in Nat
  BY DEF TextTypes
<1>2. Extended(rows[p], rows[p], {}) /\ Covers(rows[p], {})
  BY <1>1 DEF Extended, Covers
<1> QED
  BY <1>1, <1>2, Zenon DEF Emitted, TypeOK, TextTypes

-----------------------------------------------------------------------------
(* What Write does: the pieces it adds, the row it may write and what is in
   the buffer afterwards. *)

Fresh(q, t, i) == [of |-> q, by |-> t, at |-> count[q] + i]

LineSoFar(q, t) == Append(buf[q][t], Fresh(q, t, 1))

Wrote(q, t, n, W, b) ==
    /\ Emitted(q, W)
    /\ buf' = [buf EXCEPT ![q][t] = b]
    /\ count' = [count EXCEPT ![q] = @ + n]
    /\ count[q] + n <= Writes
    /\ \/ due' = due
       \/ /\ tls = q /\ ~flushed
          /\ due' = [due EXCEPT ![q] = @ \cup {Fresh(q, t, i) : i \in 1..n}]
    /\ UNCHANGED <<kind, task, phase, flushed, tls, handlers, given, closed>>
    /\ life' = [life EXCEPT ![q][t] = "alive"]

LEMMA WriteEffect ==
    ASSUME TypeOK, TextTypes, CaptureInv, NEW q \in Task, NEW t \in Thread, Write(q, t)
    PROVE  \/ Wrote(q, t, 1, {}, LineSoFar(q, t))
           \/ Wrote(q, t, 1, {LineSoFar(q, t)}, <<>>)
           \/ Wrote(q, t, 2, {LineSoFar(q, t)}, <<Fresh(q, t, 2)>>)
<1>1. given[q] = q
  BY DEF Write, CaptureInv
<1>2. count[q] \in Nat
  BY DEF TypeOK
<1>3. PICK n \in {1, 2}, newline \in BOOLEAN :
          /\ count[q] + n <= Writes
          /\ n = 2 => newline
          /\ count' = [count EXCEPT ![q] = @ + n]
          /\ due' = IF tls = q /\ ~flushed
                    THEN [due EXCEPT ![q] = @ \cup {Fresh(q, t, i) : i \in 1..n}] ELSE due
          /\ IF newline
             THEN /\ Emit(q, {LineSoFar(q, t)})
                  /\ buf' = [buf EXCEPT ![q][t] = IF n = 2 THEN <<Fresh(q, t, 2)>> ELSE <<>>]
             ELSE /\ buf' = [buf EXCEPT ![q][t] = LineSoFar(q, t)]
                  /\ UNCHANGED <<cursor, rows, broken>>
  BY <1>1 DEF Write, Key, Rest, Accumulate, Fresh, LineSoFar, TextTypes
<1>4. /\ UNCHANGED <<kind, task, phase, flushed, tls, handlers, given, closed>>
      /\ life' = [life EXCEPT ![q][t] = "alive"]
  BY DEF Write
<1>5. LineSoFar(q, t) \in Seq(Piece) /\ IsFiniteSet({LineSoFar(q, t)})
  <2>1. Fresh(q, t, 1) \in Piece
    BY <1>2, <1>3 DEF Fresh, Piece
  <2>2. buf[q][t] \in Seq(Piece)
    BY DEF TextTypes
  <2>3. LineSoFar(q, t) \in Seq(Piece)
    BY <2>1, <2>2, AppendProperties DEF LineSoFar
  <2> QED
    BY <2>3, FS_Singleton
<1>6. CASE ~newline
  <2>1. n = 1 /\ Emitted(q, {})
    BY <1>3, <1>6, NothingEmitted
  <2> QED
    BY <1>3, <1>4, <1>6, <2>1 DEF Wrote
<1>7. CASE newline
  <2>1. Emitted(q, {LineSoFar(q, t)})
    BY <1>3, <1>5, <1>7, EmitAdds
  <2>2. CASE n = 1
    BY <1>3, <1>4, <1>7, <2>1, <2>2 DEF Wrote
  <2>3. CASE n = 2
    BY <1>3, <1>4, <1>7, <2>1, <2>3 DEF Wrote
  <2> QED
    BY <2>2, <2>3
<1> QED
  BY <1>6, <1>7

-----------------------------------------------------------------------------
(* What Flush does: the buffers of the stream are empty, and their texts are
   rows unless an INSERT failed. *)

LEMMA LeftoversFinite ==
    ASSUME TextTypes, NEW p \in Task
    PROVE  IsFiniteSet(Leftovers(p)) /\ Leftovers(p) \subseteq Seq(Piece)
<1> DEFINE f == buf[p]
           S == {buf[p][t] : t \in Thread}
<1>1. f \in [Thread -> S] /\ S \subseteq Seq(Piece)
  BY DEF TextTypes
<1>2. f \in Surjection(Thread, S)
  BY <1>1 DEF Surjection
<1>3. IsFiniteSet(S)
  BY <1>2, ThreadAssumption, FS_Surjection
<1>4. Leftovers(p) \in SUBSET S
  BY DEF Leftovers
<1> QED
  BY <1>1, <1>3, <1>4, FS_Subset

Emptied(p) ==
    /\ Emitted(p, Leftovers(p))
    /\ buf' = [buf EXCEPT ![p] = [t \in Thread |-> <<>>]]
    /\ UNCHANGED <<kind, task, phase, tls, given, life, count, due>>

LEMMA FlushEffect ==
    ASSUME TypeOK, TextTypes, Flush
    PROVE  tls \in Task /\ Emptied(tls)
<1>1. tls \in Task /\ Emit(tls, Leftovers(tls))
  BY DEF Flush, TypeOK
<1>2. Emitted(tls, Leftovers(tls))
  BY <1>1, LeftoversFinite, EmitAdds
<1> QED
  BY <1>1, <1>2 DEF Flush, Emptied

-----------------------------------------------------------------------------
(* Types, and whose stream, cursor and handler there are. *)

Types == TypeOK /\ TextTypes /\ CaptureInv /\ StandaloneInv

LEMMA TypesInit == Init => Types
<1> SUFFICES ASSUME Init PROVE Types
  OBVIOUS
<1>1. TextTypes
  BY DEF Init, TextTypes
<1>2. TypeOK
  <2>1. /\ \A p \in Task, t \in Thread : buf[p][t] = <<>>
        /\ \A p \in Task : rows[p] = <<>> /\ due[p] = {}
    BY DEF Init
  <2>2. DOMAIN <<>> = {}
    OBVIOUS
  <2>3. task \in 0..Tasks /\ tls \in Task \cup {NoTask} /\ ~flushed
    BY DEF Init
  <2>4. /\ given \in [Task -> Task \cup {NoTask}]
        /\ cursor \in [Task -> {"none", "open", "aborted", "closed"}]
        /\ life \in [Task -> [Thread -> {"new", "alive", "over"}]]
        /\ count \in [Task -> 0..Writes]
    BY DEF Init
  <2>5. /\ \A p \in Task, t \in Thread : \A i \in DOMAIN buf[p][t] : buf[p][t][i] \in Piece
        /\ \A p \in Task : \A i \in DOMAIN rows[p] : rows[p][i] # <<>>
        /\ \A p \in Task : due[p] \subseteq Piece
    BY <2>1, <2>2, Zenon
  <2> QED
    BY <2>1, <2>2, <2>3, <2>4, <2>5 DEF Init, TypeOK
<1>3. CaptureInv /\ StandaloneInv
  BY DEF Init, CaptureInv, StandaloneInv, Task, NoTask
<1> QED
  BY <1>1, <1>2, <1>3 DEF Types

(* Rows that are not empty stay so. *)
LEMMA RowsNotEmpty ==
    ASSUME TypeOK, TextTypes, NEW p \in Task, NEW W, \A s \in W : s # <<>>, Emitted(p, W)
    PROVE  \A q \in Task : \A k \in 1..Len(rows'[q]) : rows'[q][k] # <<>>
<1>1. \A q \in Task : rows[q] \in Seq(Seq(Piece)) /\ rows'[q] \in Seq(Seq(Piece))
  BY DEF TextTypes, Emitted
<1>2. \A q \in Task : \A k \in 1..Len(rows[q]) : rows[q][k] # <<>>
  BY <1>1 DEF TypeOK
<1> SUFFICES ASSUME NEW q \in Task, NEW k \in 1..Len(rows'[q]) PROVE rows'[q][k] # <<>>
  OBVIOUS
<1>3. CASE q # p
  BY <1>2, <1>3 DEF Emitted
<1>4. CASE q = p
  <2>1. Len(rows[p]) \in Nat /\ Len(rows'[p]) \in Nat
    BY <1>1
  <2>2. k \in 1..Len(rows[p]) \/ k > Len(rows[p])
    BY <2>1, <1>4
  <2> QED
    BY <1>2, <1>4, <2>2 DEF Emitted, Extended
<1> QED
  BY <1>3, <1>4

(* A write or a flush keeps the texts typed. *)
LEMMA TextTypesKept ==
    ASSUME TypeOK, TextTypes, NEW p \in Task, NEW W, \A s \in W : s # <<>>, Emitted(p, W),
           buf' \in [Task -> [Thread -> Seq(Piece)]], due' \in [Task -> SUBSET Piece]
    PROVE  /\ TextTypes'
           /\ \A q \in Task, t \in Thread : \A i \in DOMAIN buf'[q][t] : buf'[q][t][i] \in Piece
           /\ \A q \in Task : \A i \in DOMAIN rows'[q] : rows'[q][i] # <<>>
           /\ \A q \in Task : due'[q] \subseteq Piece
<1>1. TextTypes'
  BY DEF TextTypes, Emitted
<1>2. \A q \in Task : rows'[q] \in Seq(Seq(Piece))
  BY DEF Emitted
<1>3. \A q \in Task : \A k \in 1..Len(rows'[q]) : rows'[q][k] # <<>>
  BY RowsNotEmpty
<1>4. \A q \in Task : DOMAIN rows'[q] = 1..Len(rows'[q])
  BY <1>2
<1>5. \A q \in Task, t \in Thread : buf'[q][t] \in Seq(Piece)
  OBVIOUS
<1> QED
  BY <1>1, <1>3, <1>4, <1>5

LEMMA TypesStart == Types /\ Start => Types'
<1> SUFFICES ASSUME Types, Start PROVE Types'
  OBVIOUS
<1> DEFINE p == task + 1
<1>1. /\ phase = "idle" /\ p \in Task /\ task' = p /\ phase' = "running"
      /\ handlers' = handlers \cup {p} \/ handlers' = handlers
      /\ \/ cursor' = [cursor EXCEPT ![p] = "open"] /\ tls' = p
         \/ cursor' = cursor /\ tls' = tls
      /\ given' = [given EXCEPT ![p] = p] \/ given' = [given EXCEPT ![p] = NoTask]
      /\ UNCHANGED <<kind, flushed, closed, life, buf, count, rows, due, broken>>
  BY Zenon DEF Start, Given
<1>2. task \in 0..Tasks /\ p = task + 1 /\ p # NoTask
  BY DEF Types, TypeOK, NoTask
<1> HIDE DEF p
<1>3. ~flushed
  BY <1>1 DEF Types, CaptureInv, Tearing
<1>4. TextTypes'
  BY <1>1 DEF Types, TextTypes
<1>5. TypeOK'
  <2>1. task' \in 0..Tasks
    BY <1>1 DEF Task
  <2>2. /\ cursor' \in [Task -> {"none", "open", "aborted", "closed"}]
        /\ given' \in [Task -> Task \cup {NoTask}]
        /\ handlers' \subseteq Task /\ tls' \in Task \cup {NoTask}
    BY <1>1 DEF Types, TypeOK
  <2> QED
    BY <1>1, <1>3, <2>1, <2>2 DEF Types, TypeOK
<1>6. CaptureInv'
  <2>1. tls' <= task' /\ ~flushed'
    BY <1>1, <1>2, <1>3 DEF Types, TypeOK, CaptureInv, Task, NoTask
  <2>2. tls' # NoTask => cursor'[tls'] \in {"open", "aborted"}
    BY <1>1, <1>2 DEF Types, TypeOK, CaptureInv
  <2>3. \A q \in Task : given'[q] \in {q, NoTask}
    BY <1>1 DEF Types, TypeOK, CaptureInv
  <2>4. \A q \in Task : q > task' => cursor'[q] = "none"
    BY <1>1, <1>2 DEF Types, TypeOK, CaptureInv, Task
  <2> QED
    BY <2>1, <2>2, <2>3, <2>4 DEF CaptureInv
<1>7. StandaloneInv'
  <2> SUFFICES ASSUME kind = "standalone" PROVE StandaloneInv'
    BY <1>1 DEF StandaloneInv
  <2>1. /\ tls = NoTask /\ handlers = {}
        /\ \A q \in Task : cursor[q] \notin {"open", "aborted"}
    BY <1>1 DEF Types, StandaloneInv, Task, NoTask
  <2>2. cursor[p] = "none"
    BY <1>1, <1>2 DEF Types, CaptureInv, Task
  <2> QED
    BY <1>1, <1>2, <1>3, <2>1, <2>2 DEF StandaloneInv, Types, TypeOK
<1> QED
  BY <1>4, <1>5, <1>6, <1>7 DEF Types

LEMMA TypesControl ==
    ASSUME Types, JobReturns \/ JobRaises \/ NoStream \/ CloseCursor \/ UNCHANGED vars \/
                  \E p \in Task, t \in Thread : EndThread(p, t)
    PROVE  Types'
<1>1. TextTypes'
  BY DEF Types, TextTypes, JobReturns, JobRaises, NoStream, CloseCursor, EndThread,
         threadVars, textVars, vars
<1>2. CASE JobReturns \/ JobRaises
  BY <1>1, <1>2 DEF Types, TypeOK, CaptureInv, StandaloneInv, JobReturns, JobRaises, Tearing,
                    threadVars, textVars
<1>3. CASE NoStream
  BY <1>1, <1>3 DEF Types, TypeOK, CaptureInv, StandaloneInv, NoStream, AfterTeardown, Tearing,
                    textVars, Console
<1>4. CASE CloseCursor
  <2>1. /\ tls \in Task /\ flushed /\ flushed' = FALSE /\ tls' = NoTask /\ Tearing
        /\ cursor' = [cursor EXCEPT ![tls] = "closed"] /\ phase' = AfterTeardown
        /\ UNCHANGED <<kind, task, handlers, given, life, count, closed, buf, rows, due, broken>>
    BY <1>4 DEF Types, TypeOK, CaptureInv, CloseCursor, TlsDropped, threadVars
  <2>2. TypeOK'
    BY <2>1 DEF Types, TypeOK, AfterTeardown, NoTask
  <2>3. CaptureInv'
    BY <2>1 DEF Types, TypeOK, CaptureInv, Task, NoTask
  <2>4. StandaloneInv'
    BY <2>1 DEF Types, TypeOK, StandaloneInv, AfterTeardown, NoTask
  <2> QED
    BY <1>1, <2>2, <2>3, <2>4 DEF Types
<1>5. CASE \E p \in Task, t \in Thread : EndThread(p, t)
  <2>1. /\ UNCHANGED <<kind, task, phase, flushed, tls, handlers, given, count, closed, cursor,
                       buf, rows, due, broken>>
        /\ life' \in [Task -> [Thread -> {"new", "alive", "over"}]]
    BY <1>5 DEF Types, TypeOK, EndThread, textVars
  <2> QED
    BY <1>1, <2>1 DEF Types, TypeOK, CaptureInv, StandaloneInv, Tearing
<1>6. CASE UNCHANGED vars
  BY <1>1, <1>6 DEF Types, TypeOK, CaptureInv, StandaloneInv, Tearing, vars
<1> QED
  BY <1>2, <1>3, <1>4, <1>5, <1>6

(* Writing text aborts cursors at most. *)
LEMMA TypesEmitted ==
    ASSUME Types, NEW p \in Task, NEW W, \A s \in W : s # <<>>, Emitted(p, W),
           buf' \in [Task -> [Thread -> Seq(Piece)]], due' \in [Task -> SUBSET Piece],
           life' \in [Task -> [Thread -> {"new", "alive", "over"}]],
           count' \in [Task -> 0..Writes],
           UNCHANGED <<kind, task, phase, tls, given>>,
           flushed' \in BOOLEAN, flushed' => Tearing /\ tls # NoTask,
           closed' \subseteq Task, handlers' \subseteq handlers,
           kind = "standalone" => (flushed' = flushed \/ handlers' = {})
    PROVE  Types'
<1>1. TypeOK /\ TextTypes
  BY DEF Types
<1>2. /\ cursor' \in [Task -> {"none", "open", "aborted", "closed"}]
      /\ \A q \in Task : \/ cursor'[q] = cursor[q]
                         \/ cursor[q] = "open" /\ cursor'[q] = "aborted"
      /\ broken' \subseteq Task
  BY Zenon DEF Emitted
<1>3. /\ TextTypes'
      /\ \A q \in Task, t \in Thread : \A i \in DOMAIN buf'[q][t] : buf'[q][t][i] \in Piece
      /\ \A q \in Task : \A i \in DOMAIN rows'[q] : rows'[q][i] # <<>>
      /\ \A q \in Task : due'[q] \subseteq Piece
  BY <1>1, TextTypesKept, Zenon
<1>4. TypeOK'
  BY <1>1, <1>2, <1>3 DEF TypeOK
<1>5. CaptureInv'
  BY <1>1, <1>2 DEF Types, CaptureInv, TypeOK, Tearing
<1>6. StandaloneInv'
  BY <1>1, <1>2 DEF Types, StandaloneInv, TypeOK
<1> QED
  BY <1>3, <1>4, <1>5, <1>6 DEF Types

LEMMA FreshPieces ==
    ASSUME TypeOK, NEW q \in Task, NEW t \in Thread, NEW n \in {1, 2}, count[q] + n <= Writes
    PROVE  \A i \in 1..n : Fresh(q, t, i) \in Piece
BY DEF TypeOK, Fresh, Piece

(* What is in the buffer after a write. *)
LEMMA WroteSeqs ==
    ASSUME TypeOK, TextTypes, NEW q \in Task, NEW t \in Thread, NEW n \in {1, 2},
           count[q] + n <= Writes
    PROVE  /\ LineSoFar(q, t) \in Seq(Piece) /\ LineSoFar(q, t) # <<>>
           /\ <<>> \in Seq(Piece)
           /\ n = 2 => <<Fresh(q, t, 2)>> \in Seq(Piece)
<1>1. buf[q][t] \in Seq(Piece) /\ Fresh(q, t, 1) \in Piece
  BY FreshPieces DEF TextTypes
<1>2. LineSoFar(q, t) \in Seq(Piece) /\ LineSoFar(q, t) # <<>>
  BY <1>1, AppendProperties DEF LineSoFar
<1>3. n = 2 => Fresh(q, t, 2) \in Piece
  BY FreshPieces
<1> QED
  BY <1>2, <1>3

LEMMA TypesWrote ==
    ASSUME Types, NEW q \in Task, NEW t \in Thread, NEW n \in {1, 2}, NEW W,
           NEW b \in Seq(Piece), \A s \in W : s # <<>>, Wrote(q, t, n, W, b)
    PROVE  Types'
<1>1. TypeOK /\ TextTypes
  BY DEF Types
<1>2. Emitted(q, W)
  BY DEF Wrote
<1>3. buf' \in [Task -> [Thread -> Seq(Piece)]]
  BY <1>1 DEF Wrote, TextTypes
<1>4. due' \in [Task -> SUBSET Piece]
  <2>1. {Fresh(q, t, i) : i \in 1..n} \subseteq Piece
    BY <1>1, FreshPieces DEF Wrote
  <2> QED
    BY <1>1, <2>1 DEF Wrote, TextTypes
<1>5. /\ life' \in [Task -> [Thread -> {"new", "alive", "over"}]]
      /\ count' \in [Task -> 0..Writes]
      /\ UNCHANGED <<kind, task, phase, flushed, tls, handlers, given, closed>>
  BY <1>1 DEF Wrote, TypeOK
<1>6. flushed \in BOOLEAN /\ (flushed => Tearing /\ tls # NoTask) /\ closed \subseteq Task
  BY DEF Types, TypeOK, CaptureInv
<1> QED
  BY <1>2, <1>3, <1>4, <1>5, <1>6, TypesEmitted

LEMMA TypesText ==
    ASSUME Types, Flush \/ \E q \in Task, t \in Thread : Write(q, t)
    PROVE  Types'
<1>1. TypeOK /\ TextTypes /\ CaptureInv
  BY DEF Types
<1>2. CASE Flush
  <2>1. tls \in Task /\ Emptied(tls)
    BY <1>1, <1>2, FlushEffect
  <2>2. \A s \in Leftovers(tls) : s # <<>>
    BY DEF Leftovers
  <2>3. /\ buf' \in [Task -> [Thread -> Seq(Piece)]] /\ due' \in [Task -> SUBSET Piece]
        /\ life' \in [Task -> [Thread -> {"new", "alive", "over"}]]
        /\ count' \in [Task -> 0..Writes]
        /\ UNCHANGED <<kind, task, phase, tls, given>>
        /\ Emitted(tls, Leftovers(tls))
    BY <1>1, <2>1 DEF Emptied, TextTypes, TypeOK
  <2>4. /\ flushed' \in BOOLEAN /\ (flushed' => Tearing /\ tls # NoTask)
        /\ closed' \subseteq Task /\ handlers' \subseteq handlers
    BY <1>1, <1>2, <2>1 DEF Flush, TypeOK
  <2>5. kind = "standalone" => handlers' = {}
    BY <1>2 DEF Flush, Types, StandaloneInv, Tearing
  <2> QED
    BY <2>1, <2>2, <2>3, <2>4, <2>5, TypesEmitted
<1>3. CASE \E q \in Task, t \in Thread : Write(q, t)
  <2>1. PICK q \in Task, t \in Thread : Write(q, t)
    BY <1>3
  <2>2. \/ Wrote(q, t, 1, {}, LineSoFar(q, t))
        \/ Wrote(q, t, 1, {LineSoFar(q, t)}, <<>>)
        \/ Wrote(q, t, 2, {LineSoFar(q, t)}, <<Fresh(q, t, 2)>>)
    BY <1>1, <2>1, WriteEffect
  <2>3. CASE Wrote(q, t, 1, {}, LineSoFar(q, t))
    <3>1. LineSoFar(q, t) \in Seq(Piece)
      BY <1>1, <2>3, WroteSeqs DEF Wrote
    <3> QED
      BY <2>3, <3>1, TypesWrote
  <2>4. CASE Wrote(q, t, 1, {LineSoFar(q, t)}, <<>>)
    <3>1. LineSoFar(q, t) # <<>> /\ <<>> \in Seq(Piece)
      BY <1>1, <2>4, WroteSeqs DEF Wrote
    <3> DEFINE W == {LineSoFar(q, t)}
               b == <<>>
    <3>2. b \in Seq(Piece) /\ (\A s \in W : s # <<>>) /\ Wrote(q, t, 1, W, b)
      BY <2>4, <3>1
    <3> HIDE DEF W, b
    <3> QED
      BY <3>2, TypesWrote
  <2>5. CASE Wrote(q, t, 2, {LineSoFar(q, t)}, <<Fresh(q, t, 2)>>)
    <3>1. LineSoFar(q, t) # <<>> /\ <<Fresh(q, t, 2)>> \in Seq(Piece)
      BY <1>1, <2>5, WroteSeqs DEF Wrote
    <3> DEFINE W == {LineSoFar(q, t)}
               b == <<Fresh(q, t, 2)>>
    <3>2. b \in Seq(Piece) /\ (\A s \in W : s # <<>>) /\ Wrote(q, t, 2, W, b)
      BY <2>5, <3>1
    <3> HIDE DEF W, b
    <3> QED
      BY <3>2, TypesWrote
  <2> QED
    BY <2>2, <2>3, <2>4, <2>5
<1> QED
  BY <1>2, <1>3

LEMMA TypesStep == Types /\ [Next]_vars => Types'
BY TypesStart, TypesControl, TypesText DEF Next

(* Everything kept stays well typed, rows are never empty, and a stream is
   flushed only while it is torn down. *)
THEOREM TypeCorrect == Spec => []TypeOK
<1>1. Types => TypeOK
  BY DEF Types
<1> QED
  BY <1>1, TypesInit, TypesStep, PTL DEF Spec

(* A standalone worker that is idle has no stream, open cursor or log handler
   on its thread, after any job, and any failing INSERT. *)
THEOREM LeavesNothing == Spec => []NothingLeft
<1>1. Types => NothingLeft
  BY DEF Types, StandaloneInv, NothingLeft, TypeOK, Task, NoTask
<1> QED
  BY <1>1, TypesInit, TypesStep, PTL DEF Spec

-----------------------------------------------------------------------------
(* Lines. *)

LEMMA PieceTypes == \A x \in Piece : x.of \in Task /\ x.by \in Thread /\ x.at \in Nat
BY DEF Piece

LEMMA LineKept ==
    ASSUME NEW s \in Seq(Piece), NEW p, NEW t, NEW m \in Nat, NEW n \in Nat, m <= n,
           Line(s, p, t, m)
    PROVE  Line(s, p, t, n)
<1>1. \A i \in 1..Len(s) : s[i].at \in Nat /\ s[i].at <= m
  BY PieceTypes DEF Line
<1>2. \A i \in 1..Len(s) : s[i].at <= n
  BY <1>1
<1> QED
  BY <1>2 DEF Line

(* Pieces written later do not fall into a line. *)
LEMMA WholeKept ==
    ASSUME NEW s \in Seq(Piece), s # <<>>, NEW p, NEW t, NEW m \in Nat, Line(s, p, t, m),
           NEW D, Whole(s, D), NEW D2, D2 \subseteq Piece, \A a \in D2 : a \in D \/ a.at > m
    PROVE  Whole(s, D2)
<1>1. Len(s) \in 1..Len(s)
  OBVIOUS
<1>2. s[Len(s)].at <= m /\ s[Len(s)].at \in Nat
  BY <1>1, PieceTypes DEF Line
<1>3. \A a \in D2 : a.at < s[Len(s)].at => a \in D
  BY <1>2, PieceTypes
<1> QED
  BY <1>3 DEF Whole

(* x is the piece that t writes after the first m pieces, s those before it. *)
Follows(s, x, p, t, m) ==
    /\ s \in Seq(Piece) /\ x \in Piece /\ m \in Nat
    /\ Line(s, p, t, m)
    /\ x.of = p /\ x.by = t /\ x.at = m + 1

Longer(r, s, x, p, t, m) ==
    /\ r \in Seq(Piece) /\ Line(r, p, t, m + 1)
    /\ PiecesOf(r) = PiecesOf(s) \cup {x}
    /\ r[1] = (IF s = <<>> THEN x ELSE s[1]) /\ r[Len(r)] = x /\ r # <<>>

LEMMA AppendLine ==
    ASSUME NEW s, NEW x, NEW p, NEW t, NEW m, Follows(s, x, p, t, m), NEW r, r = Append(s, x)
    PROVE  Longer(r, s, x, p, t, m)
<1>1. /\ s \in Seq(Piece) /\ x \in Piece /\ m \in Nat /\ Line(s, p, t, m)
      /\ x.of = p /\ x.by = t /\ x.at = m + 1
  BY DEF Follows
<1>2. PICK k \in Nat : k = Len(s)
  BY <1>1
<1>3. /\ r \in Seq(Piece) /\ r # <<>> /\ Len(r) = k + 1
      /\ \A i \in 1..k : r[i] = s[i]
      /\ r[k + 1] = x
  BY <1>1, <1>2, AppendProperties
<1>4. /\ \A i \in 1..k : s[i].of = p /\ s[i].by = t /\ s[i].at <= m /\ s[i].at \in Nat
      /\ \A i, j \in 1..k : i < j => s[i].at < s[j].at
  BY <1>1, <1>2, PieceTypes DEF Line
<1>5. \A i \in 1..(k + 1) : i \in 1..k \/ i = k + 1
  BY <1>1, <1>2
<1>6. \A i \in 1..(k + 1) : r[i].of = p /\ r[i].by = t /\ r[i].at <= m + 1
  BY <1>1, <1>2, <1>3, <1>4, <1>5
<1>7. \A i, j \in 1..(k + 1) : i < j => r[i].at < r[j].at
  <2> SUFFICES ASSUME NEW i \in 1..(k + 1), NEW j \in 1..(k + 1), i < j
               PROVE  r[i].at < r[j].at
    OBVIOUS
  <2>1. i \in 1..k
    BY <1>2
  <2>2. CASE j = k + 1
    BY <1>1, <1>2, <1>3, <1>4, <2>1, <2>2
  <2>3. CASE j \in 1..k
    BY <1>1, <1>2, <1>3, <1>4, <2>1, <2>3
  <2> QED
    BY <1>5, <2>2, <2>3
<1>8. PiecesOf(r) = PiecesOf(s) \cup {x}
  <2>1. DOMAIN r = 1..(k + 1) /\ DOMAIN s = 1..k
    BY <1>1, <1>2, <1>3
  <2>2. ASSUME NEW a PROVE a \in PiecesOf(r) <=> a \in PiecesOf(s) \cup {x}
    BY <1>3, <1>5, <2>1 DEF PiecesOf
  <2> QED
    BY <2>2
<1>9. r[1] = IF s = <<>> THEN x ELSE s[1]
  <2>1. s = <<>> => k = 0
    BY <1>1, <1>2
  <2>2. s # <<>> => 1 \in 1..k
    BY <1>1, <1>2
  <2> QED
    BY <1>3, <2>1, <2>2
<1> QED
  BY <1>2, <1>3, <1>6, <1>7, <1>8, <1>9 DEF Line, Longer

(* A line taken from its buffer misses nothing up to its last piece ... *)
LEMMA AppendWhole ==
    ASSUME NEW s, NEW x, NEW p, NEW t, NEW m, Follows(s, x, p, t, m), NEW D, Complete(s, D, t),
           NEW D2, D2 \subseteq Piece, \A a \in D2 : a \in D \/ a.at > m
    PROVE  Whole(Append(s, x), D2)
<1> DEFINE r == Append(s, x)
<1>1. r = Append(s, x)
  OBVIOUS
<1> HIDE DEF r
<1>2. /\ PiecesOf(r) = PiecesOf(s) \cup {x}
      /\ r[1] = (IF s = <<>> THEN x ELSE s[1]) /\ r[Len(r)] = x /\ r # <<>>
      /\ r \in Seq(Piece) /\ Line(r, p, t, m + 1)
  <2>1. Longer(r, s, x, p, t, m)
    BY <1>1, AppendLine
  <2> QED
    BY <2>1 DEF Longer
<1>3. x \in Piece /\ m \in Nat /\ x.at = m + 1
  BY DEF Follows
<1>4. r[1].by = t
  <2>1. 1 \in 1..Len(r)
    BY <1>2
  <2> QED
    BY <1>2, <2>1 DEF Line
<1>5. SUFFICES ASSUME NEW a \in D2, a.by = t, r[1].at < a.at, a.at < m + 1
               PROVE  a \in PiecesOf(r)
  BY <1>2, <1>4, <1>3 DEF Whole, r
<1>6. a \in D
  BY PieceTypes, <1>5, <1>3
<1>7. s # <<>>
  BY <1>2, <1>5, <1>3, PieceTypes
<1> QED
  BY <1>2, <1>5, <1>6, <1>7 DEF Complete

(* ... and the buffer it stays in is as complete as before. *)
LEMMA AppendComplete ==
    ASSUME NEW s, NEW x, NEW p, NEW t, NEW m, Follows(s, x, p, t, m), NEW D, Complete(s, D, t),
           D \subseteq Piece, \A a \in D : a.at <= m,
           NEW D2, D2 \subseteq D \cup {x}, NEW r, r = Append(s, x)
    PROVE  Complete(r, D2, t)
<1>1. /\ PiecesOf(r) = PiecesOf(s) \cup {x}
      /\ r[1] = (IF s = <<>> THEN x ELSE s[1])
  <2>1. Longer(r, s, x, p, t, m)
    BY AppendLine
  <2> QED
    BY <2>1 DEF Longer
<1>2. x \in Piece /\ m \in Nat /\ x.at = m + 1
  BY DEF Follows
<1>3. SUFFICES ASSUME NEW a \in D2, a.by = t, r[1].at < a.at PROVE a \in PiecesOf(r)
  BY DEF Complete
<1>4. CASE a = x
  BY <1>1, <1>4
<1>5. CASE a \in D
  <2>1. s # <<>>
    BY <1>1, <1>3, <1>5, <1>2, PieceTypes
  <2> QED
    BY <1>1, <1>3, <1>5, <2>1 DEF Complete
<1> QED
  BY <1>4, <1>5

-----------------------------------------------------------------------------
(* The rows. *)

(* Whatever is in a row or a buffer was written before. *)
LEMMA OldPieces ==
    ASSUME Types, TextInv, NEW p \in Task
    PROVE  /\ \A k \in 1..Len(rows[p]) : \A a \in PiecesOf(rows[p][k]) :
                  a \in Piece /\ a.at <= count[p]
           /\ \A t \in Thread : \A a \in PiecesOf(buf[p][t]) :
                  a \in Piece /\ a.at <= count[p] /\ a.by = t
<1>1. rows[p] \in Seq(Seq(Piece)) /\ buf[p] \in [Thread -> Seq(Piece)]
  BY DEF Types, TextTypes
<1>2. ASSUME NEW k \in 1..Len(rows[p]), NEW a \in PiecesOf(rows[p][k])
      PROVE  a \in Piece /\ a.at <= count[p]
  <2>1. rows[p][k] \in Seq(Piece)
    BY <1>1
  <2>2. PICK t \in Thread : Line(rows[p][k], p, t, count[p])
    BY DEF TextInv, RowInv
  <2>3. PICK j \in 1..Len(rows[p][k]) : a = rows[p][k][j]
    BY <1>2, <2>1 DEF PiecesOf
  <2> QED
    BY <2>1, <2>2, <2>3 DEF Line
<1>3. ASSUME NEW t \in Thread, NEW a \in PiecesOf(buf[p][t])
      PROVE  a \in Piece /\ a.at <= count[p] /\ a.by = t
  <2>1. buf[p][t] \in Seq(Piece)
    BY <1>1
  <2>2. Line(buf[p][t], p, t, count[p])
    BY DEF TextInv, BufferInv
  <2>3. PICK j \in 1..Len(buf[p][t]) : a = buf[p][t][j]
    BY <1>3, <2>1 DEF PiecesOf
  <2> QED
    BY <2>1, <2>2, <2>3 DEF Line
<1> QED
  BY <1>2, <1>3

Disjoint(s, r) == PiecesOf(s) \cap PiecesOf(r) = {}

(* The texts of W may become rows of p. *)
Writable(p, W) ==
    /\ W \subseteq Seq(Piece)
    /\ \A s \in W :
           /\ s # <<>>
           /\ \E t \in Thread : Line(s, p, t, count'[p])
           /\ Whole(s, due'[p])
           /\ \A r \in W : s # r => Disjoint(s, r)
           /\ \A k \in 1..Len(rows[p]) : Disjoint(rows[p][k], s)
           /\ \A t \in Thread : Disjoint(s, buf'[p][t])
    /\ \A k \in 1..Len(rows[p]), t \in Thread : Disjoint(rows[p][k], buf'[p][t])

(* The other jobs are left alone, and what p is owed besides is new. *)
OnlyOf(p) ==
    /\ \A q \in Task : q # p => count'[q] = count[q] /\ due'[q] = due[q] /\ buf'[q] = buf[q]
    /\ count[p] \in Nat /\ count'[p] \in Nat /\ count[p] <= count'[p]
    /\ due'[p] \subseteq Piece
    /\ \A a \in due'[p] : a \in due[p] \/ a.at > count[p]

LEMMA RowStep ==
    ASSUME Types, TextInv, NEW p \in Task, NEW W, Emitted(p, W), Writable(p, W), OnlyOf(p)
    PROVE  RowInv'
<1> SUFFICES ASSUME NEW q \in Task, NEW k \in 1..Len(rows'[q])
             PROVE  /\ rows'[q][k] # <<>>
                    /\ \E t \in Thread : Line(rows'[q][k], q, t, count'[q])
                    /\ Whole(rows'[q][k], due'[q])
  BY DEF RowInv
<1>1. rows[q] \in Seq(Seq(Piece)) /\ rows'[q] \in Seq(Seq(Piece))
  BY DEF Types, TextTypes, Emitted
<1>2. CASE q # p
  <2>1. rows'[q] = rows[q] /\ count'[q] = count[q] /\ due'[q] = due[q]
    BY <1>2, Zenon DEF Emitted, OnlyOf
  <2> QED
    BY <2>1 DEF TextInv, RowInv
<1>3. CASE q = p /\ k \in 1..Len(rows[p])
  <2>1. rows'[q][k] = rows[p][k] /\ rows[p][k] \in Seq(Piece)
    BY <1>1, <1>3 DEF Emitted, Extended
  <2>2. rows[p][k] # <<>> /\ Whole(rows[p][k], due[p])
    BY <1>3 DEF TextInv, RowInv
  <2>3. PICK t \in Thread : Line(rows[p][k], p, t, count[p])
    BY <1>3 DEF TextInv, RowInv
  <2>4. Line(rows[p][k], p, t, count'[p])
    BY <2>1, <2>3, LineKept DEF OnlyOf
  <2>5. Whole(rows[p][k], due'[p])
    BY <2>1, <2>2, <2>3, WholeKept DEF OnlyOf
  <2> QED
    BY <1>3, <2>1, <2>2, <2>4, <2>5
<1>4. CASE q = p /\ k \notin 1..Len(rows[p])
  <2>1. Len(rows[p]) \in Nat /\ k \in Nat /\ k > Len(rows[p])
    BY <1>1, <1>4
  <2>2. rows'[p][k] \in W
    BY <1>4, <2>1 DEF Emitted, Extended
  <2> QED
    BY <1>4, <2>2 DEF Writable
<1> QED
  BY <1>2, <1>3, <1>4

LEMMA OnceStep ==
    ASSUME Types, TextInv, NEW p \in Task, NEW W, Emitted(p, W), Writable(p, W), OnlyOf(p)
    PROVE  OnceInv'
<1> SUFFICES ASSUME NEW q \in Task, NEW k \in 1..Len(rows'[q])
             PROVE  /\ \A l \in 1..Len(rows'[q]) : k # l => Disjoint(rows'[q][k], rows'[q][l])
                    /\ \A t \in Thread : Disjoint(rows'[q][k], buf'[q][t])
  BY DEF OnceInv, Disjoint
<1>1. CASE q # p
  <2>1. rows'[q] = rows[q] /\ buf'[q] = buf[q]
    BY <1>1, Zenon DEF Emitted, OnlyOf
  <2> QED
    BY <2>1 DEF TextInv, OnceInv, Disjoint
<1>2. CASE q = p
  <2>1. rows[p] \in Seq(Seq(Piece)) /\ rows'[p] \in Seq(Seq(Piece))
    BY DEF Types, TextTypes, Emitted
  <2>2. \A i \in 1..Len(rows'[p]) :
            \/ i \in 1..Len(rows[p]) /\ rows'[p][i] = rows[p][i]
            \/ i > Len(rows[p]) /\ rows'[p][i] \in W
    <3>1. Len(rows[p]) \in Nat /\ Len(rows'[p]) \in Nat
      BY <2>1
    <3>2. \A i \in 1..Len(rows'[p]) : i \in 1..Len(rows[p]) \/ i > Len(rows[p])
      BY <3>1
    <3> QED
      BY <3>2 DEF Emitted, Extended
  <2>3. \A i, j \in 1..Len(rows[p]) : i # j => Disjoint(rows[p][i], rows[p][j])
    BY DEF TextInv, OnceInv, Disjoint
  <2>4. /\ \A s, r \in W : s # r => Disjoint(s, r)
        /\ \A s \in W, t \in Thread : Disjoint(s, buf'[p][t])
        /\ \A i \in 1..Len(rows[p]), t \in Thread : Disjoint(rows[p][i], buf'[p][t])
    BY Zenon DEF Writable
  <2>5. \A s \in W, i \in 1..Len(rows[p]) : Disjoint(rows[p][i], s) /\ Disjoint(s, rows[p][i])
    <3>1. \A s \in W, i \in 1..Len(rows[p]) : Disjoint(rows[p][i], s)
      BY Zenon DEF Writable
    <3> QED
      BY <3>1 DEF Disjoint
  <2>6. \A i, j \in 1..Len(rows'[p]) :
            i > Len(rows[p]) /\ j > Len(rows[p]) /\ i # j => rows'[p][i] # rows'[p][j]
    BY DEF Emitted, Extended
  <2>7. \A l \in 1..Len(rows'[p]) : k # l => Disjoint(rows'[p][k], rows'[p][l])
    <3> SUFFICES ASSUME NEW l \in 1..Len(rows'[p]), k # l
                 PROVE  Disjoint(rows'[p][k], rows'[p][l])
      BY <1>2
    <3>1. CASE k \in 1..Len(rows[p]) /\ rows'[p][k] = rows[p][k]
      <4>1. CASE l \in 1..Len(rows[p]) /\ rows'[p][l] = rows[p][l]
        BY <2>3, <3>1, <4>1
      <4>2. CASE rows'[p][l] \in W
        BY <2>5, <3>1, <4>2
      <4> QED
        BY <2>2, <4>1, <4>2
    <3>2. CASE k > Len(rows[p]) /\ rows'[p][k] \in W
      <4>1. CASE l \in 1..Len(rows[p]) /\ rows'[p][l] = rows[p][l]
        BY <2>5, <3>2, <4>1
      <4>2. CASE l > Len(rows[p]) /\ rows'[p][l] \in W
        <5>1. rows'[p][k] # rows'[p][l]
          BY <1>2, <2>6, <3>2, <4>2
        <5> QED
          BY <2>4, <3>2, <4>2, <5>1
      <4> QED
        BY <2>2, <4>1, <4>2
    <3> QED
      BY <1>2, <2>2, <3>1, <3>2
  <2>8. \A t \in Thread : Disjoint(rows'[p][k], buf'[p][t])
    <3>1. CASE k \in 1..Len(rows[p]) /\ rows'[p][k] = rows[p][k]
      BY <2>4, <3>1
    <3>2. CASE rows'[p][k] \in W
      BY <2>4, <3>2
    <3> QED
      BY <1>2, <2>2, <3>1, <3>2
  <2> QED
    BY <1>2, <2>7, <2>8
<1> QED
  BY <1>1, <1>2

LEMMA WrittenGrows ==
    ASSUME Types, NEW p \in Task, NEW W, Emitted(p, W)
    PROVE  /\ \A q \in Task : Written(q) \subseteq Written(q)'
           /\ p \notin broken' => \A s \in W : PiecesOf(s) \subseteq Written(p)'
<1>1. \A q \in Task : rows[q] \in Seq(Seq(Piece)) /\ rows'[q] \in Seq(Seq(Piece))
  BY DEF Types, TextTypes, Emitted
<1>2. ASSUME NEW q \in Task PROVE Written(q) \subseteq Written(q)'
  <2>1. CASE q # p
    BY <2>1, Zenon DEF Emitted, Written
  <2>2. CASE q = p
    <3>1. \A k \in 1..Len(rows[p]) : k \in 1..Len(rows'[p]) /\ rows'[p][k] = rows[p][k]
      <4>1. Len(rows[p]) \in Nat /\ Len(rows'[p]) \in Nat /\ Len(rows'[p]) >= Len(rows[p])
        BY <1>1 DEF Emitted, Extended
      <4>2. \A k \in 1..Len(rows[p]) : k \in 1..Len(rows'[p])
        BY <4>1
      <4> QED
        BY <4>2, Zenon DEF Emitted, Extended
    <3> QED
      BY <2>2, <3>1 DEF Written
  <2> QED
    BY <2>1, <2>2
<1>3. ASSUME p \notin broken', NEW s \in W PROVE PiecesOf(s) \subseteq Written(p)'
  <2>1. PICK k \in 1..Len(rows'[p]) : rows'[p][k] = s
    BY <1>3 DEF Emitted, Covers
  <2> QED
    BY <2>1 DEF Written
<1> QED
  BY <1>2, <1>3

-----------------------------------------------------------------------------
(* A write. *)

(* The three ways of WriteEffect. *)
WriteCase(q, t, n, W, b) ==
    \/ n = 1 /\ W = {} /\ b = LineSoFar(q, t)
    \/ n = 1 /\ W = {LineSoFar(q, t)} /\ b = <<>>
    \/ n = 2 /\ W = {LineSoFar(q, t)} /\ b = <<Fresh(q, t, 2)>>

LEMMA FreshFollows ==
    ASSUME Types, TextInv, NEW q \in Task, NEW t \in Thread, count[q] + 1 <= Writes
    PROVE  /\ Follows(buf[q][t], Fresh(q, t, 1), q, t, count[q])
           /\ Complete(buf[q][t], due[q], t)
           /\ Longer(LineSoFar(q, t), buf[q][t], Fresh(q, t, 1), q, t, count[q])
<1>1. buf[q][t] \in Seq(Piece) /\ count[q] \in Nat
  BY DEF Types, TypeOK, TextTypes
<1>2. Fresh(q, t, 1) \in Piece
  BY FreshPieces DEF Types
<1>3. Line(buf[q][t], q, t, count[q]) /\ Complete(buf[q][t], due[q], t)
  BY DEF TextInv, BufferInv
<1>4. Follows(buf[q][t], Fresh(q, t, 1), q, t, count[q])
  BY <1>1, <1>2, <1>3 DEF Follows, Fresh
<1>5. Longer(LineSoFar(q, t), buf[q][t], Fresh(q, t, 1), q, t, count[q])
  BY <1>4, AppendLine DEF LineSoFar
<1> QED
  BY <1>3, <1>4, <1>5

LEMMA WroteFacts ==
    ASSUME Types, TextInv, NEW q \in Task, NEW t \in Thread, NEW n \in {1, 2}, NEW W, NEW b,
           Wrote(q, t, n, W, b), WriteCase(q, t, n, W, b)
    PROVE  /\ buf'[q][t] = b /\ \A u \in Thread : u # t => buf'[q][u] = buf[q][u]
           /\ count[q] \in Nat /\ count'[q] = count[q] + n /\ count[q] + 1 <= Writes
           /\ \A a \in due'[q] :
                  \/ a \in due[q]
                  \/ /\ tls = q /\ ~flushed
                     /\ a = Fresh(q, t, 1) \/ (n = 2 /\ a = Fresh(q, t, 2))
           /\ OnlyOf(q)
<1>1. /\ count[q] \in Nat /\ count \in [Task -> Nat]
      /\ buf \in [Task -> [Thread -> Seq(Piece)]] /\ due \in [Task -> SUBSET Piece]
  BY DEF Types, TypeOK, TextTypes
<1>2. /\ buf' = [buf EXCEPT ![q][t] = b]
      /\ count' = [count EXCEPT ![q] = @ + n] /\ count[q] + n <= Writes
      /\ \/ due' = due
         \/ /\ tls = q /\ ~flushed
            /\ due' = [due EXCEPT ![q] = @ \cup {Fresh(q, t, i) : i \in 1..n}]
  BY DEF Wrote
<1>3. \A a \in due'[q] :
          \/ a \in due[q]
          \/ /\ tls = q /\ ~flushed
             /\ a = Fresh(q, t, 1) \/ (n = 2 /\ a = Fresh(q, t, 2))
  <2>1. \A i \in 1..n : i = 1 \/ (n = 2 /\ i = 2)
    OBVIOUS
  <2>2. CASE due' = due
    BY <2>2
  <2>3. CASE /\ tls = q /\ ~flushed
             /\ due' = [due EXCEPT ![q] = @ \cup {Fresh(q, t, i) : i \in 1..n}]
    <3>1. due'[q] = due[q] \cup {Fresh(q, t, i) : i \in 1..n}
      BY <1>1, <2>3
    <3>2. ASSUME NEW a \in due'[q], a \notin due[q]
          PROVE  a = Fresh(q, t, 1) \/ (n = 2 /\ a = Fresh(q, t, 2))
      <4>1. PICK i \in 1..n : a = Fresh(q, t, i)
        BY <3>1, <3>2
      <4> QED
        BY <2>1, <4>1, Zenon
    <3> QED
      BY <2>3, <3>2
  <2> QED
    BY <1>2, <2>2, <2>3
<1>4. \A a \in due'[q] : a \in Piece /\ (a \in due[q] \/ a.at > count[q])
  <2>1. Fresh(q, t, 1) \in Piece /\ (n = 2 => Fresh(q, t, 2) \in Piece)
    BY <1>2, FreshPieces DEF Types
  <2>2. Fresh(q, t, 1).at > count[q] /\ Fresh(q, t, 2).at > count[q]
    BY <1>1 DEF Fresh
  <2> QED
    BY <1>1, <1>3, <2>1, <2>2
<1>5. OnlyOf(q)
  <2>1. \A p \in Task : p # q => count'[p] = count[p] /\ due'[p] = due[p] /\ buf'[p] = buf[p]
    BY <1>1, <1>2
  <2>2. count'[q] = count[q] + n
    BY <1>1, <1>2
  <2> QED
    BY <1>1, <1>4, <2>1, <2>2 DEF OnlyOf
<1> QED
  BY <1>1, <1>2, <1>3, <1>5

(* The pieces written are in no row and no buffer. *)
LEMMA WroteWritable ==
    ASSUME Types, TextInv, NEW q \in Task, NEW t \in Thread, NEW n \in {1, 2}, NEW W, NEW b,
           Wrote(q, t, n, W, b), WriteCase(q, t, n, W, b)
    PROVE  Writable(q, W)
<1> DEFINE x == Fresh(q, t, 1)
           y == Fresh(q, t, 2)
           l == LineSoFar(q, t)
           m == count[q]
<1>1. /\ buf'[q][t] = b /\ \A u \in Thread : u # t => buf'[q][u] = buf[q][u]
      /\ m \in Nat /\ count'[q] = m + n /\ m + 1 <= Writes
      /\ due'[q] \subseteq Piece /\ \A a \in due'[q] : a \in due[q] \/ a.at > m
  BY WroteFacts DEF OnlyOf
<1>2. /\ Follows(buf[q][t], x, q, t, m) /\ Complete(buf[q][t], due[q], t)
      /\ l \in Seq(Piece) /\ Line(l, q, t, m + 1) /\ l # <<>>
      /\ PiecesOf(l) = PiecesOf(buf[q][t]) \cup {x}
  BY <1>1, FreshFollows DEF Longer
<1>3. Whole(l, due'[q])
  BY <1>1, <1>2, AppendWhole DEF LineSoFar
<1>4. x.at = m + 1 /\ y.at = m + 2
  BY DEF Fresh
<1>5. /\ \A k \in 1..Len(rows[q]) : \A a \in PiecesOf(rows[q][k]) : a.at \in Nat /\ a.at <= m
      /\ \A u \in Thread : \A a \in PiecesOf(buf[q][u]) : a.at \in Nat /\ a.at <= m /\ a.by = u
  BY OldPieces, PieceTypes
<1>6. \A k \in 1..Len(rows[q]), u \in Thread : Disjoint(rows[q][k], buf[q][u])
  BY DEF TextInv, OnceInv, Disjoint
<1>7. /\ \A k \in 1..Len(rows[q]) : x \notin PiecesOf(rows[q][k]) /\ y \notin PiecesOf(rows[q][k])
      /\ \A u \in Thread : x \notin PiecesOf(buf[q][u]) /\ y \notin PiecesOf(buf[q][u])
  BY <1>1, <1>4, <1>5
<1>8. \A k \in 1..Len(rows[q]) : Disjoint(rows[q][k], l)
  BY <1>2, <1>6, <1>7 DEF Disjoint
<1>9. PiecesOf(<<>>) = {} /\ PiecesOf(<<y>>) = {y}
  BY DEF PiecesOf
<1>10. x # y
  BY <1>1, <1>4
<1> HIDE DEF x, y, l, m
<1>11. \A k \in 1..Len(rows[q]), u \in Thread : Disjoint(rows[q][k], buf'[q][u])
  <2> SUFFICES ASSUME NEW k \in 1..Len(rows[q]), NEW u \in Thread
               PROVE  Disjoint(rows[q][k], buf'[q][u])
    OBVIOUS
  <2>1. CASE u # t
    BY <1>1, <1>6, <2>1
  <2>2. CASE u = t
    <3>1. b = l \/ b = <<>> \/ b = <<y>>
      BY DEF WriteCase, l, y
    <3>2. Disjoint(rows[q][k], b)
      BY <1>7, <1>8, <1>9, <3>1 DEF Disjoint
    <3> QED
      BY <1>1, <2>2, <3>2
  <2> QED
    BY <2>1, <2>2
<1>12. ASSUME W = {l}
       PROVE  \A u \in Thread : Disjoint(l, buf'[q][u])
  <2> SUFFICES ASSUME NEW u \in Thread PROVE Disjoint(l, buf'[q][u])
    OBVIOUS
  <2>1. CASE u # t
    <3>1. \A a \in PiecesOf(buf[q][u]) : a \notin PiecesOf(buf[q][t]) /\ a # x
      BY <1>5, <1>7, <2>1
    <3> QED
      BY <1>1, <1>2, <2>1, <3>1 DEF Disjoint
  <2>2. CASE u = t
    <3>1. b = <<>> \/ b = <<y>>
      BY <1>12 DEF WriteCase, l, y
    <3>2. Disjoint(l, b)
      BY <1>2, <1>7, <1>9, <1>10, <3>1 DEF Disjoint
    <3> QED
      BY <1>1, <2>2, <3>2
  <2> QED
    BY <2>1, <2>2
<1>13. Line(l, q, t, count'[q])
  BY <1>1, <1>2, LineKept
<1>14. W = {} \/ W = {l}
  BY DEF WriteCase, l
<1> QED
  BY <1>2, <1>3, <1>8, <1>11, <1>12, <1>13, <1>14 DEF Writable

LEMMA WroteBuffers ==
    ASSUME Types, TextInv, NEW q \in Task, NEW t \in Thread, NEW n \in {1, 2}, NEW W, NEW b,
           Wrote(q, t, n, W, b), WriteCase(q, t, n, W, b)
    PROVE  DueInv' /\ BufferInv'
<1> DEFINE x == Fresh(q, t, 1)
           y == Fresh(q, t, 2)
           l == LineSoFar(q, t)
           m == count[q]
<1>1. /\ buf'[q][t] = b /\ \A u \in Thread : u # t => buf'[q][u] = buf[q][u]
      /\ m \in Nat /\ count'[q] = m + n /\ m + 1 <= Writes
      /\ \A a \in due'[q] : a \in due[q] \/ a = x \/ (n = 2 /\ a = y)
      /\ \A p \in Task : p # q => count'[p] = count[p] /\ due'[p] = due[p] /\ buf'[p] = buf[p]
      /\ due'[q] \subseteq Piece /\ due[q] \subseteq Piece
  BY WroteFacts DEF OnlyOf, Types, TypeOK
<1>2. /\ Follows(buf[q][t], x, q, t, m) /\ Complete(buf[q][t], due[q], t)
      /\ l \in Seq(Piece) /\ Line(l, q, t, m + 1)
  BY <1>1, FreshFollows DEF Longer
<1>3. /\ x.of = q /\ x.by = t /\ x.at = m + 1
      /\ y.of = q /\ y.by = t /\ y.at = m + 2
  BY DEF Fresh
<1>4. \A a \in due[q] : a.of = q /\ a.at <= m /\ a.at \in Nat
  BY <1>1, PieceTypes DEF TextInv, DueInv
<1>5. l = Append(buf[q][t], x)
  BY DEF LineSoFar
<1> HIDE DEF x, y, l, m
<1>6. DueInv'
  <2> SUFFICES ASSUME NEW p \in Task, NEW a \in due'[p] PROVE a.of = p /\ a.at <= count'[p]
    BY DEF DueInv
  <2>1. CASE p # q
    BY <1>1, <2>1 DEF TextInv, DueInv
  <2>2. CASE p = q
    BY <1>1, <1>3, <1>4, <2>2
  <2> QED
    BY <2>1, <2>2
<1>7. ASSUME NEW u \in Thread, u # t
      PROVE  Line(buf'[q][u], q, u, count'[q]) /\ Complete(buf'[q][u], due'[q], u)
  <2>1. buf'[q][u] = buf[q][u] /\ buf[q][u] \in Seq(Piece)
    BY <1>1, <1>7 DEF Types, TextTypes
  <2>2. Line(buf[q][u], q, u, m) /\ Complete(buf[q][u], due[q], u)
    BY DEF TextInv, BufferInv, m
  <2>3. Line(buf[q][u], q, u, count'[q])
    BY <1>1, <2>1, <2>2, LineKept
  <2>4. \A a \in due'[q] : a.by = u => a \in due[q]
    BY <1>1, <1>3, <1>7
  <2> QED
    BY <2>1, <2>2, <2>3, <2>4 DEF Complete
<1>8. Line(b, q, t, count'[q]) /\ Complete(b, due'[q], t)
  <2>1. CASE n = 1 /\ b = l
    <3>1. Line(b, q, t, count'[q])
      BY <1>1, <1>2, <2>1
    <3>2. due'[q] \subseteq due[q] \cup {x}
      BY <1>1, <2>1
    <3>3. Complete(l, due'[q], t)
      BY <1>1, <1>2, <1>4, <1>5, <3>2, AppendComplete
    <3> QED
      BY <2>1, <3>1, <3>3
  <2>2. CASE b = <<>>
    BY <2>2 DEF Line, Complete
  <2>3. CASE n = 2 /\ b = <<y>>
    <3>1. Len(b) = 1 /\ b[1] = y
      BY <2>3
    <3>2. Line(b, q, t, count'[q])
      BY <1>1, <1>3, <2>3, <3>1 DEF Line
    <3>3. \A a \in due'[q] : ~(y.at < a.at)
      BY <1>1, <1>3, <1>4
    <3> QED
      BY <3>1, <3>2, <3>3 DEF Complete
  <2> QED
    BY <2>1, <2>2, <2>3 DEF WriteCase, l, y
<1>9. BufferInv'
  <2> SUFFICES ASSUME NEW p \in Task, NEW u \in Thread
               PROVE  Line(buf'[p][u], p, u, count'[p]) /\ Complete(buf'[p][u], due'[p], u)
    BY DEF BufferInv
  <2>1. CASE p # q
    BY <1>1, <2>1 DEF TextInv, BufferInv
  <2>2. CASE p = q /\ u # t
    BY <1>7, <2>2
  <2>3. CASE p = q /\ u = t
    BY <1>1, <1>8, <2>3
  <2> QED
    BY <2>1, <2>2, <2>3
<1> QED
  BY <1>6, <1>9

LEMMA WroteKept ==
    ASSUME Types, TextInv, NEW q \in Task, NEW t \in Thread, NEW n \in {1, 2}, NEW W, NEW b,
           Wrote(q, t, n, W, b), WriteCase(q, t, n, W, b)
    PROVE  KeptInv'
<1> DEFINE x == Fresh(q, t, 1)
           y == Fresh(q, t, 2)
           l == LineSoFar(q, t)
<1>1. /\ buf'[q][t] = b /\ \A u \in Thread : u # t => buf'[q][u] = buf[q][u]
      /\ count[q] + 1 <= Writes
      /\ \A a \in due'[q] :
             a \in due[q] \/ (tls = q /\ ~flushed /\ (a = x \/ (n = 2 /\ a = y)))
      /\ \A p \in Task : p # q => due'[p] = due[p] /\ buf'[p] = buf[p]
      /\ due[q] \subseteq Piece
  <2>1. OnlyOf(q) /\ due[q] \subseteq Piece
    BY WroteFacts DEF Types, TypeOK
  <2> QED
    BY <2>1, WroteFacts DEF OnlyOf
<1>2. PiecesOf(l) = PiecesOf(buf[q][t]) \cup {x}
  BY <1>1, FreshFollows DEF Longer
<1>3. x.by = t /\ y.by = t
  BY DEF Fresh
<1>4. /\ UNCHANGED <<flushed, tls>> /\ Emitted(q, W)
      /\ \A p \in Task : cursor'[p] = "closed" => cursor[p] = "closed"
      /\ broken \subseteq broken'
  BY DEF Wrote, Emitted
<1>5. /\ \A p \in Task : Written(p) \subseteq Written(p)'
      /\ q \notin broken' => \A s \in W : PiecesOf(s) \subseteq Written(q)'
  BY <1>4, WrittenGrows
<1> HIDE DEF x, y, l
<1> SUFFICES ASSUME NEW p \in Task, p \notin broken', NEW a \in due'[p], a \notin Written(p)'
             PROVE  /\ a \in PiecesOf(buf'[p][a.by])
                    /\ cursor'[p] # "closed" /\ ~(flushed' /\ tls' = p)
  BY DEF KeptInv
<1>6. ASSUME a \in due[p]
      PROVE  /\ a \in PiecesOf(buf[p][a.by])
             /\ cursor'[p] # "closed" /\ ~(flushed' /\ tls' = p)
  BY <1>4, <1>5, <1>6 DEF TextInv, KeptInv
<1>7. CASE p # q
  BY <1>1, <1>6, <1>7
<1>8. CASE p = q
  <2>1. (W = {} /\ b = l) \/ (W = {l} /\ (b = <<>> \/ (n = 2 /\ b = <<y>>)))
    BY DEF WriteCase, l, y
  <2>2. W = {l} => a \notin PiecesOf(l)
    BY <1>5, <1>8
  <2>3. CASE a \in due[q]
    <3>1. /\ a \in PiecesOf(buf[q][a.by]) /\ a.by \in Thread
          /\ cursor'[p] # "closed" /\ ~(flushed' /\ tls' = p)
      BY <1>1, <1>6, <1>8, <2>3, PieceTypes
    <3>2. CASE a.by # t
      BY <1>1, <1>8, <3>1, <3>2
    <3>3. CASE a.by = t
      BY <1>1, <1>2, <1>8, <2>1, <2>2, <3>1, <3>3
    <3> QED
      BY <3>2, <3>3
  <2>4. CASE tls = q /\ ~flushed /\ (a = x \/ (n = 2 /\ a = y))
    <3>1. cursor'[p] # "closed" /\ ~(flushed' /\ tls' = p)
      <4>1. cursor[q] # "closed"
        BY <2>4 DEF Types, CaptureInv, Task, NoTask
      <4> QED
        BY <1>4, <1>8, <2>4, <4>1
    <3>2. n = 1 => b = l \/ W = {l}
      BY <2>1
    <3>3. CASE a = x
      BY <1>1, <1>2, <1>3, <1>8, <2>1, <2>2, <3>1, <3>3
    <3>4. CASE n = 2 /\ a = y
      <4>1. b = <<y>>
        BY <3>4 DEF WriteCase, y
      <4>2. PiecesOf(b) = {y}
        BY <4>1 DEF PiecesOf
      <4> QED
        BY <1>1, <1>3, <1>8, <3>1, <3>4, <4>2
    <3> QED
      BY <2>4, <3>3, <3>4
  <2> QED
    BY <1>1, <1>8, <2>3, <2>4
<1> QED
  BY <1>7, <1>8

LEMMA TextWrite ==
    ASSUME Types, TextInv, NEW q \in Task, NEW t \in Thread, Write(q, t)
    PROVE  TextInv'
<1>1. \E n \in {1, 2} : \E W, b : Wrote(q, t, n, W, b) /\ WriteCase(q, t, n, W, b)
  BY WriteEffect, Zenon DEF WriteCase, Types
<1>2. PICK n \in {1, 2} : \E W, b : Wrote(q, t, n, W, b) /\ WriteCase(q, t, n, W, b)
  BY <1>1
<1>3. PICK W, b : Wrote(q, t, n, W, b) /\ WriteCase(q, t, n, W, b)
  BY <1>2
<1>4. Emitted(q, W) /\ Writable(q, W) /\ OnlyOf(q)
  <2>1. Emitted(q, W)
    BY <1>3 DEF Wrote
  <2>2. Writable(q, W)
    BY <1>3, WroteWritable
  <2>3. OnlyOf(q)
    BY <1>3, WroteFacts
  <2> QED
    BY <2>1, <2>2, <2>3
<1>5. RowInv' /\ OnceInv'
  BY <1>4, RowStep, OnceStep
<1>6. DueInv' /\ BufferInv' /\ KeptInv'
  BY <1>3, WroteBuffers, WroteKept
<1> QED
  BY <1>5, <1>6 DEF TextInv

-----------------------------------------------------------------------------
(* A flush. *)

LEMMA FlushFacts ==
    ASSUME Types, TextInv, Flush
    PROVE  /\ tls \in Task /\ Emitted(tls, Leftovers(tls)) /\ OnlyOf(tls)
           /\ flushed' /\ tls' = tls /\ count' = count /\ due' = due
           /\ \A t \in Thread : buf'[tls][t] = <<>>
           /\ \A q \in Task : q # tls => buf'[q] = buf[q]
<1>1. tls \in Task /\ Emptied(tls)
  BY FlushEffect DEF Types
<1>2. buf \in [Task -> [Thread -> Seq(Piece)]] /\ due \in [Task -> SUBSET Piece]
      /\ count \in [Task -> Nat]
  BY DEF Types, TextTypes, TypeOK
<1>3. buf' = [buf EXCEPT ![tls] = [t \in Thread |-> <<>>]]
      /\ UNCHANGED <<tls, count, due>> /\ Emitted(tls, Leftovers(tls))
  BY <1>1 DEF Emptied
<1>4. /\ \A t \in Thread : buf'[tls][t] = <<>>
      /\ \A q \in Task : q # tls => buf'[q] = buf[q]
  BY <1>1, <1>2, <1>3
<1>5. OnlyOf(tls)
  BY <1>1, <1>2, <1>3, <1>4 DEF OnlyOf
<1>6. flushed'
  BY DEF Flush
<1> QED
  BY <1>1, <1>3, <1>4, <1>5, <1>6

(* What is left in the buffers is whole, and in no row. *)
LEMMA FlushWritable ==
    ASSUME Types, TextInv, Flush
    PROVE  Writable(tls, Leftovers(tls))
<1> DEFINE p == tls
<1>1. /\ p \in Task /\ count' = count /\ due' = due
      /\ \A t \in Thread : buf'[p][t] = <<>>
  BY FlushFacts
<1>2. /\ Leftovers(p) \subseteq Seq(Piece)
      /\ \A s \in Leftovers(p) : s # <<>> /\ \E t \in Thread : s = buf[p][t]
  BY <1>1, LeftoversFinite DEF Leftovers, Types
<1>3. PiecesOf(<<>>) = {}
  BY DEF PiecesOf
<1>4. /\ \A k \in 1..Len(rows[p]), t \in Thread : Disjoint(rows[p][k], buf[p][t])
      /\ \A t \in Thread : Line(buf[p][t], p, t, count[p]) /\ Complete(buf[p][t], due[p], t)
      /\ \A t, u \in Thread : t # u => Disjoint(buf[p][t], buf[p][u])
  <2>1. \A t \in Thread : \A a \in PiecesOf(buf[p][t]) : a.by = t
    BY <1>1, OldPieces
  <2> QED
    BY <1>1, <2>1 DEF TextInv, OnceInv, BufferInv, Disjoint
<1> HIDE DEF p
<1>5. ASSUME NEW s \in Leftovers(p)
      PROVE  /\ s # <<>>
             /\ \E t \in Thread : Line(s, p, t, count'[p])
             /\ Whole(s, due'[p])
             /\ \A r \in Leftovers(p) : s # r => Disjoint(s, r)
             /\ \A k \in 1..Len(rows[p]) : Disjoint(rows[p][k], s)
             /\ \A t \in Thread : Disjoint(s, buf'[p][t])
  <2>1. PICK t \in Thread : s = buf[p][t]
    BY <1>2
  <2>2. s # <<>> /\ s \in Seq(Piece)
    BY <1>2
  <2>3. Line(s, p, t, count'[p]) /\ Complete(s, due'[p], t)
    BY <1>1, <1>4, <2>1
  <2>4. s[1].by = t
    BY <2>2, <2>3 DEF Line
  <2>5. Whole(s, due'[p])
    BY <2>2, <2>3, <2>4 DEF Whole, Complete
  <2>6. \A r \in Leftovers(p) : s # r => Disjoint(s, r)
    BY <1>2, <1>4, <2>1
  <2> QED
    BY <1>1, <1>3, <1>4, <2>1, <2>2, <2>3, <2>5, <2>6 DEF Disjoint
<1>6. \A k \in 1..Len(rows[p]), t \in Thread : Disjoint(rows[p][k], buf'[p][t])
  BY <1>1, <1>3 DEF Disjoint
<1> QED
  BY <1>2, <1>5, <1>6 DEF Writable, p

LEMMA TextFlush ==
    ASSUME Types, TextInv, Flush
    PROVE  TextInv'
<1>1. PICK p \in Task : p = tls
  BY FlushFacts
<1>2. /\ p \in Task /\ Emitted(p, Leftovers(p)) /\ OnlyOf(p)
      /\ flushed' /\ tls' = p /\ count' = count /\ due' = due
      /\ \A t \in Thread : buf'[p][t] = <<>>
      /\ \A q \in Task : q # p => buf'[q] = buf[q]
  BY <1>1, FlushFacts
<1>3. Writable(p, Leftovers(p))
  BY <1>1, FlushWritable
<1>4. /\ \A q \in Task : Written(q) \subseteq Written(q)'
      /\ p \notin broken' => \A s \in Leftovers(p) : PiecesOf(s) \subseteq Written(p)'
  BY <1>2, WrittenGrows
<1>5. RowInv' /\ OnceInv'
  BY <1>2, <1>3, RowStep, OnceStep
<1>6. DueInv'
  BY <1>2 DEF TextInv, DueInv
<1>7. BufferInv'
  <2> SUFFICES ASSUME NEW q \in Task, NEW t \in Thread
               PROVE  Line(buf'[q][t], q, t, count'[q]) /\ Complete(buf'[q][t], due'[q], t)
    BY DEF BufferInv
  <2>1. CASE q # p
    BY <1>2, <2>1 DEF TextInv, BufferInv
  <2>2. CASE q = p
    <3>1. buf'[q][t] = <<>>
      BY <1>2, <2>2
    <3> QED
      BY <3>1 DEF Line, Complete
  <2> QED
    BY <2>1, <2>2
<1>8. KeptInv'
  <2> SUFFICES ASSUME NEW q \in Task, q \notin broken', NEW a \in due'[q], a \notin Written(q)'
               PROVE  /\ a \in PiecesOf(buf'[q][a.by])
                      /\ cursor'[q] # "closed" /\ ~(flushed' /\ tls' = q)
    BY DEF KeptInv
  <2>1. q \notin broken /\ a \in due[q] /\ a \notin Written(q)
    BY <1>2, <1>4 DEF Emitted
  <2>2. a \in PiecesOf(buf[q][a.by]) /\ cursor[q] # "closed"
    BY <2>1 DEF TextInv, KeptInv
  <2>3. a.by \in Thread
    BY <2>1, PieceTypes DEF Types, TypeOK
  <2>4. q # p
    <3> SUFFICES ASSUME q = p PROVE FALSE
      OBVIOUS
    <3>1. buf[p][a.by] # <<>>
      BY <2>2 DEF PiecesOf
    <3>2. buf[p][a.by] \in Leftovers(p)
      BY <2>3, <3>1 DEF Leftovers
    <3> QED
      BY <1>4, <2>2, <3>2
  <2> QED
    BY <1>2, <2>2, <2>4 DEF Emitted
<1> QED
  BY <1>5, <1>6, <1>7, <1>8 DEF TextInv

(* The other actions write nothing. *)
LEMMA TextQuiet ==
    ASSUME Types, TextInv, Start \/ JobReturns \/ JobRaises \/ NoStream \/ CloseCursor
                           \/ (\E p \in Task, t \in Thread : EndThread(p, t)) \/ UNCHANGED vars
    PROVE  TextInv'
<1>1. UNCHANGED <<buf, count, rows, due, broken>>
  BY DEF Start, JobReturns, JobRaises, NoStream, CloseCursor, EndThread, vars, threadVars, textVars
<1>2. DueInv' /\ BufferInv' /\ RowInv' /\ OnceInv'
  BY <1>1 DEF TextInv, DueInv, BufferInv, RowInv, OnceInv
<1>3. /\ \A p \in Task : cursor'[p] = "closed" => cursor[p] = "closed" \/ (flushed /\ tls = p)
      /\ \A p \in Task : flushed' /\ tls' = p => flushed /\ tls = p
  <2>1. CASE Start
    <3>1. ~flushed /\ ~flushed'
      BY <2>1 DEF Start, Types, CaptureInv, Tearing
    <3>2. \A p \in Task : cursor'[p] = "closed" => cursor[p] = "closed"
      BY <2>1 DEF Start, Types, TypeOK
    <3> QED
      BY <3>1, <3>2
  <2>2. CASE CloseCursor
    <3>1. flushed /\ ~flushed' /\ cursor' = [cursor EXCEPT ![tls] = "closed"]
      BY <2>2 DEF CloseCursor
    <3> QED
      BY <3>1 DEF Types, TypeOK
  <2>3. CASE UNCHANGED <<cursor, flushed, tls>>
    BY <2>3
  <2> QED
    BY <2>1, <2>2, <2>3 DEF JobReturns, JobRaises, NoStream, EndThread, vars, textVars
<1>4. KeptInv'
  BY <1>1, <1>3 DEF TextInv, KeptInv, Written
<1> QED
  BY <1>2, <1>4 DEF TextInv

LEMMA TextInit == Init => TextInv
<1> SUFFICES ASSUME Init PROVE TextInv
  OBVIOUS
<1>1. /\ \A p \in Task : rows[p] = <<>> /\ due[p] = {}
      /\ \A p \in Task, t \in Thread : buf[p][t] = <<>>
  BY DEF Init
<1> QED
  BY <1>1 DEF TextInv, DueInv, BufferInv, RowInv, OnceInv, KeptInv, Line, Complete

LEMMA TextStep == Types /\ TextInv /\ [Next]_vars => TextInv'
BY TextWrite, TextFlush, TextQuiet DEF Next

LEMMA CaptureCorrect == Spec => [](Types /\ TextInv)
<1>1. Init => Types /\ TextInv
  BY TypesInit, TextInit
<1>2. Types /\ TextInv /\ [Next]_vars => (Types /\ TextInv)'
  BY TypesStep, TextStep
<1> QED
  BY <1>1, <1>2, PTL DEF Spec

(* Every row of the log is text of one thread of the job it is filed under, in
   the order in which it was written and with nothing missing in between,
   however the threads interleave, outlive their jobs and share idents, and
   whatever INSERT fails. *)
THEOREM LinesAlwaysWhole == Spec => []LinesWhole
<1>1. ASSUME Types, TextInv PROVE LinesWhole
  <2> SUFFICES ASSUME NEW p \in Task, NEW row \in RowsOf(p)
               PROVE  /\ \A a \in PiecesOf(row) : a.of = p /\ a.by = row[1].by
                      /\ \A i \in 2..Len(row) : row[i-1].at < row[i].at
                      /\ \A a \in due[p] : a.by = row[1].by /\ row[1].at < a.at
                                           /\ a.at < row[Len(row)].at => a \in PiecesOf(row)
    BY DEF LinesWhole
  <2>1. rows[p] \in Seq(Seq(Piece)) /\ DOMAIN rows[p] = 1..Len(rows[p])
    BY <1>1 DEF Types, TextTypes
  <2>2. PICK k \in 1..Len(rows[p]) : row = rows[p][k]
    BY <2>1 DEF RowsOf
  <2>3. row \in Seq(Piece) /\ row # <<>> /\ Whole(row, due[p])
    BY <1>1, <2>1, <2>2 DEF TextInv, RowInv
  <2>4. PICK t \in Thread : Line(row, p, t, count[p])
    BY <1>1, <2>2 DEF TextInv, RowInv
  <2>5. \A i \in 1..Len(row) : row[i].of = p /\ row[i].by = t
    BY <2>4 DEF Line
  <2>6. row[1].by = t
    BY <2>3, <2>5
  <2>7. \A a \in PiecesOf(row) : a.of = p /\ a.by = row[1].by
    BY <2>3, <2>5, <2>6 DEF PiecesOf
  <2>8. \A i \in 2..Len(row) : row[i-1].at < row[i].at
    <3>1. \A i \in 2..Len(row) : i - 1 \in 1..Len(row) /\ i \in 1..Len(row) /\ i - 1 < i
      BY <2>3
    <3> QED
      BY <2>4, <3>1 DEF Line
  <2> QED
    BY <2>3, <2>7, <2>8 DEF Whole
<1> QED
  BY <1>1, CaptureCorrect, PTL

(* No piece of text is in two rows or twice in a buffer and a row, and once the
   capture is torn down every piece that it took is in a row, unless an INSERT
   for that job failed. *)
THEOREM WrittenExactlyOnce == Spec => []WrittenOnce
<1>1. ASSUME Types, TextInv PROVE WrittenOnce
  <2>1. \A p \in Task : DOMAIN rows[p] = 1..Len(rows[p])
    BY <1>1 DEF Types, TextTypes
  <2>2. ASSUME NEW p \in Task, NEW q \in Task, NEW i \in DOMAIN rows[p], NEW j \in DOMAIN rows[q],
               PiecesOf(rows[p][i]) \cap PiecesOf(rows[q][j]) # {}
        PROVE  p = q /\ i = j
    <3>1. i \in 1..Len(rows[p]) /\ j \in 1..Len(rows[q])
      BY <2>1
    <3>2. PICK a : a \in PiecesOf(rows[p][i]) /\ a \in PiecesOf(rows[q][j])
      BY <2>2
    <3>3. \A s \in Task : \A k \in 1..Len(rows[s]) : \A x \in PiecesOf(rows[s][k]) : x.of = s
      <4> SUFFICES ASSUME NEW s \in Task, NEW k \in 1..Len(rows[s]), NEW x \in PiecesOf(rows[s][k])
                   PROVE  x.of = s
        OBVIOUS
      <4>1. rows[s][k] \in Seq(Piece)
        BY <1>1 DEF Types, TextTypes
      <4>2. PICK t \in Thread : Line(rows[s][k], s, t, count[s])
        BY <1>1 DEF TextInv, RowInv
      <4> QED
        BY <4>1, <4>2 DEF Line, PiecesOf
    <3>4. p = q
      BY <3>1, <3>2, <3>3
    <3> QED
      BY <1>1, <2>2, <3>1, <3>4 DEF TextInv, OnceInv
  <2>3. ASSUME NEW p \in Task, cursor[p] = "closed", p \notin broken, NEW a \in due[p]
        PROVE  \E row \in RowsOf(p) : a \in PiecesOf(row)
    <3>1. a \in Written(p)
      BY <1>1, <2>3 DEF TextInv, KeptInv
    <3>2. PICK k \in 1..Len(rows[p]) : a \in PiecesOf(rows[p][k])
      BY <3>1 DEF Written
    <3> QED
      BY <2>1, <3>2 DEF RowsOf
  <2> QED
    BY <2>2, <2>3 DEF WrittenOnce
<1> QED
  BY <1>1, CaptureCorrect, PTL
=============================================================================

------------------------------- MODULE Ledger -------------------------------
(***************************************************************************)
(* What a queue promises, whatever its provider: an item that was accepted *)
(* stays open until a worker that holds a lease on it reports a result, or *)
(* until it is closed while nobody holds one; an item is done only by the  *)
(* report of a worker whose own job committed; one lease at a time, and    *)
(* one commit at most for a lease.  Workers may lose their lease at any    *)
(* moment, with a committed job or without: an item is worked on at least  *)
(* once, not exactly once.                                                 *)
(***************************************************************************)
EXTENDS Naturals

CONSTANTS
    Item,      (* what is queued            *)
    Holder,    (* who may work on it        *)
    NoItem     (* not an item, held by none *)

VARIABLES
    item,      (* new, open, done or closed                                 *)
    lease,     (* the item held and how far it is: working, worked (the job *)
               (* ended well and is committed) or over (it ended otherwise) *)
    worked     (* how many jobs of the item committed                       *)

vars == <<item, lease, worked>>

Free == <<NoItem, "none">>

Leased(i) == \E h \in Holder : lease[h][1] = i

Holds(h, phase) == lease[h][1] \in Item /\ lease[h][2] = phase

Init ==
    /\ item = [i \in Item |-> "new"]
    /\ lease = [h \in Holder |-> Free]
    /\ worked = [i \in Item |-> 0]

(* The submitting transaction commits, or does not. *)
Submit(i) ==
    /\ item[i] = "new"
    /\ \E s \in {"open", "closed"} : item' = [item EXCEPT ![i] = s]
    /\ UNCHANGED <<lease, worked>>

Grant(h, i) ==
    /\ lease[h] = Free
    /\ item[i] = "open"
    /\ ~Leased(i)
    /\ lease' = [lease EXCEPT ![h] = <<i, "working">>]
    /\ UNCHANGED <<item, worked>>

Succeed(h) ==
    /\ Holds(h, "working")
    /\ lease' = [lease EXCEPT ![h] = <<lease[h][1], "worked">>]
    /\ worked' = [worked EXCEPT ![lease[h][1]] = @ + 1]
    /\ UNCHANGED item

(* The job fails; it may have asked to keep what it did. *)
Fail(h) ==
    /\ Holds(h, "working")
    /\ lease' = [lease EXCEPT ![h] = <<lease[h][1], "over">>]
    /\ \E n \in {0, 1} : worked' = [worked EXCEPT ![lease[h][1]] = @ + n]
    /\ UNCHANGED item

Report(h) ==
    /\ lease[h] # Free
    /\ item[lease[h][1]] = "open"
    /\ \/ Holds(h, "worked") /\ item' = [item EXCEPT ![lease[h][1]] = "done"]
       \/ /\ Holds(h, "over")
          /\ \E s \in {"open", "closed"} : item' = [item EXCEPT ![lease[h][1]] = s]
    /\ lease' = [lease EXCEPT ![h] = Free]
    /\ UNCHANGED worked

LoseLease(h) ==
    /\ lease[h] # Free
    /\ lease' = [lease EXCEPT ![h] = Free]
    /\ UNCHANGED <<item, worked>>

(* Items nobody holds: given up or withdrawn, filed away, opened again. *)
Shelve(S) ==
    /\ \A i \in S : item[i] \in {"open", "done"} /\ ~Leased(i)
    /\ item' = [i \in Item |-> IF i \in S THEN "closed" ELSE item[i]]
    /\ UNCHANGED <<lease, worked>>

Reopen(i) ==
    /\ item[i] \in {"done", "closed"}
    /\ ~Leased(i)
    /\ item' = [item EXCEPT ![i] = "open"]
    /\ UNCHANGED <<lease, worked>>

Next ==
    \/ \E i \in Item : Submit(i) \/ Reopen(i)
    \/ \E h \in Holder, i \in Item : Grant(h, i)
    \/ \E h \in Holder : Succeed(h) \/ Fail(h) \/ Report(h) \/ LoseLease(h)
    \/ \E S \in SUBSET Item : Shelve(S)

Spec == Init /\ [][Next]_vars
=============================================================================

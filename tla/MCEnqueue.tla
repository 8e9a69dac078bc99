------------------------------ MODULE MCEnqueue ------------------------------
(* Small instances of Enqueue for TLC. *)
EXTENDS Enqueue, TLC

CONSTANTS
    std, fifo, f, p1, d,
    Acts         (* which of the calls below are made                         *)

TwoQueues == {std, fifo}

(* One second on the FIFO queue; the other never looks. *)
Windows == [q \in TwoQueues |-> 1]

Base == [queue |-> fifo, type |-> "rpc", target |-> f, payload |-> p1, id |-> d,
         interval |-> Inherit, sync |-> FALSE, raises |-> FALSE]

AllCalls ==
    [plain |-> Base,
     zero |-> [Base EXCEPT !.interval = 0],
     hash |-> [Base EXCEPT !.id = NoId, !.type = "simple", !.interval = 2,
                           !.raises = TRUE],
     other |-> [Base EXCEPT !.queue = std, !.type = "simple"],
     sync |-> [Base EXCEPT !.sync = TRUE]]

CallsMade == {AllCalls[a] : a \in Acts}

Symmetric == Permutations(Tx)
=============================================================================

---------------------------- MODULE MCWorkerLoop ----------------------------
(* Small instances of WorkerLoop for TLC. *)
EXTENDS WorkerLoop

CONSTANTS Signals, Writes, Faults, Checks, Supply

Bounds == [signals |-> Signals, writes |-> Writes, faults |-> Faults,
           checks |-> Checks, supply |-> Supply]
=============================================================================

---------------------------- MODULE MCSupervision ----------------------------
(* Small instances of Supervision for TLC. *)
EXTENDS Supervision

CONSTANTS Signals, Writes, Faults, Checks, Supply

Bounds == [signals |-> Signals, writes |-> Writes, faults |-> Faults,
           checks |-> Checks, supply |-> Supply]
=============================================================================

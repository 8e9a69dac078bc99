----------------------------- MODULE MCSqsQueue -----------------------------
(***************************************************************************)
(* Instances of SqsQueue for TLC: one cron and one standalone worker.      *)
(***************************************************************************)
EXTENDS SqsQueue

CONSTANTS w1, w2, IdCount, RowCount

MCWorker == {w1, w2}
MCId == 1..IdCount
MCRow == 1..RowCount
MCKind == [w \in MCWorker |-> IF w = w1 THEN "cron" ELSE "standalone"]
=============================================================================

---------------------------- MODULE MCPgsqlQueue ----------------------------
(* Small instances of PgsqlQueue for TLC. *)
EXTENDS PgsqlQueue

CONSTANTS
    Crons,     (* the workers run by ir.cron; the others are standalone *)
    Lone       (* messages that are in a group of their own             *)

KindOf == [w \in Worker |-> IF w \in Crons THEN "cron" ELSE "standalone"]

GroupOf == [m \in Msg |-> IF m \in Lone THEN m ELSE NoMsg]

(* One message a second, or all in the same second. *)
OneEachSecond == [m \in Msg |-> m]
SameSecond == [m \in Msg |-> 0]
=============================================================================

-------------------------- MODULE MCConsoleCapture --------------------------
(***************************************************************************)
(* An instance of ConsoleCapture for TLC: the stdout and stderr threads of *)
(* a command, and a thread of the next command that gets the ident of the  *)
(* first one.                                                              *)
(***************************************************************************)
EXTENDS ConsoleCapture

CONSTANTS t1, t2, t3

MCThread == {t1, t2, t3}
MCIdent == [t \in MCThread |-> IF t = t2 THEN 2 ELSE 1]
=============================================================================

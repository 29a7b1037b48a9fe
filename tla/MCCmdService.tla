--------------------------- MODULE MCCmdService ---------------------------
(* CmdService with one centre and two devices, one of which is silent:     *)
(* enough calls for two tasks, the execution of one, the report of its     *)
(* result and a question about it.                                         *)
EXTENDS CmdService

CONSTANTS c1, d1, d2

MCMaxCalls == (c1 :> 3) @@ (d1 :> 2) @@ (d2 :> 0)
============================================================================

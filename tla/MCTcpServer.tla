---------------------------- MODULE MCTcpServer ----------------------------
(* TcpServer with two clients: one whose stream can be split by recv and   *)
(* by the callback, and one that competes with it.                         *)
EXTENDS TcpServer

CONSTANTS c1, c2

MCMaxBytes == (c1 :> 2) @@ (c2 :> 1)
============================================================================

------------------------ MODULE MCThreadCheckGroup ------------------------
(* ThreadCheckGroup with the calls of SetParam that differ in kind: ranges *)
(* of two lengths, fewer indices than threads, and nothing to check.       *)
EXTENDS ThreadCheckGroup

MCParams == {<<2, 3, TRUE>>, <<2, 1, TRUE>>, <<1, 0, TRUE>>}
===========================================================================

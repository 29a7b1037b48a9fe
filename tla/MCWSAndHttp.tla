---------------------------- MODULE MCWSAndHttp ----------------------------
(* Instances of WSAndHttp: two ports, one port for both and no HTTP port;  *)
(* queries with repeated names, escaped separators and an empty value.     *)
EXTENDS WSAndHttp, TLC

MCSymmetry == Permutations(Handlers) \cup Permutations(Conns)

MCPorts == {[ws |-> 1, http |-> 2], [ws |-> 1, http |-> 1], [ws |-> 1, http |-> 0],
            [ws |-> 0, http |-> 2]}

MCQueries == {
    << <<<<"k">>, <<"v", "w">>>>, <<<<"l", "k">>, <<"w">>>> >>,
    << <<<<"=", "k">>, <<"v">>>>, <<<<"=", "k">>, <<"&", "w", "=">>>> >>,
    << <<<<"k">>, <<>>>>, <<<<"l">>, <<"w">>>> >> }

MCNoQuery == {<<>>}
=============================================================================

----------------------------- MODULE MCPlayList -----------------------------
(***************************************************************************)
(* Instances of PlayList: binary digits, a Default_List that has used 14   *)
(* of its 15 numbers, an empty Play_List.                                  *)
(***************************************************************************)
EXTENDS PlayList

CONSTANTS l1, n1, p1, p2

MCFlagOf == [l \in Lines |-> 1]
MCSelections == {<<p1>>, <<p2, p2>>}
Listed(n, nm) == [line |-> l1, num |-> n, name |-> nm]
MCStock == [t \in 0 .. 2 |->
              IF t = 2 THEN {Listed(i, NoName) : i \in 1 .. 13} \cup {Listed(14, n1)}
                       ELSE {}]
=============================================================================

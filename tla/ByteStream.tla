----------------------------- MODULE ByteStream -----------------------------
(***************************************************************************)
(* What a user of CTcpServer relies on: the bytes the receive callback     *)
(* declares processed are, connection by connection, the bytes the client  *)
(* sent, in order, none lost, repeated or taken from another connection.   *)
(* The n-th byte of connection c is <<c, n>>.                              *)
(***************************************************************************)
EXTENDS Integers, Sequences

CONSTANT Conns

VARIABLES sent, delivered

Bytes(c, m, n) == [k \in 1..n - m |-> <<c, m + k>>]

Init ==
    /\ sent = [c \in Conns |-> 0]
    /\ delivered = [c \in Conns |-> <<>>]

Send(c) ==
    /\ sent' = [sent EXCEPT ![c] = @ + 1]
    /\ UNCHANGED delivered

Deliver(c) ==
    /\ \E n \in Len(delivered[c]) + 1..sent[c] :
           delivered' = [delivered EXCEPT ![c] = @ \o Bytes(c, Len(@), n)]
    /\ UNCHANGED sent

Next == \E c \in Conns : Send(c) \/ Deliver(c)

Spec == Init /\ [][Next]_<<sent, delivered>>
=============================================================================

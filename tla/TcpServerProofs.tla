-------------------------- MODULE TcpServerProofs --------------------------
(***************************************************************************)
(* Proofs about TcpServer, for any number of connections, sockets, bytes   *)
(* and starts.  ServerTypes and ListInv (a socket in the client list is    *)
(* open, has an entry in the map, and is there once) hold without further  *)
(* conditions.  LeftInv, for LeftoverOwned, and StreamInv, for the         *)
(* refinement of ByteStream, need that rounds of HandleThread do not       *)
(* overlap (OneRound), and the latter that no urgent data makes            *)
(* CloseSocket drop the leftover of a connection that DisConnectAll has    *)
(* forgotten (Calm).                                                       *)
(***************************************************************************)
EXTENDS TcpServer, ThreadCheckProofs, FiniteSetTheorems, SequenceTheorems,
        WellFoundedInduction

----------------------------------------------------------------------------
(* What is left of a sequence                                              *)

(* A set of naturals that is not empty has a least element. *)
LEMMA LeastNatural ==
    ASSUME NEW S \in SUBSET Nat, S # {}
    PROVE  \E m \in S : \A x \in S : m <= x
<1>1. PICK R, N : N = Nat /\ IsWellFoundedOn(R, N)
                    /\ \A x, y \in Nat : x < y => <<x, y>> \in R
  <2>1. \A x, y \in Nat : x < y => <<x, y>> \in OpToRel(<, Nat)
    BY DEF OpToRel
  <2>2. QED
    BY <2>1, NatLessThanWellFounded, Zenon
<1>2. \E m \in S : \A x \in S : ~(<<x, m>> \in R)
  <2>1. IsWellFoundedOn(R, N) /\ S \subseteq N
    BY <1>1
  <2>2. QED
    BY <2>1, WFMin
<1>3. PICK m \in S : \A x \in S : ~(<<x, m>> \in R)
  BY <1>2
<1>4. m \in Nat /\ \A x \in S : x \in Nat
  OBVIOUS
<1>5. ASSUME NEW x \in S PROVE m <= x
  <2>1. ~(x < m)
    BY <1>1, <1>3, <1>4
  <2>2. QED
    BY <1>4, <2>1
<1>6. QED
  BY <1>5

(* Every rank up to the number of places is taken by one of them. *)
LEMMA RankTaken ==
    ASSUME NEW n \in Nat, NEW I \in SUBSET (1 .. n), NEW k \in 1 .. Cardinality(I)
    PROVE  \E i \in I : Rank(I, i) = k
<1> DEFINE Upto(i) == {j \in I : j <= i}
<1>1. IsFiniteSet(I) /\ Cardinality(I) \in Nat
  <2>1. IsFiniteSet(1 .. n)
    BY FS_Interval
  <2>2. IsFiniteSet(I)
    BY <2>1, FS_Subset
  <2>3. QED
    BY <2>2, FS_CardinalityType
<1>0. \A j \in I : j \in 1 .. n
  OBVIOUS
<1>2. ASSUME NEW i \in Nat
      PROVE  IsFiniteSet(Upto(i)) /\ Cardinality(Upto(i)) \in Nat
  <2>1. Upto(i) \in SUBSET I
    OBVIOUS
  <2>2. IsFiniteSet(Upto(i))
    BY <1>1, <2>1, FS_Subset
  <2>3. QED
    BY <2>2, FS_CardinalityType
<1>3. PICK S : S = {i \in 0 .. n : Cardinality(Upto(i)) >= k}
  OBVIOUS
<1>4. n \in S
  <2>1. Upto(n) = I
    <3>1. \A j \in I : j <= n
      BY <1>0
    <3>2. QED
      BY <3>1, Zenon
  <2>2. QED
    BY <1>1, <1>3, <2>1
<1>5. PICK m \in S : \A x \in S : m <= x
  <2>1. S \in SUBSET Nat /\ S # {}
    BY <1>3, <1>4
  <2>2. QED
    BY <2>1, LeastNatural
<1>6. m \in 0 .. n /\ Cardinality(Upto(m)) >= k
  BY <1>3, <1>5
<1>7. m # 0
  <2>1. Upto(0) = {}
    <3>1. \A j \in I : ~(j <= 0)
      BY <1>0
    <3>2. QED
      BY <3>1, Zenon
  <2>2. Cardinality(Upto(0)) = 0
    BY <2>1, FS_EmptySet
  <2>3. QED
    BY <1>6, <2>2
<1>8. m - 1 \in 0 .. n /\ ~(m - 1 \in S)
  BY <1>5, <1>6, <1>7
<1>9. PICK U, a : U = Upto(m - 1) /\ a = Cardinality(U) /\ a \in Nat /\ a < k /\ IsFiniteSet(U)
  <2>1. Cardinality(Upto(m - 1)) \in Nat /\ IsFiniteSet(Upto(m - 1))
    BY <1>2, <1>8
  <2>2. ~(Cardinality(Upto(m - 1)) >= k)
    BY <1>3, <1>8
  <2>3. Cardinality(Upto(m - 1)) < k
    BY <2>1, <2>2
  <2>4. QED
    BY <2>1, <2>3
<1>10. m \in I
  <2>1. ASSUME m \notin I PROVE FALSE
    <3>1. \A j \in I : j <= m <=> j <= m - 1
      BY <1>0, <1>6, <2>1
    <3>2. Upto(m) = Upto(m - 1)
      BY <3>1, Zenon
    <3>3. Cardinality(Upto(m)) = a
      BY <1>9, <3>2
    <3>4. QED
      BY <1>6, <1>9, <3>3
  <2>2. QED
    BY <2>1
<1>11. Upto(m) = U \cup {m} /\ m \notin U
  <2>1. \A j \in I : j <= m <=> j <= m - 1 \/ j = m
    BY <1>0, <1>6
  <2>2. Upto(m) = U \cup {m}
    BY <1>9, <1>10, <2>1, Zenon
  <2>3. ~(m <= m - 1)
    BY <1>6
  <2>4. QED
    BY <1>9, <2>2, <2>3
<1>12. Cardinality(Upto(m)) = a + 1
  BY <1>9, <1>11, FS_AddElement
<1>13. Rank(I, m) = k
  BY <1>6, <1>9, <1>12 DEF Rank
<1>14. QED
  BY <1>10, <1>13

(* What Keep returns consists of the elements of the sequence at the kept  *)
(* places, each place at the rank it has among them.                       *)
LEMMA KeepFacts ==
    ASSUME NEW V, NEW q \in Seq(V), NEW I \in SUBSET DOMAIN q
    PROVE  /\ Keep(q, I) \in Seq(V)
           /\ Len(Keep(q, I)) <= Len(q)
           /\ \A k \in DOMAIN Keep(q, I) :
                  \E i \in I : Keep(q, I)[k] = q[i] /\ Rank(I, i) = k
<1>1. PICK n : n = Cardinality(I) /\ n \in Nat /\ n <= Len(q)
  <2>1. I \in SUBSET (1 .. Len(q)) /\ Len(q) \in Nat
    OBVIOUS
  <2>2. IsFiniteSet(1 .. Len(q)) /\ Cardinality(1 .. Len(q)) = Len(q)
    <3>1. PICK l \in Nat : l = Len(q)
      BY <2>1
    <3>2. 1 \in Int /\ l \in Int /\ (IF 1 > l THEN 0 ELSE l - 1 + 1) = l
      OBVIOUS
    <3>3. IsFiniteSet(1 .. l) /\ Cardinality(1 .. l) = l
      BY <3>2, FS_Interval
    <3>4. QED
      BY <3>1, <3>3
  <2>3. IsFiniteSet(I) /\ Cardinality(I) <= Len(q)
    BY <2>1, <2>2, FS_Subset
  <2>4. QED
    BY <2>3, FS_CardinalityType
<1>2. ASSUME NEW k \in 1 .. n
      PROVE  LET i == CHOOSE i \in I : Rank(I, i) = k
             IN  i \in I /\ Rank(I, i) = k
  <2>1. I \in SUBSET (1 .. Len(q)) /\ Len(q) \in Nat /\ k \in 1 .. Cardinality(I)
    BY <1>1
  <2>2. \E i \in I : Rank(I, i) = k
    BY <2>1, RankTaken
  <2>3. QED
    BY <2>2
<1>3. Keep(q, I) = [k \in 1 .. n |-> q[CHOOSE i \in I : Rank(I, i) = k]]
  BY <1>1 DEF Keep
<1>4. ASSUME NEW k \in 1 .. n
      PROVE  \E i \in I : Keep(q, I)[k] = q[i] /\ Rank(I, i) = k
  BY <1>2, <1>3, <1>4
<1>5. ASSUME NEW k \in 1 .. n
      PROVE  Keep(q, I)[k] \in V
  BY <1>4
<1>6. PICK r : r = Keep(q, I)
  OBVIOUS
<1>7. DOMAIN r = 1 .. n /\ r = [k \in 1 .. n |-> r[k]]
  BY <1>3, <1>6
<1>8. \A k \in 1 .. n : r[k] \in V
  BY <1>5, <1>6
<1>9. r \in Seq(V) /\ Len(r) = n
  BY <1>1, <1>7, <1>8
<1>10. QED
  BY <1>1, <1>4, <1>6, <1>7, <1>9

----------------------------------------------------------------------------
(* Types                                                                   *)

Msgs == Seq(Conns \X Nat)

(* An open connection has a socket of its own. *)
OneOpen ==
    /\ \A c \in Conns : conn[c].state = "open" => conn[c].sock \in SOCKET
    /\ \A c, d \in Conns :
           conn[c].state = "open" /\ conn[d].state = "open" /\ conn[c].sock = conn[d].sock
               => c = d

ConnOK == conn \in [Conns -> Connection] /\ OneOpen

ListOK == m_clientSocketList \in Seq(0 .. MaxSocket) /\ Len(m_clientSocketList) <= FD_SETSIZE

MapOK ==
    /\ KeySet \subseteq 0 .. MaxSocket
    /\ \A s \in KeySet : m_preMsgMap[s] \in Msgs

OwnerOK ==
    /\ m_soServer \in {"none", "socket", "listening"}
    /\ m_receiveCB \in BOOLEAN
    /\ opc \in {"idle", "stopping", "disconnect", "clear"}
    /\ oidx \in 0 .. FD_SETSIZE

FrameOK ==
    /\ hpc \in [Handles -> {"out", "accept", "read", "callback", "except"}]
    /\ fdRead \in [Handles -> Seq(0 .. MaxSocket)]
    /\ fdExcept \in [Handles -> SUBSET (0 .. MaxSocket)]
    /\ outPut \in [Handles -> Msgs]
    /\ idx \in [Handles -> Nat]
    /\ processed \in [Conns -> Msgs]

(* Where a round of HandleThread stands: fd_sets are filled only after     *)
(* select, and there are bytes when the receive callback is called.        *)
RoundOK ==
    \A g \in Handles :
        /\ hpc[g] \in {"out", "accept"} => fdRead[g] = <<>>
        /\ hpc[g] = "callback" => /\ idx[g] < Len(fdRead[g])
                                  /\ outPut[g] # <<>>
                                  /\ m_receiveCB

(* A worker that is not yet created is nowhere, and one that is inside     *)
(* HandleThread is inside the callback of ThreadProc.                      *)
PlaceOK ==
    \A g \in Handles :
        /\ g > created[Srv] => pc[Srv][g] = "none"
        /\ hpc[g] # "out" => pc[Srv][g] = "call"

ServerTypes ==
    TypeOK /\ ConnOK /\ ListOK /\ MapOK /\ OwnerOK /\ FrameOK /\ RoundOK /\ PlaceOK

(* The server drives its CThreadCheck through that class's operations. *)
LEMMA ServerThread == ServerNext => [Next]_tvars
<1>1. Srv \in Objects /\ TRUE \in BOOLEAN
  BY TcpAssumption
<1>2. ASSUME NEW c \in Conns, Client(c) PROVE UNCHANGED tvars
  BY <1>2 DEF Client, ClientConnect, ClientSend, ClientUrgent, ClientAbort, ClientLeave, ClientStep
<1>3. ASSUME NEW g \in Handles, ThreadProcStep(g) PROVE [Next]_tvars
  BY <1>1, <1>3 DEF ThreadProcStep, Next, Worker
<1>4. ASSUME NEW g \in Handles, HandleReturn(g) PROVE [Next]_tvars
  BY <1>1, <1>4 DEF HandleReturn, Next, Worker
<1>5. ASSUME NEW g \in Handles, HandleThread(g) PROVE [Next]_tvars
  <2>1. CASE HandleSelect(g)
    BY <1>4, <2>1 DEF HandleSelect
  <2>2. CASE HandleAccept(g)
    BY <1>4, <2>2 DEF HandleAccept
  <2>3. CASE HandleDone(g)
    BY <1>4, <2>3 DEF HandleDone
  <2>4. CASE HandleRead(g) \/ HandleCallback(g) \/ HandleExcept(g)
    BY <2>4 DEF HandleRead, HandleCallback, HandleExcept
  <2>5. QED
    BY <1>5, <2>1, <2>2, <2>3, <2>4 DEF HandleThread
<1>6. ASSUME NEW c \in Callers, OwnerStart(c) PROVE [Next]_tvars
  BY <1>1, <1>6 DEF OwnerStart, StartServer, StopServer, DisConnectAll, Next, Owner
<1>7. ASSUME NEW c \in Callers, OwnerContinue(c) PROVE [Next]_tvars
  BY <1>1, <1>7 DEF OwnerContinue, StopServerReturn, DisConnectStep, DisConnectLoopEnd,
                    DisConnectClear, Next, Owner
<1>8. QED
  BY <1>2, <1>3, <1>5, <1>6, <1>7 DEF ServerNext

----------------------------------------------------------------------------
(* The connections                                                         *)

(* At most one connection is open at a socket; ConnAt finds it. *)
LEMMA ConnAtOpen ==
    ASSUME OneOpen, NEW c \in Conns, conn[c].state = "open"
    PROVE  /\ IsOpen(conn[c].sock)
           /\ ConnAt(conn[c].sock) = c
           /\ OpenAt(conn[c].sock) = {c}
<1>1. PICK s : s = conn[c].sock
  OBVIOUS
<1>2. c \in OpenAt(s)
  BY <1>1 DEF OpenAt
<1>3. ASSUME NEW d \in Conns, d \in OpenAt(s) PROVE d = c
  BY <1>1, <1>3 DEF OpenAt, OneOpen
<1>4. OpenAt(s) = {c}
  <2>1. \A d \in OpenAt(s) : d = c
    BY <1>3 DEF OpenAt
  <2>2. QED
    BY <1>2, <2>1, Zenon
<1>5. ConnAt(s) = c
  BY <1>2, <1>3 DEF ConnAt
<1>6. QED
  BY <1>1, <1>4, <1>5 DEF IsOpen

(* What IsOpen gives: the connection ConnAt names. *)
LEMMA OpenConn ==
    ASSUME OneOpen, NEW s, IsOpen(s)
    PROVE  /\ ConnAt(s) \in Conns /\ s \in SOCKET
           /\ conn[ConnAt(s)].state = "open" /\ conn[ConnAt(s)].sock = s
<1>1. PICK c \in Conns : c \in OpenAt(s)
  BY DEF IsOpen, OpenAt
<1>2. ConnAt(s) \in Conns /\ ConnAt(s) \in OpenAt(s)
  BY <1>1 DEF ConnAt
<1>3. QED
  BY <1>2 DEF OpenAt, OneOpen

(* closesocket closes the connection at s and leaves the others alone. *)
LEMMA ClosesocketFacts ==
    ASSUME ConnOK, NEW s, conn' = closesocket(s)
    PROVE  /\ ConnOK'
           /\ \A c \in Conns :
                  \/ /\ conn[c].state = "open" /\ conn[c].sock = s
                     /\ conn'[c].state = "closed" /\ conn'[c].sent = conn[c].sent /\ ~conn'[c].urgent
                  \/ ~(conn[c].state = "open" /\ conn[c].sock = s) /\ conn'[c] = conn[c]
<1>1. ASSUME NEW c \in Conns, conn[c].state = "open", conn[c].sock = s
      PROVE  /\ conn'[c] = [conn[c] EXCEPT !.state = "closed", !.sock = INVALID_SOCKET,
                                           !.peer = "up", !.rcvd = 0, !.urgent = FALSE]
             /\ conn'[c].state = "closed" /\ conn'[c].sent = conn[c].sent /\ ~conn'[c].urgent
             /\ conn'[c] \in Connection
  <2>1. conn'[c] = [conn[c] EXCEPT !.state = "closed", !.sock = INVALID_SOCKET,
                                   !.peer = "up", !.rcvd = 0, !.urgent = FALSE]
    BY <1>1 DEF closesocket, OpenAt
  <2>2. conn[c] \in Connection
    BY DEF ConnOK
  <2>3. INVALID_SOCKET \in 0 .. MaxSocket
    BY TcpAssumption DEF INVALID_SOCKET
  <2>4. conn'[c] \in Connection
    <3>1. ASSUME NEW r \in Connection
          PROVE  [r EXCEPT !.state = "closed", !.sock = INVALID_SOCKET,
                           !.peer = "up", !.rcvd = 0, !.urgent = FALSE] \in Connection
      BY <2>3 DEF Connection
    <3>2. QED
      BY <2>1, <2>2, <3>1
  <2>5. conn'[c].state = "closed" /\ conn'[c].sent = conn[c].sent /\ ~conn'[c].urgent
    BY <2>1, <2>2 DEF Connection
  <2>6. QED
    BY <2>1, <2>4, <2>5
<1>2. ASSUME NEW c \in Conns, ~(conn[c].state = "open" /\ conn[c].sock = s)
      PROVE  conn'[c] = conn[c] /\ conn'[c] \in Connection
  BY <1>2 DEF closesocket, OpenAt, ConnOK
<1>3. conn' \in [Conns -> Connection]
  <2>1. conn' = [c \in Conns |-> conn'[c]]
    BY DEF closesocket
  <2>2. \A c \in Conns : conn'[c] \in Connection
    BY <1>1, <1>2
  <2>3. QED
    BY <2>1, <2>2
<1>4. \A c \in Conns : conn'[c].state = "open" => conn'[c] = conn[c]
  BY <1>1, <1>2
<1>5. OneOpen'
  BY <1>4 DEF OneOpen, ConnOK, SOCKET
<1>6. QED
  BY <1>1, <1>2, <1>3, <1>5 DEF ConnOK

(* What a client does to the connections: it opens and closes none, and    *)
(* sends at most a byte.                                                   *)
LEMMA ClientFacts ==
    ASSUME ConnOK, NEW c \in Conns, Client(c)
    PROVE  /\ ConnOK'
           /\ \A d \in Conns :
                  /\ conn'[d].state = "open" <=> conn[d].state = "open"
                  /\ conn'[d].state \in {"new", "backlog"} => conn[d].state \in {"new", "backlog"}
                  /\ conn'[d].sock = conn[d].sock
                  /\ conn'[d].rcvd = conn[d].rcvd
                  /\ conn'[d].sent >= conn[d].sent
                  /\ conn'[d].peer = "up" => conn[d].peer = "up"
                  /\ conn'[d].urgent => conn[d].urgent \/ c \in UrgentConns
           /\ \/ \A d \in Conns : conn'[d].sent = conn[d].sent
              \/ /\ conn'[c].sent = conn[c].sent + 1
                 /\ \A d \in Conns \ {c} : conn'[d].sent = conn[d].sent
           /\ UNCHANGED <<tvars, srvVars, frame, ownerVars, processed>>
<1>1. PICK r : r = conn[c] /\ r \in Connection /\ r.sent \in Nat /\ r.rcvd \in Nat
  BY DEF ConnOK, Connection
<1>2. PICK q : /\ conn' = [conn EXCEPT ![c] = q]
               /\ q \in Connection
               /\ q.state = "open" <=> r.state = "open"
               /\ q.state \in {"new", "backlog"} => r.state \in {"new", "backlog"}
               /\ q.sock = r.sock /\ q.rcvd = r.rcvd
               /\ q.sent = r.sent \/ q.sent = r.sent + 1
               /\ q.peer = "up" => r.peer = "up"
               /\ q.urgent => r.urgent \/ c \in UrgentConns
               /\ UNCHANGED <<tvars, srvVars, frame, ownerVars, processed>>
  <2>1. CASE ClientConnect(c)
    <3>1. PICK q : q = [r EXCEPT !.state = "backlog"]
      OBVIOUS
    <3>2. r.state = "new" /\ conn' = [conn EXCEPT ![c] = q]
          /\ UNCHANGED <<tvars, srvVars, frame, ownerVars, processed>>
      BY <1>1, <2>1, <3>1 DEF ClientConnect, ClientStep
    <3>3. q \in Connection
      BY <1>1, <3>1 DEF Connection
    <3>4. q.state = "backlog" /\ q.sock = r.sock /\ q.rcvd = r.rcvd /\ q.sent = r.sent
          /\ q.peer = r.peer /\ q.urgent = r.urgent
      BY <1>1, <3>1 DEF Connection
    <3>5. QED
      BY <3>2, <3>3, <3>4
  <2>2. CASE ClientSend(c)
    <3>1. PICK q : q = [r EXCEPT !.sent = r.sent + 1]
      OBVIOUS
    <3>2. conn' = [conn EXCEPT ![c] = q]
          /\ UNCHANGED <<tvars, srvVars, frame, ownerVars, processed>>
      BY <1>1, <2>2, <3>1 DEF ClientSend, ClientStep
    <3>3. q \in Connection
      BY <1>1, <3>1 DEF Connection
    <3>4. q.state = r.state /\ q.sock = r.sock /\ q.rcvd = r.rcvd /\ q.sent = r.sent + 1
          /\ q.peer = r.peer /\ q.urgent = r.urgent
      BY <1>1, <3>1 DEF Connection
    <3>5. QED
      BY <3>2, <3>3, <3>4
  <2>3. CASE ClientUrgent(c)
    <3>1. PICK q : q = [r EXCEPT !.urgent = TRUE]
      OBVIOUS
    <3>2. c \in UrgentConns /\ conn' = [conn EXCEPT ![c] = q]
          /\ UNCHANGED <<tvars, srvVars, frame, ownerVars, processed>>
      BY <1>1, <2>3, <3>1 DEF ClientUrgent, ClientStep
    <3>3. q \in Connection
      BY <1>1, <3>1 DEF Connection
    <3>4. q.state = r.state /\ q.sock = r.sock /\ q.rcvd = r.rcvd /\ q.sent = r.sent
          /\ q.peer = r.peer
      BY <1>1, <3>1 DEF Connection
    <3>5. QED
      BY <3>2, <3>3, <3>4
  <2>4. CASE ClientAbort(c)
    <3>1. PICK q : q = [r EXCEPT !.state = "closed"]
      OBVIOUS
    <3>2. r.state = "backlog" /\ conn' = [conn EXCEPT ![c] = q]
          /\ UNCHANGED <<tvars, srvVars, frame, ownerVars, processed>>
      BY <1>1, <2>4, <3>1 DEF ClientAbort, ClientStep
    <3>3. q \in Connection
      BY <1>1, <3>1 DEF Connection
    <3>4. q.state = "closed" /\ q.sock = r.sock /\ q.rcvd = r.rcvd /\ q.sent = r.sent
          /\ q.peer = r.peer /\ q.urgent = r.urgent
      BY <1>1, <3>1 DEF Connection
    <3>5. QED
      BY <3>2, <3>3, <3>4
  <2>5. ASSUME NEW how \in {"fin", "rst"}, ClientLeave(c, how)
        PROVE  \E q : /\ conn' = [conn EXCEPT ![c] = q]
                      /\ q \in Connection
                      /\ q.state = r.state /\ q.sock = r.sock /\ q.rcvd = r.rcvd
                      /\ q.sent = r.sent /\ r.peer = "up" /\ q.urgent = r.urgent
                      /\ UNCHANGED <<tvars, srvVars, frame, ownerVars, processed>>
    <3>1. PICK q : q = [r EXCEPT !.peer = how]
      OBVIOUS
    <3>2. r.peer = "up" /\ conn' = [conn EXCEPT ![c] = q]
          /\ UNCHANGED <<tvars, srvVars, frame, ownerVars, processed>>
      BY <1>1, <2>5, <3>1 DEF ClientLeave, ClientStep
    <3>3. q \in Connection
      BY <1>1, <3>1 DEF Connection
    <3>4. q.state = r.state /\ q.sock = r.sock /\ q.rcvd = r.rcvd /\ q.sent = r.sent
          /\ q.urgent = r.urgent
      BY <1>1, <3>1 DEF Connection
    <3>5. QED
      BY <3>2, <3>3, <3>4
  <2>6. QED
    BY <2>1, <2>2, <2>3, <2>4, <2>5 DEF Client
<1>3. conn'[c] = q /\ \A d \in Conns \ {c} : conn'[d] = conn[d]
  BY <1>2 DEF ConnOK
<1>4. conn' \in [Conns -> Connection]
  BY <1>2 DEF ConnOK
<1>5. \A d \in Conns : conn[d].sent \in Nat
  BY DEF ConnOK, Connection
<1>6. \A d \in Conns :
          /\ conn'[d].state = "open" <=> conn[d].state = "open"
          /\ conn'[d].state \in {"new", "backlog"} => conn[d].state \in {"new", "backlog"}
          /\ conn'[d].sock = conn[d].sock
          /\ conn'[d].rcvd = conn[d].rcvd
          /\ conn'[d].sent >= conn[d].sent
          /\ conn'[d].peer = "up" => conn[d].peer = "up"
          /\ conn'[d].urgent => conn[d].urgent \/ c \in UrgentConns
  BY <1>1, <1>2, <1>3, <1>5
<1>7. OneOpen'
  BY <1>6 DEF OneOpen, ConnOK, SOCKET
<1>8. QED
  BY <1>1, <1>2, <1>3, <1>4, <1>6, <1>7 DEF ConnOK

(* accept gives a waiting connection a socket that is not in use. *)
LEMMA AcceptFacts ==
    ASSUME ConnOK, NEW c \in Backlog, NEW s \in SOCKET, ~IsOpen(s),
           conn' = [conn EXCEPT ![c].state = "open", ![c].sock = s]
    PROVE  /\ ConnOK'
           /\ conn'[c].state = "open" /\ conn'[c].sock = s
           /\ conn'[c].sent = conn[c].sent /\ conn'[c].rcvd = conn[c].rcvd
           /\ conn'[c].urgent = conn[c].urgent
           /\ \A d \in Conns \ {c} : conn'[d] = conn[d]
<1>1. PICK r : r = conn[c] /\ r \in Connection /\ c \in Conns
  BY DEF ConnOK, Backlog
<1>2. PICK q : q = [r EXCEPT !.state = "open", !.sock = s]
  OBVIOUS
<1>3. q \in Connection
  <2>1. s \in 0 .. MaxSocket
    BY TcpAssumption DEF SOCKET
  <2>2. QED
    BY <1>1, <1>2, <2>1 DEF Connection
<1>4. q.state = "open" /\ q.sock = s /\ q.sent = r.sent /\ q.rcvd = r.rcvd
      /\ q.urgent = r.urgent
  BY <1>1, <1>2 DEF Connection
<1>5. conn' = [conn EXCEPT ![c] = q]
  BY <1>1, <1>2 DEF ConnOK
<1>6. conn'[c] = q /\ \A d \in Conns \ {c} : conn'[d] = conn[d]
  BY <1>1, <1>5 DEF ConnOK
<1>7. conn' \in [Conns -> Connection]
  BY <1>3, <1>5 DEF ConnOK
<1>8. \A d \in Conns : ~(conn[d].state = "open" /\ conn[d].sock = s)
  BY DEF IsOpen, OpenAt
<1>9. OneOpen'
  BY <1>1, <1>4, <1>6, <1>8 DEF OneOpen, ConnOK, SOCKET
<1>10. QED
  BY <1>1, <1>4, <1>6, <1>7, <1>9 DEF ConnOK

(* recv moves the read position of one connection. *)
LEMMA RecvFacts ==
    ASSUME ConnOK, NEW c \in Conns, NEW n \in Nat, conn' = [conn EXCEPT ![c].rcvd = n]
    PROVE  /\ ConnOK'
           /\ conn'[c].state = conn[c].state /\ conn'[c].sock = conn[c].sock
           /\ conn'[c].sent = conn[c].sent /\ conn'[c].rcvd = n
           /\ conn'[c].urgent = conn[c].urgent
           /\ \A d \in Conns \ {c} : conn'[d] = conn[d]
<1>1. PICK r : r = conn[c] /\ r \in Connection
  BY DEF ConnOK
<1>2. PICK q : q = [r EXCEPT !.rcvd = n]
  OBVIOUS
<1>3. q \in Connection
  BY <1>1, <1>2 DEF Connection
<1>4. q.state = r.state /\ q.sock = r.sock /\ q.sent = r.sent /\ q.rcvd = n
      /\ q.urgent = r.urgent
  BY <1>1, <1>2 DEF Connection
<1>5. conn' = [conn EXCEPT ![c] = q]
  BY <1>1, <1>2 DEF ConnOK
<1>6. conn'[c] = q /\ \A d \in Conns \ {c} : conn'[d] = conn[d]
  BY <1>5 DEF ConnOK
<1>7. conn' \in [Conns -> Connection]
  BY <1>3, <1>5 DEF ConnOK
<1>8. OneOpen'
  BY <1>1, <1>4, <1>6 DEF OneOpen, ConnOK, SOCKET
<1>9. QED
  BY <1>1, <1>4, <1>6, <1>7, <1>8 DEF ConnOK

----------------------------------------------------------------------------
(* The list and the leftovers                                              *)

(* Erasing a socket keeps the others, and keeps them distinct. *)
LEMMA WithoutFacts ==
    ASSUME NEW V, NEW q \in Seq(V), NEW s
    PROVE  /\ Without(q, s) \in Seq(V)
           /\ Len(Without(q, s)) <= Len(q)
           /\ \A k \in DOMAIN Without(q, s) :
                  \E i \in DOMAIN q : Without(q, s)[k] = q[i] /\ q[i] # s
           /\ (\A i, j \in DOMAIN q : q[i] = q[j] /\ q[i] # 0 => i = j)
              => \A k, l \in DOMAIN Without(q, s) :
                     Without(q, s)[k] = Without(q, s)[l] /\ Without(q, s)[k] # 0 => k = l
<1>1. PICK I : I = {i \in DOMAIN q : q[i] # s}
  OBVIOUS
<1>2. I \in SUBSET DOMAIN q
  BY <1>1
<1>3. PICK w : w = Without(q, s) /\ w = Keep(q, I)
  BY <1>1 DEF Without
<1>4. /\ w \in Seq(V) /\ Len(w) <= Len(q)
      /\ \A k \in DOMAIN w : \E i \in I : w[k] = q[i] /\ Rank(I, i) = k
  BY <1>2, <1>3, KeepFacts
<1>5. ASSUME \A i, j \in DOMAIN q : q[i] = q[j] /\ q[i] # 0 => i = j,
             NEW k \in DOMAIN w, NEW l \in DOMAIN w, w[k] = w[l], w[k] # 0
      PROVE  k = l
  <2>1. PICK i \in I : w[k] = q[i] /\ Rank(I, i) = k
    BY <1>4
  <2>2. PICK j \in I : w[l] = q[j] /\ Rank(I, j) = l
    BY <1>4
  <2>3. i = j
    BY <1>2, <1>5, <2>1, <2>2
  <2>4. QED
    BY <2>1, <2>2, <2>3
<1>6. \A k \in DOMAIN w : \E i \in DOMAIN q : w[k] = q[i] /\ q[i] # s
  BY <1>1, <1>4
<1>7. QED
  BY <1>3, <1>4, <1>5, <1>6

(* Deleting an entry of the map leaves the others alone. *)
LEMMA DeleteFacts ==
    ASSUME NEW s, m_preMsgMap' = deletePreMsg(s)
    PROVE  KeySet' = KeySet \ {s} /\ \A t \in KeySet' : m_preMsgMap'[t] = m_preMsgMap[t]
<1>1. KeySet' = KeySet \ {s}
  BY DEF KeySet, deletePreMsg
<1>2. QED
  BY <1>1 DEF deletePreMsg

LEMMA PutFacts ==
    ASSUME NEW s, NEW msg, m_preMsgMap' = PutMsg(s, msg)
    PROVE  /\ KeySet' = KeySet \cup {s} /\ m_preMsgMap'[s] = msg
           /\ \A t \in KeySet' \ {s} : m_preMsgMap'[t] = m_preMsgMap[t]
<1>1. KeySet' = KeySet \cup {s}
  BY DEF KeySet, PutMsg
<1>2. QED
  BY <1>1 DEF PutMsg

(* The sockets in the list are open, are there once, and have entries in   *)
(* the map; only entries that the owner or a failed accept made invalid    *)
(* are otherwise.                                                          *)
ListInv ==
    /\ \A i \in DOMAIN m_clientSocketList :
           m_clientSocketList[i] # 0 =>
               IsOpen(m_clientSocketList[i]) /\ m_clientSocketList[i] \in KeySet
    /\ \A i, j \in DOMAIN m_clientSocketList :
           m_clientSocketList[i] = m_clientSocketList[j] /\ m_clientSocketList[i] # 0 => i = j

(* What closing a socket does, whoever does it: its leftover is gone, only *)
(* a connection at that socket is closed, and nothing enters the list but  *)
(* INVALID_SOCKET.                                                         *)
Closes(s) ==
    /\ KeySet' = KeySet \ {s} /\ \A t \in KeySet' : m_preMsgMap'[t] = m_preMsgMap[t]
    /\ \A k \in DOMAIN m_clientSocketList' :
           \/ m_clientSocketList'[k] = 0
           \/ \E i \in DOMAIN m_clientSocketList : m_clientSocketList'[k] = m_clientSocketList[i]
    /\ \A c \in Conns :
           \/ conn'[c] = conn[c]
           \/ /\ conn[c].state = "open" /\ conn[c].sock = s
              /\ conn'[c].state = "closed" /\ conn'[c].sent = conn[c].sent /\ ~conn'[c].urgent

(* CloseSocket also takes the socket off the list, and closes it if it is  *)
(* there.                                                                  *)
LEMMA CloseSocketFacts ==
    ASSUME ConnOK, ListOK, MapOK, NEW s, CloseSocket(s)
    PROVE  /\ ConnOK' /\ ListOK' /\ MapOK'
           /\ Closes(s)
           /\ \A k \in DOMAIN m_clientSocketList' : m_clientSocketList'[k] # s
           /\ Contains(m_clientSocketList, s) =>
                  \A c \in Conns : ~(conn'[c].state = "open" /\ conn'[c].sock = s)
           /\ ListInv => ListInv'
<1>1. m_preMsgMap' = deletePreMsg(s) /\ m_clientSocketList' = Without(m_clientSocketList, s)
  BY DEF CloseSocket
<1>2. KeySet' = KeySet \ {s} /\ \A t \in KeySet' : m_preMsgMap'[t] = m_preMsgMap[t]
  BY <1>1, DeleteFacts
<1>3. MapOK'
  BY <1>2 DEF MapOK, Msgs
<1>4. PICK q, w : q = m_clientSocketList /\ w = m_clientSocketList' /\ w = Without(q, s)
  BY <1>1
<1>5. q \in Seq(0 .. MaxSocket) /\ Len(q) <= FD_SETSIZE
  BY <1>4 DEF ListOK
<1>6. /\ w \in Seq(0 .. MaxSocket) /\ Len(w) <= Len(q)
      /\ \A k \in DOMAIN w : \E i \in DOMAIN q : w[k] = q[i] /\ q[i] # s
      /\ (\A i, j \in DOMAIN q : q[i] = q[j] /\ q[i] # 0 => i = j)
         => \A k, l \in DOMAIN w : w[k] = w[l] /\ w[k] # 0 => k = l
  BY <1>4, <1>5, WithoutFacts
<1>7. ListOK'
  <2>1. Len(w) <= FD_SETSIZE
    BY <1>5, <1>6, TcpAssumption
  <2>2. QED
    BY <1>4, <1>6, <2>1 DEF ListOK
<1>8. ConnOK' /\ \A c \in Conns :
                  \/ conn'[c] = conn[c]
                  \/ /\ conn[c].state = "open" /\ conn[c].sock = s
                     /\ conn'[c].state = "closed" /\ conn'[c].sent = conn[c].sent /\ ~conn'[c].urgent
  <2>1. CASE conn' = closesocket(s)
    BY <2>1, ClosesocketFacts
  <2>2. CASE conn' = conn
    BY <2>2 DEF ConnOK, OneOpen, SOCKET
  <2>3. QED
    BY <2>1, <2>2 DEF CloseSocket
<1>9. Contains(m_clientSocketList, s) =>
          \A c \in Conns : ~(conn'[c].state = "open" /\ conn'[c].sock = s)
  <2>1. ASSUME Contains(m_clientSocketList, s)
        PROVE  \A c \in Conns : ~(conn'[c].state = "open" /\ conn'[c].sock = s)
    <3>1. conn' = closesocket(s)
      BY <2>1 DEF CloseSocket
    <3>2. \A c \in Conns :
                  \/ /\ conn[c].state = "open" /\ conn[c].sock = s
                     /\ conn'[c].state = "closed" /\ conn'[c].sent = conn[c].sent /\ ~conn'[c].urgent
                  \/ ~(conn[c].state = "open" /\ conn[c].sock = s) /\ conn'[c] = conn[c]
      BY <3>1, ClosesocketFacts
    <3>3. QED
      BY <3>2
  <2>2. QED
    BY <2>1
<1>10. ASSUME ListInv PROVE ListInv'
  <2>1. ASSUME NEW k \in DOMAIN w, w[k] # 0
        PROVE  IsOpen(w[k])' /\ w[k] \in KeySet'
    <3>1. PICK i \in DOMAIN q : w[k] = q[i] /\ q[i] # s
      BY <1>6
    <3>2. IsOpen(q[i]) /\ q[i] \in KeySet
      BY <1>4, <1>10, <2>1, <3>1 DEF ListInv
    <3>3. PICK c \in Conns : conn[c].state = "open" /\ conn[c].sock = q[i]
      BY <3>2 DEF IsOpen, OpenAt
    <3>4. conn'[c] = conn[c]
      BY <1>8, <3>1, <3>3
    <3>5. c \in OpenAt(w[k])'
      BY <3>1, <3>3, <3>4 DEF OpenAt
    <3>6. QED
      BY <1>2, <3>1, <3>2, <3>5 DEF IsOpen
  <2>2. \A k, l \in DOMAIN w : w[k] = w[l] /\ w[k] # 0 => k = l
    BY <1>4, <1>6, <1>10 DEF ListInv
  <2>3. QED
    BY <1>4, <2>1, <2>2 DEF ListInv
<1>11. Closes(s) /\ \A k \in DOMAIN m_clientSocketList' : m_clientSocketList'[k] # s
  BY <1>2, <1>4, <1>6, <1>8 DEF Closes
<1>12. QED
  BY <1>3, <1>7, <1>8, <1>9, <1>10, <1>11

(* An iteration of DisConnectAll. *)
LEMMA DisConnectFacts ==
    ASSUME ConnOK, ListOK, MapOK, OwnerOK, DisConnectStep
    PROVE  /\ ConnOK' /\ ListOK' /\ MapOK' /\ OwnerOK'
           /\ \E s \in 0 .. MaxSocket :
                  /\ Closes(s)
                  /\ \A c \in Conns : ~(conn'[c].state = "open" /\ conn'[c].sock = s)
           /\ ListInv => ListInv'
<1>1. PICK q, n : q = m_clientSocketList /\ n = oidx + 1
  OBVIOUS
<1>2. /\ q \in Seq(0 .. MaxSocket) /\ Len(q) <= FD_SETSIZE /\ n \in DOMAIN q
      /\ oidx' = n /\ n \in 0 .. FD_SETSIZE
      /\ UNCHANGED <<m_soServer, m_receiveCB, opc>>
  <2>1. oidx \in Nat /\ oidx < Len(q) /\ oidx' = oidx + 1
        /\ UNCHANGED <<m_soServer, m_receiveCB, opc>>
    BY <1>1 DEF OwnerOK, DisConnectStep
  <2>2. q \in Seq(0 .. MaxSocket) /\ Len(q) <= FD_SETSIZE
    BY <1>1 DEF ListOK
  <2>3. QED
    BY <1>1, <2>1, <2>2, TcpAssumption
<1>3. PICK s \in 0 .. MaxSocket : s = q[n]
  <2>1. q \in Seq(0 .. MaxSocket) /\ n \in DOMAIN q
    BY <1>2
  <2>2. q[n] \in 0 .. MaxSocket
    BY <2>1, TcpAssumption
  <2>3. QED
    BY <2>2
<1>4. PICK w : w = m_clientSocketList' /\ w = [q EXCEPT ![n] = 0]
  BY <1>1 DEF DisConnectStep, INVALID_SOCKET
<1>5. m_preMsgMap' = deletePreMsg(s) /\ conn' = closesocket(s)
  BY <1>1, <1>3 DEF DisConnectStep
<1>6. KeySet' = KeySet \ {s} /\ \A t \in KeySet' : m_preMsgMap'[t] = m_preMsgMap[t]
  BY <1>5, DeleteFacts
<1>7. MapOK'
  BY <1>6 DEF MapOK, Msgs
<1>8. ConnOK' /\ \A c \in Conns :
                  \/ /\ conn[c].state = "open" /\ conn[c].sock = s
                     /\ conn'[c].state = "closed" /\ conn'[c].sent = conn[c].sent /\ ~conn'[c].urgent
                  \/ ~(conn[c].state = "open" /\ conn[c].sock = s) /\ conn'[c] = conn[c]
  BY <1>5, ClosesocketFacts
<1>9. /\ w \in Seq(0 .. MaxSocket) /\ Len(w) = Len(q) /\ DOMAIN w = DOMAIN q
      /\ w[n] = 0 /\ \A k \in DOMAIN q \ {n} : w[k] = q[k]
  <2>1. 0 \in 0 .. MaxSocket
    BY TcpAssumption
  <2>2. QED
    BY <1>2, <1>4, <2>1
<1>10. ListOK' /\ OwnerOK'
  BY <1>2, <1>4, <1>9 DEF ListOK, OwnerOK
<1>11. Closes(s) /\ \A c \in Conns : ~(conn'[c].state = "open" /\ conn'[c].sock = s)
  <2>1. \A k \in DOMAIN w : w[k] = 0 \/ \E i \in DOMAIN q : w[k] = q[i]
    BY <1>9
  <2>2. QED
    BY <1>1, <1>4, <1>6, <1>8, <2>1 DEF Closes
<1>12. ASSUME ListInv PROVE ListInv'
  <2>1. ASSUME NEW k \in DOMAIN w, w[k] # 0
        PROVE  k # n /\ k \in DOMAIN q /\ w[k] = q[k]
    BY <1>9, <2>1
  <2>2. ASSUME NEW k \in DOMAIN w, w[k] # 0
        PROVE  IsOpen(w[k])' /\ w[k] \in KeySet'
    <3>1. IsOpen(q[k]) /\ q[k] \in KeySet /\ q[k] # s
      BY <1>1, <1>2, <1>3, <1>12, <2>1, <2>2 DEF ListInv
    <3>2. PICK c \in Conns : conn[c].state = "open" /\ conn[c].sock = q[k]
      BY <3>1 DEF IsOpen, OpenAt
    <3>3. conn'[c] = conn[c]
      BY <1>8, <3>1, <3>2
    <3>4. c \in OpenAt(w[k])'
      BY <2>1, <2>2, <3>2, <3>3 DEF OpenAt
    <3>5. QED
      BY <1>6, <2>1, <2>2, <3>1, <3>4 DEF IsOpen
  <2>3. \A k, l \in DOMAIN w : w[k] = w[l] /\ w[k] # 0 => k = l
    BY <1>1, <1>12, <2>1 DEF ListInv
  <2>4. QED
    BY <1>4, <2>2, <2>3 DEF ListInv
<1>13. QED
  BY <1>7, <1>8, <1>10, <1>11, <1>12

(* accept: the list is full, or a waiting connection gets a fresh socket   *)
(* with an empty leftover, or INVALID_SOCKET is entered.                   *)
LEMMA AcceptStep ==
    ASSUME ConnOK, ListOK, MapOK, NEW g, HandleAccept(g)
    PROVE  /\ ConnOK' /\ ListOK' /\ MapOK'
           /\ \/ UNCHANGED <<conn, m_preMsgMap, m_clientSocketList>>
              \/ \E c \in Backlog, s \in SOCKET :
                     /\ ~IsOpen(s)
                     /\ conn' = [conn EXCEPT ![c].state = "open", ![c].sock = s]
                     /\ m_preMsgMap' = PutMsg(s, <<>>)
                     /\ m_clientSocketList' = Append(m_clientSocketList, s)
              \/ /\ conn' = conn
                 /\ m_preMsgMap' = PutMsg(0, <<>>)
                 /\ m_clientSocketList' = Append(m_clientSocketList, 0)
           /\ ListInv => ListInv'
<1> USE TcpAssumption
<1>1. PICK q : q = m_clientSocketList /\ q \in Seq(0 .. MaxSocket) /\ Len(q) <= FD_SETSIZE
  BY DEF ListOK
<1>2. CASE UNCHANGED <<conn, m_preMsgMap, m_clientSocketList>>
  <2>1. ConnOK'
    BY <1>2 DEF ConnOK, OneOpen, SOCKET
  <2>2. ListOK' /\ MapOK'
    BY <1>2 DEF ListOK, MapOK, KeySet
  <2>3. ListInv => ListInv'
    BY <1>2 DEF ListInv, KeySet, IsOpen, OpenAt
  <2>4. QED
    BY <1>2, <2>1, <2>2, <2>3
<1>3. ASSUME NEW s \in 0 .. MaxSocket, Len(q) < FD_SETSIZE,
             m_preMsgMap' = PutMsg(s, <<>>), m_clientSocketList' = Append(q, s)
      PROVE  /\ ListOK' /\ MapOK'
             /\ KeySet' = KeySet \cup {s}
             /\ DOMAIN m_clientSocketList' = DOMAIN q \cup {Len(q) + 1}
             /\ m_clientSocketList'[Len(q) + 1] = s
             /\ \A i \in DOMAIN q : m_clientSocketList'[i] = q[i]
  <2>1. KeySet' = KeySet \cup {s} /\ m_preMsgMap'[s] = <<>>
        /\ \A t \in KeySet' \ {s} : m_preMsgMap'[t] = m_preMsgMap[t]
    BY <1>3, PutFacts
  <2>2. <<>> \in Msgs
    BY DEF Msgs
  <2>3. MapOK'
    BY <2>1, <2>2 DEF MapOK, Msgs
  <2>4. PICK w : w = m_clientSocketList' /\ w = Append(q, s)
    BY <1>3
  <2>5. /\ w \in Seq(0 .. MaxSocket) /\ Len(w) = Len(q) + 1
        /\ w[Len(q) + 1] = s /\ \A i \in 1 .. Len(q) : w[i] = q[i]
    BY <1>1, <2>4
  <2>6. DOMAIN w = DOMAIN q \cup {Len(q) + 1} /\ \A i \in DOMAIN q : w[i] = q[i]
    <3>1. DOMAIN q = 1 .. Len(q) /\ DOMAIN w = 1 .. Len(q) + 1 /\ Len(q) \in Nat
      BY <1>1, <2>5
    <3>2. \A i : i \in 1 .. Len(q) + 1 <=> i \in 1 .. Len(q) \/ i = Len(q) + 1
      BY <3>1
    <3>3. 1 .. Len(q) + 1 = 1 .. Len(q) \cup {Len(q) + 1}
      BY <3>2
    <3>4. QED
      BY <2>5, <3>1, <3>3
  <2>7. Len(w) <= FD_SETSIZE
    BY <1>1, <1>3, <2>5
  <2>8. QED
    BY <2>1, <2>3, <2>4, <2>5, <2>6, <2>7 DEF ListOK
<1>4. ASSUME NEW c \in Backlog, NEW s \in SOCKET, ~IsOpen(s), Len(q) < FD_SETSIZE,
             conn' = [conn EXCEPT ![c].state = "open", ![c].sock = s],
             m_preMsgMap' = PutMsg(s, <<>>), m_clientSocketList' = Append(q, s)
      PROVE  ConnOK' /\ ListOK' /\ MapOK' /\ (ListInv => ListInv')
  <2>1. s \in 0 .. MaxSocket
    BY DEF SOCKET
  <2>2. /\ ListOK' /\ MapOK' /\ KeySet' = KeySet \cup {s}
        /\ DOMAIN m_clientSocketList' = DOMAIN q \cup {Len(q) + 1}
        /\ m_clientSocketList'[Len(q) + 1] = s
        /\ \A i \in DOMAIN q : m_clientSocketList'[i] = q[i]
    BY <1>3, <1>4, <2>1
  <2>3. /\ ConnOK' /\ conn'[c].state = "open" /\ conn'[c].sock = s
        /\ \A d \in Conns \ {c} : conn'[d] = conn[d]
    BY <1>4, AcceptFacts
  <2>4. c \in Conns /\ conn[c].state = "backlog"
    BY DEF Backlog
  <2>5. ASSUME ListInv PROVE ListInv'
    <3>1. IsOpen(s)'
      BY <2>3, <2>4 DEF IsOpen, OpenAt
    <3>2. ASSUME NEW i \in DOMAIN q, q[i] # 0
          PROVE  IsOpen(q[i])' /\ q[i] \in KeySet /\ q[i] # s
      <4>1. IsOpen(q[i]) /\ q[i] \in KeySet
        BY <1>1, <2>5, <3>2 DEF ListInv
      <4>2. PICK d \in Conns : conn[d].state = "open" /\ conn[d].sock = q[i]
        BY <4>1 DEF IsOpen, OpenAt
      <4>3. d # c
        BY <2>4, <4>2
      <4>4. IsOpen(q[i])'
        BY <2>3, <4>2, <4>3 DEF IsOpen, OpenAt
      <4>5. QED
        BY <1>4, <4>1, <4>4
    <3>3. PICK w : w = m_clientSocketList'
      OBVIOUS
    <3>4. ASSUME NEW k \in DOMAIN w, w[k] # 0 PROVE IsOpen(w[k])' /\ w[k] \in KeySet'
      BY <2>2, <3>1, <3>2, <3>3, <3>4
    <3>5. ASSUME NEW k \in DOMAIN w, NEW l \in DOMAIN w, w[k] = w[l], w[k] # 0 PROVE k = l
      BY <1>1, <2>2, <2>5, <3>2, <3>3, <3>5 DEF ListInv
    <3>6. QED
      BY <3>3, <3>4, <3>5 DEF ListInv
  <2>6. QED
    BY <2>2, <2>3, <2>5
<1>5. ASSUME conn' = conn, Len(q) < FD_SETSIZE,
             m_preMsgMap' = PutMsg(0, <<>>), m_clientSocketList' = Append(q, 0)
      PROVE  ConnOK' /\ ListOK' /\ MapOK' /\ (ListInv => ListInv')
  <2>1. /\ ListOK' /\ MapOK' /\ KeySet' = KeySet \cup {0}
        /\ DOMAIN m_clientSocketList' = DOMAIN q \cup {Len(q) + 1}
        /\ m_clientSocketList'[Len(q) + 1] = 0
        /\ \A i \in DOMAIN q : m_clientSocketList'[i] = q[i]
    <3>1. 0 \in 0 .. MaxSocket
      OBVIOUS
    <3>2. QED
      BY <1>3, <1>5, <3>1
  <2>2. ConnOK'
    BY <1>5 DEF ConnOK, OneOpen, SOCKET
  <2>3. ASSUME ListInv PROVE ListInv'
    <3>1. PICK w : w = m_clientSocketList'
      OBVIOUS
    <3>2. ASSUME NEW k \in DOMAIN w, w[k] # 0 PROVE k \in DOMAIN q /\ w[k] = q[k]
      BY <2>1, <3>1, <3>2
    <3>3. ASSUME NEW k \in DOMAIN w, w[k] # 0 PROVE IsOpen(w[k])' /\ w[k] \in KeySet'
      <4>1. IsOpen(q[k]) /\ q[k] \in KeySet
        BY <1>1, <2>3, <3>2, <3>3 DEF ListInv
      <4>2. IsOpen(q[k])'
        BY <1>5, <4>1 DEF IsOpen, OpenAt
      <4>3. QED
        BY <2>1, <3>2, <3>3, <4>1, <4>2
    <3>4. ASSUME NEW k \in DOMAIN w, NEW l \in DOMAIN w, w[k] = w[l], w[k] # 0 PROVE k = l
      BY <1>1, <2>3, <3>2, <3>4 DEF ListInv
    <3>5. QED
      BY <3>1, <3>3, <3>4 DEF ListInv
  <2>4. QED
    BY <2>1, <2>2, <2>3
<1>6. CASE /\ Len(q) < FD_SETSIZE
           /\ \E c \in Backlog, s \in {t \in SOCKET : ~IsOpen(t)} :
                  /\ conn' = [conn EXCEPT ![c].state = "open", ![c].sock = s]
                  /\ m_preMsgMap' = PutMsg(s, <<>>)
                  /\ m_clientSocketList' = Append(q, s)
  BY <1>1, <1>4, <1>6
<1>7. CASE /\ Len(q) < FD_SETSIZE /\ conn' = conn
           /\ m_preMsgMap' = PutMsg(0, <<>>) /\ m_clientSocketList' = Append(q, 0)
  BY <1>1, <1>5, <1>7
<1>8. QED
  BY <1>1, <1>2, <1>6, <1>7 DEF HandleAccept, netVars, INVALID_SOCKET

----------------------------------------------------------------------------
(* HandleThread                                                            *)

(* What SubSeq returns, inside the bounds of the sequence. *)
LEMMA SubFacts ==
    ASSUME NEW V, NEW q \in Seq(V), NEW i \in Nat, NEW j \in Nat,
           1 <= i, i <= j + 1, j <= Len(q)
    PROVE  /\ SubSeq(q, i, j) \in Seq(V)
           /\ Len(SubSeq(q, i, j)) = j - i + 1
           /\ \A k \in 1 .. j - i + 1 : SubSeq(q, i, j)[k] = q[i + k - 1]
<1>1. Len(SubSeq(q, i, j)) = j - i + 1
  OBVIOUS
<1>2. SubSeq(q, i, j) \in Seq(V)
  OBVIOUS
<1>3. \A k \in 1 .. j - i + 1 : SubSeq(q, i, j)[k] = q[i + k - 1]
  OBVIOUS
<1>4. QED
  BY <1>1, <1>2, <1>3

(* FD_CLR takes one place out of fd_array and moves the rest down. *)
LEMMA RemoveFacts ==
    ASSUME NEW V, NEW q \in Seq(V), NEW k \in DOMAIN q
    PROVE  /\ RemoveAt(q, k) \in Seq(V)
           /\ Len(RemoveAt(q, k)) = Len(q) - 1
           /\ \A l \in DOMAIN RemoveAt(q, k) :
                  RemoveAt(q, k)[l] = IF l < k THEN q[l] ELSE q[l + 1]
<1>1. k \in 1 .. Len(q) /\ Len(q) \in Nat /\ k \in Nat
  OBVIOUS
<1>2. PICK a : a = SubSeq(q, 1, k - 1)
  OBVIOUS
<1>3. PICK b : b = SubSeq(q, k + 1, Len(q))
  OBVIOUS
<1>4. a \in Seq(V) /\ Len(a) = k - 1 /\ \A l \in 1 .. k - 1 : a[l] = q[l]
  <2>1. 1 \in Nat /\ k - 1 \in Nat /\ 1 <= 1 /\ 1 <= (k - 1) + 1 /\ k - 1 <= Len(q)
    BY <1>1
  <2>2. a \in Seq(V) /\ Len(a) = (k - 1) - 1 + 1
        /\ \A l \in 1 .. (k - 1) - 1 + 1 : a[l] = q[1 + l - 1]
    BY <1>2, <2>1, SubFacts
  <2>3. (k - 1) - 1 + 1 = k - 1 /\ \A l \in 1 .. k - 1 : 1 + l - 1 = l
    BY <1>1
  <2>4. QED
    BY <2>2, <2>3
<1>5. b \in Seq(V) /\ Len(b) = Len(q) - k /\ \A l \in 1 .. Len(q) - k : b[l] = q[k + l]
  <2>1. k + 1 \in Nat /\ 1 <= k + 1 /\ k + 1 <= Len(q) + 1 /\ Len(q) <= Len(q)
    BY <1>1
  <2>2. b \in Seq(V) /\ Len(b) = Len(q) - (k + 1) + 1
        /\ \A l \in 1 .. Len(q) - (k + 1) + 1 : b[l] = q[(k + 1) + l - 1]
    BY <1>1, <1>3, <2>1, SubFacts
  <2>3. Len(q) - (k + 1) + 1 = Len(q) - k /\ \A l \in 1 .. Len(q) - k : (k + 1) + l - 1 = k + l
    BY <1>1
  <2>4. QED
    BY <2>2, <2>3
<1>6. PICK r : r = a \o b
  OBVIOUS
<1>7. /\ r \in Seq(V) /\ Len(r) = Len(a) + Len(b)
      /\ \A l \in 1 .. Len(a) + Len(b) : r[l] = IF l <= Len(a) THEN a[l] ELSE b[l - Len(a)]
  BY <1>4, <1>5, <1>6, ConcatProperties
<1>8. Len(a) + Len(b) = Len(q) - 1
  BY <1>1, <1>4, <1>5
<1>9. ASSUME NEW l \in DOMAIN r PROVE r[l] = IF l < k THEN q[l] ELSE q[l + 1]
  <2>1. l \in 1 .. Len(q) - 1
    BY <1>7, <1>8
  <2>2. CASE l < k
    <3>1. l \in 1 .. k - 1 /\ l <= Len(a)
      BY <1>1, <1>4, <2>1, <2>2
    <3>2. r[l] = a[l] /\ a[l] = q[l]
      BY <1>4, <1>7, <1>8, <2>1, <3>1
    <3>3. QED
      BY <2>2, <3>2
  <2>3. CASE ~(l < k)
    <3>1. ~(l <= Len(a)) /\ l - Len(a) \in 1 .. Len(q) - k /\ k + (l - Len(a)) = l + 1
      BY <1>1, <1>4, <2>1, <2>3
    <3>2. r[l] = b[l - Len(a)]
      BY <1>7, <1>8, <2>1, <3>1
    <3>3. b[l - Len(a)] = q[k + (l - Len(a))]
      BY <1>5, <3>1
    <3>4. QED
      BY <2>3, <3>1, <3>2, <3>3
  <2>4. QED
    BY <2>2, <2>3
<1>10. RemoveAt(q, k) = r
  BY <1>2, <1>3, <1>6 DEF RemoveAt
<1>11. QED
  BY <1>7, <1>8, <1>9, <1>10

(* Whatever FD_CLR leaves was at another place. *)
LEMMA RemoveLeaves ==
    ASSUME NEW V, NEW q \in Seq(V), NEW k \in DOMAIN q
    PROVE  /\ \A l \in DOMAIN RemoveAt(q, k) :
                  \E i \in DOMAIN q \ {k} : RemoveAt(q, k)[l] = q[i]
           /\ (\A i, j \in DOMAIN q : q[i] = q[j] => i = j)
              => \A l, m \in DOMAIN RemoveAt(q, k) :
                     RemoveAt(q, k)[l] = RemoveAt(q, k)[m] => l = m
<1>1. PICK r : r = RemoveAt(q, k)
  OBVIOUS
<1>2. /\ r \in Seq(V) /\ Len(r) = Len(q) - 1
      /\ \A l \in DOMAIN r : r[l] = IF l < k THEN q[l] ELSE q[l + 1]
  BY <1>1, RemoveFacts
<1>3. k \in 1 .. Len(q) /\ Len(q) \in Nat /\ DOMAIN q = 1 .. Len(q) /\ DOMAIN r = 1 .. Len(q) - 1
  BY <1>2
<1>4. ASSUME NEW l \in DOMAIN r
      PROVE  /\ l < k => r[l] = q[l] /\ l \in DOMAIN q \ {k}
             /\ ~(l < k) => r[l] = q[l + 1] /\ l + 1 \in DOMAIN q \ {k}
  <2>1. l \in 1 .. Len(q) - 1
    BY <1>3
  <2>2. l < k => l \in DOMAIN q \ {k}
    BY <1>3, <2>1
  <2>3. ~(l < k) => l + 1 \in DOMAIN q \ {k}
    BY <1>3, <2>1
  <2>4. QED
    BY <1>2, <2>2, <2>3
<1>5. \A l \in DOMAIN r : \E i \in DOMAIN q \ {k} : r[l] = q[i]
  BY <1>4
<1>6. ASSUME \A i, j \in DOMAIN q : q[i] = q[j] => i = j,
             NEW l \in DOMAIN r, NEW m \in DOMAIN r, r[l] = r[m]
      PROVE  l = m
  <2>1. l \in Nat /\ m \in Nat /\ k \in Nat
    BY <1>3
  <2>2. CASE l < k /\ m < k
    BY <1>4, <1>6, <2>2
  <2>3. CASE l < k /\ ~(m < k)
    <3>1. r[l] = q[l] /\ l \in DOMAIN q /\ r[m] = q[m + 1] /\ m + 1 \in DOMAIN q
      BY <1>4, <2>3
    <3>2. l = m + 1
      BY <1>6, <3>1
    <3>3. QED
      BY <2>1, <2>3, <3>2
  <2>4. CASE ~(l < k) /\ m < k
    <3>1. r[m] = q[m] /\ m \in DOMAIN q /\ r[l] = q[l + 1] /\ l + 1 \in DOMAIN q
      BY <1>4, <2>4
    <3>2. m = l + 1
      BY <1>6, <3>1
    <3>3. QED
      BY <2>1, <2>4, <3>2
  <2>5. CASE ~(l < k) /\ ~(m < k)
    <3>1. r[m] = q[m + 1] /\ m + 1 \in DOMAIN q /\ r[l] = q[l + 1] /\ l + 1 \in DOMAIN q
      BY <1>4, <2>5
    <3>2. m + 1 = l + 1
      BY <1>6, <3>1
    <3>3. QED
      BY <2>1, <3>2
  <2>6. QED
    BY <2>2, <2>3, <2>4, <2>5
<1>7. QED
  BY <1>1, <1>5, <1>6

(* The bytes of a connection from one position to another. *)
LEMMA BytesFacts ==
    ASSUME NEW c, NEW m \in Nat, NEW n \in Nat, m <= n
    PROVE  /\ Bytes(c, m, n) \in Seq({c} \X Nat)
           /\ Len(Bytes(c, m, n)) = n - m
           /\ \A k \in 1 .. n - m : Bytes(c, m, n)[k] = <<c, m + k>>
<1>1. PICK b : b = Bytes(c, m, n)
  OBVIOUS
<1>2. PICK l \in Nat : l = n - m
  OBVIOUS
<1>3. b = [k \in 1 .. l |-> <<c, m + k>>]
  BY <1>1, <1>2 DEF Bytes
<1>4. ASSUME NEW k \in 1 .. l PROVE b[k] = <<c, m + k>> /\ b[k] \in {c} \X Nat
  <2>1. b[k] = <<c, m + k>>
    BY <1>3
  <2>2. m + k \in Nat
    OBVIOUS
  <2>3. QED
    BY <2>1, <2>2
<1>5. b \in Seq({c} \X Nat) /\ Len(b) = l
  <2>1. DOMAIN b = 1 .. l /\ b = [k \in 1 .. l |-> b[k]]
    BY <1>3
  <2>2. PICK V : V = {c} \X Nat
    OBVIOUS
  <2>3. \A k \in 1 .. l : b[k] \in V
    BY <1>4, <2>2
  <2>4. b \in Seq(V) /\ Len(b) = l
    BY <1>2, <2>1, <2>3
  <2>5. QED
    BY <2>2, <2>4
<1>6. QED
  BY <1>1, <1>2, <1>4, <1>5

(* Adjacent stretches of bytes join. *)
LEMMA BytesJoin ==
    ASSUME NEW c, NEW m \in Nat, NEW n \in Nat, NEW p \in Nat, m <= n, n <= p
    PROVE  Bytes(c, m, n) \o Bytes(c, n, p) = Bytes(c, m, p)
<1>1. PICK V, a, b, d, j : /\ V = {c} \X Nat /\ a = Bytes(c, m, n) /\ b = Bytes(c, n, p)
                           /\ d = Bytes(c, m, p) /\ j = a \o b
  OBVIOUS
<1>2. a \in Seq(V) /\ Len(a) = n - m /\ \A k \in 1 .. n - m : a[k] = <<c, m + k>>
  BY <1>1, BytesFacts
<1>3. b \in Seq(V) /\ Len(b) = p - n /\ \A k \in 1 .. p - n : b[k] = <<c, n + k>>
  BY <1>1, BytesFacts
<1>4. d \in Seq(V) /\ Len(d) = p - m /\ \A k \in 1 .. p - m : d[k] = <<c, m + k>>
  <2>1. m <= p
    OBVIOUS
  <2>2. QED
    BY <1>1, <2>1, BytesFacts
<1>5. /\ j \in Seq(V) /\ Len(j) = Len(a) + Len(b)
      /\ \A k \in 1 .. Len(a) + Len(b) : j[k] = IF k <= Len(a) THEN a[k] ELSE b[k - Len(a)]
  <2>1. a \in Seq(V) /\ b \in Seq(V) /\ j = a \o b
    BY <1>1, <1>2, <1>3
  <2>2. QED
    BY <2>1, ConcatProperties
<1>6. Len(a) + Len(b) = p - m
  BY <1>2, <1>3
<1>7. ASSUME NEW k \in 1 .. p - m PROVE j[k] = d[k]
  <2>1. CASE k <= n - m
    <3>1. k \in 1 .. n - m
      BY <2>1
    <3>2. j[k] = a[k]
      BY <1>2, <1>5, <1>6, <2>1
    <3>3. QED
      BY <1>2, <1>4, <3>1, <3>2
  <2>2. CASE ~(k <= n - m)
    <3>1. k - (n - m) \in 1 .. p - n /\ n + (k - (n - m)) = m + k
      BY <2>2
    <3>2. j[k] = b[k - (n - m)]
      BY <1>2, <1>5, <1>6, <2>2
    <3>3. j[k] = <<c, n + (k - (n - m))>>
      BY <1>3, <3>1, <3>2
    <3>4. QED
      BY <1>4, <3>1, <3>3
  <2>3. QED
    BY <2>1, <2>2
<1>8. j = d
  BY <1>4, <1>5, <1>6, <1>7, SeqEqual
<1>9. QED
  BY <1>1, <1>8

(* The bytes m+1 .. n of c, cut after the first u of them, are two such stretches. *)
SplitsAt(c, m, n, u) ==
    /\ SubSeq(Bytes(c, m, n), 1, u) = Bytes(c, m, m + u)
    /\ SubSeq(Bytes(c, m, n), u + 1, n - m) = Bytes(c, m + u, n)

(* A stretch of bytes splits where the callback says. *)
LEMMA BytesSplit ==
    ASSUME NEW c, NEW m \in Nat, NEW n \in Nat, m <= n, NEW u \in 0 .. n - m
    PROVE  SplitsAt(c, m, n, u)
<1>1. PICK V, a, b, d, x, y : /\ V = {c} \X Nat /\ a = Bytes(c, m, n) /\ b = Bytes(c, m, m + u)
                              /\ d = Bytes(c, m + u, n)
                              /\ x = SubSeq(a, 1, u) /\ y = SubSeq(a, u + 1, n - m)
  OBVIOUS
<1>2. a \in Seq(V) /\ Len(a) = n - m /\ \A k \in 1 .. n - m : a[k] = <<c, m + k>>
  BY <1>1, BytesFacts
<1>3. u \in Nat /\ m + u \in Nat /\ m <= m + u /\ m + u <= n /\ (m + u) - m = u
      /\ n - (m + u) = n - m - u /\ n - m \in Nat /\ n - m - u \in Nat
  OBVIOUS
<1>4. b \in Seq(V) /\ Len(b) = u /\ \A k \in 1 .. u : b[k] = <<c, m + k>>
  <2>1. b \in Seq(V) /\ Len(b) = (m + u) - m /\ \A k \in 1 .. (m + u) - m : b[k] = <<c, m + k>>
    BY <1>1, <1>3, BytesFacts
  <2>2. QED
    BY <1>3, <2>1
<1>5. d \in Seq(V) /\ Len(d) = n - m - u /\ \A k \in 1 .. n - m - u : d[k] = <<c, (m + u) + k>>
  <2>1. d \in Seq(V) /\ Len(d) = n - (m + u)
        /\ \A k \in 1 .. n - (m + u) : d[k] = <<c, (m + u) + k>>
    BY <1>1, <1>3, BytesFacts
  <2>2. QED
    BY <1>3, <2>1
<1>6. x \in Seq(V) /\ Len(x) = u /\ \A k \in 1 .. u : x[k] = a[k]
  <2>1. 1 \in Nat /\ 1 <= 1 /\ 1 <= u + 1 /\ u <= Len(a)
    BY <1>2, <1>3
  <2>2. x \in Seq(V) /\ Len(x) = u - 1 + 1 /\ \A k \in 1 .. u - 1 + 1 : x[k] = a[1 + k - 1]
    BY <1>1, <1>2, <1>3, <2>1, SubFacts
  <2>3. u - 1 + 1 = u /\ \A k \in 1 .. u : 1 + k - 1 = k
    OBVIOUS
  <2>4. QED
    BY <2>2, <2>3
<1>7. x = b
  <2>1. ASSUME NEW k \in 1 .. u PROVE x[k] = b[k]
    <3>1. k \in 1 .. n - m
      BY <1>3
    <3>2. QED
      BY <1>2, <1>4, <1>6, <3>1
  <2>2. QED
    BY <1>4, <1>6, <2>1, SeqEqual
<1>8. y \in Seq(V) /\ Len(y) = n - m - u /\ \A k \in 1 .. n - m - u : y[k] = a[u + k]
  <2>1. u + 1 \in Nat /\ 1 <= u + 1 /\ u + 1 <= (n - m) + 1 /\ n - m <= Len(a)
    BY <1>2, <1>3
  <2>2. PICK i, e \in Nat : i = u + 1 /\ e = n - m
    BY <1>3, <2>1
  <2>3. 1 <= i /\ i <= e + 1 /\ e <= Len(a) /\ a \in Seq(V) /\ y = SubSeq(a, i, e)
    BY <1>1, <1>2, <2>1, <2>2
  <2>4. y \in Seq(V) /\ Len(y) = e - i + 1 /\ \A k \in 1 .. e - i + 1 : y[k] = a[i + k - 1]
    BY <2>3, SubFacts
  <2>5. e - i + 1 = n - m - u /\ \A k \in 1 .. n - m - u : i + k - 1 = u + k
    BY <2>2
  <2>6. QED
    BY <2>4, <2>5
<1>9. ASSUME NEW k \in 1 .. n - m - u PROVE y[k] = d[k]
  <2>1. u + k \in 1 .. n - m /\ m + (u + k) = (m + u) + k
    BY <1>3
  <2>2. y[k] = <<c, m + (u + k)>>
    BY <1>2, <1>8, <2>1
  <2>3. QED
    BY <1>5, <2>1, <2>2
<1>10. y = d
  BY <1>5, <1>8, <1>9, SeqEqual
<1>11. QED
  BY <1>1, <1>7, <1>10 DEF SplitsAt

(* recv found the connection closed: the socket is closed. *)
ReadGone(g, s) ==
    /\ CloseSocket(s) /\ FD_CLR(g)
    /\ hpc' = [hpc EXCEPT ![g] = "except"]
    /\ UNCHANGED outPut

(* recv returned the bytes of c up to n. *)
ReadSome(g, s, c, n) ==
    /\ conn' = [conn EXCEPT ![c].rcvd = n]
    /\ UNCHANGED m_clientSocketList
    /\ \/ /\ m_receiveCB
          /\ outPut' = [outPut EXCEPT ![g] = getNewDataMsg(s, Bytes(c, conn[c].rcvd, n))]
          /\ m_preMsgMap' = TakePreMsg(s)
          /\ hpc' = [hpc EXCEPT ![g] = "callback"]
          /\ UNCHANGED fdRead
       \/ /\ ~m_receiveCB /\ FD_CLR(g)
          /\ hpc' = [hpc EXCEPT ![g] = "except"]
          /\ UNCHANGED <<outPut, m_preMsgMap>>

(* What recv is called on, and its two outcomes. *)
LEMMA ReadCases ==
    ASSUME ConnOK, FrameOK, NEW g \in Handles, HandleRead(g)
    PROVE  /\ hpc[g] = "read" /\ idx[g] + 1 \in DOMAIN fdRead[g]
           /\ \E s \in 0 .. MaxSocket :
                  /\ s = fdRead[g][idx[g] + 1]
                  /\ \/ ReadGone(g, s)
                     \/ \E c \in Conns :
                            /\ conn[c].state = "open" /\ conn[c].sock = s
                            /\ \E n \in Nat : /\ conn[c].rcvd < n /\ n <= conn[c].sent
                                              /\ ReadSome(g, s, c, n)
           /\ UNCHANGED <<tvars, m_soServer, m_receiveCB, fdExcept, idx, ownerVars, processed>>
<1>1. hpc[g] = "read" /\ idx[g] < Len(fdRead[g])
      /\ UNCHANGED <<tvars, m_soServer, m_receiveCB, fdExcept, idx, ownerVars, processed>>
  BY DEF HandleRead
<1>2. PICK q, i : q = fdRead[g] /\ i = idx[g] /\ q \in Seq(0 .. MaxSocket) /\ i \in Nat
  BY DEF FrameOK
<1>3. i + 1 \in DOMAIN q
  BY <1>1, <1>2
<1>4. PICK s \in 0 .. MaxSocket : s = q[i + 1]
  <2>1. q[i + 1] \in 0 .. MaxSocket
    BY <1>2, <1>3, TcpAssumption
  <2>2. QED
    BY <2>1
<1>5. PICK c : c = ConnAt(s)
  OBVIOUS
<1>6. CASE IsOpen(s) => conn[c].peer = "rst" \/ conn[c].rcvd = conn[c].sent
  <2>1. ReadGone(g, s)
    BY <1>2, <1>4, <1>5, <1>6 DEF HandleRead, ReadGone
  <2>2. QED
    BY <1>1, <1>2, <1>3, <1>4, <2>1
<1>7. CASE ~(IsOpen(s) => conn[c].peer = "rst" \/ conn[c].rcvd = conn[c].sent)
  <2>1. c \in Conns /\ conn[c].state = "open" /\ conn[c].sock = s
    BY <1>5, <1>7, OpenConn DEF ConnOK
  <2>2. PICK n \in conn[c].rcvd + 1 .. conn[c].sent : ReadSome(g, s, c, n)
    BY <1>2, <1>4, <1>5, <1>7 DEF HandleRead, ReadSome
  <2>3. conn[c].rcvd \in Nat /\ conn[c].sent \in Nat
    BY <2>1 DEF ConnOK, Connection
  <2>4. n \in Nat /\ conn[c].rcvd < n /\ n <= conn[c].sent
    BY <2>2, <2>3
  <2>5. QED
    BY <1>1, <1>2, <1>3, <1>4, <2>1, <2>2, <2>4
<1>8. QED
  BY <1>6, <1>7

(* The sockets select reports come from the list, are open and, as those   *)
(* in the list, distinct.                                                  *)
Reported(q) ==
    /\ q \in Seq(0 .. MaxSocket)
    /\ \A k \in DOMAIN q :
           q[k] # 0 /\ \E i \in DOMAIN m_clientSocketList : q[k] = m_clientSocketList[i]
    /\ ListInv => \A k, l \in DOMAIN q : q[k] = q[l] => k = l

LEMMA FirstFacts ==
    ASSUME NEW V, NEW q \in Seq(V), NEW n \in Nat
    PROVE  /\ First(n, q) \in Seq(V)
           /\ DOMAIN First(n, q) \subseteq DOMAIN q
           /\ \A k \in DOMAIN First(n, q) : First(n, q)[k] = q[k]
<1>1. PICK m : m = IF n < Len(q) THEN n ELSE Len(q)
  OBVIOUS
<1>2. m \in Nat /\ m <= Len(q)
  BY <1>1
<1>3. PICK f : f = SubSeq(q, 1, m) /\ f = First(n, q)
  BY <1>1 DEF First
<1>4. f \in Seq(V) /\ Len(f) = m - 1 + 1 /\ \A k \in 1 .. m - 1 + 1 : f[k] = q[1 + k - 1]
  <2>1. 1 \in Nat /\ 1 <= 1 /\ 1 <= m + 1
    BY <1>2
  <2>2. QED
    BY <1>2, <1>3, <2>1, SubFacts
<1>5. m - 1 + 1 = m /\ \A k \in 1 .. m : 1 + k - 1 = k
  BY <1>2
<1>6. DOMAIN f = 1 .. m /\ DOMAIN q = 1 .. Len(q)
  BY <1>4, <1>5
<1>7. QED
  BY <1>2, <1>3, <1>4, <1>5, <1>6

LEMMA ReportedFacts ==
    ASSUME ConnOK, ListOK, ~SelectFails, NEW I \in SUBSET DOMAIN WatchedRead
    PROVE  Reported(Keep(WatchedRead, I))
<1>1. PICK q, f, r : q = m_clientSocketList /\ f = WatchedRead /\ r = Keep(f, I)
  OBVIOUS
<1>2. /\ q \in Seq(0 .. MaxSocket) /\ f \in Seq(0 .. MaxSocket)
      /\ \A k \in DOMAIN f : k \in DOMAIN q /\ f[k] = q[k]
  <2>1. FD_SETSIZE - 1 \in Nat /\ q \in Seq(0 .. MaxSocket) /\ f = First(FD_SETSIZE - 1, q)
    BY <1>1, TcpAssumption DEF ListOK, WatchedRead
  <2>2. QED
    BY <2>1, FirstFacts
<1>3. I \in SUBSET DOMAIN f
  BY <1>1
<1>4. r \in Seq(0 .. MaxSocket) /\ \A k \in DOMAIN r : \E i \in I : r[k] = f[i] /\ Rank(I, i) = k
  BY <1>1, <1>2, <1>3, KeepFacts
<1>5. ASSUME NEW i \in DOMAIN f PROVE f[i] # 0
  <2>1. f[i] \in ToSet(f)
    BY DEF ToSet
  <2>2. IsOpen(f[i])
    BY <1>1, <2>1 DEF SelectFails
  <2>3. f[i] \in SOCKET
    BY <2>2, OpenConn DEF ConnOK
  <2>4. QED
    BY <2>3, TcpAssumption DEF SOCKET
<1>6. ASSUME NEW k \in DOMAIN r
      PROVE  r[k] # 0 /\ \E i \in DOMAIN q : r[k] = q[i]
  BY <1>2, <1>3, <1>4, <1>5
<1>7. ASSUME ListInv, NEW k \in DOMAIN r, NEW l \in DOMAIN r, r[k] = r[l]
      PROVE  k = l
  <2>1. PICK i \in I : r[k] = f[i] /\ Rank(I, i) = k
    BY <1>4
  <2>2. PICK j \in I : r[l] = f[j] /\ Rank(I, j) = l
    BY <1>4
  <2>3. i \in DOMAIN q /\ j \in DOMAIN q /\ q[i] = q[j] /\ q[i] # 0
    BY <1>2, <1>3, <1>5, <1>7, <2>1, <2>2
  <2>4. i = j
    BY <1>1, <1>7, <2>3 DEF ListInv
  <2>5. QED
    BY <2>1, <2>2, <2>4
<1>8. QED
  BY <1>1, <1>4, <1>6, <1>7 DEF Reported

(* The three outcomes of select. *)
LEMMA SelectCases ==
    ASSUME ConnOK, ListOK, NEW g \in Handles, HandleSelect(g)
    PROVE  /\ hpc[g] = "out"
           /\ UNCHANGED <<netVars, srvVars, ownerVars, processed>>
           /\ \/ HandleReturn(g)
              \/ /\ hpc' = [hpc EXCEPT ![g] = "accept"]
                 /\ UNCHANGED <<tvars, fdRead, fdExcept, outPut, idx>>
                 /\ pc[Srv][g] = "call"
              \/ \E q, E :
                     /\ Reported(q)
                     /\ E \in SUBSET (0 .. MaxSocket)
                     /\ E # {} => \E c \in Conns : conn[c].urgent = TRUE
                     /\ hpc' = [hpc EXCEPT ![g] = "read"]
                     /\ fdRead' = [fdRead EXCEPT ![g] = q]
                     /\ fdExcept' = [fdExcept EXCEPT ![g] = E]
                     /\ UNCHANGED <<tvars, outPut, idx>>
                     /\ pc[Srv][g] = "call"
<1>1. hpc[g] = "out" /\ pc[Srv][g] = "call" /\ UNCHANGED <<netVars, srvVars, ownerVars, processed>>
  BY DEF HandleSelect
<1>2. PICK I, q, E : /\ I = {i \in DOMAIN WatchedRead : Readable(WatchedRead[i])}
                     /\ q = Keep(WatchedRead, I)
                     /\ E = {s \in ToSet(WatchedExcept) : conn[ConnAt(s)].urgent}
  OBVIOUS
<1>3. CASE HandleReturn(g)
  BY <1>1, <1>3
<1>4. CASE /\ hpc' = [hpc EXCEPT ![g] = "accept"]
           /\ UNCHANGED <<tvars, fdRead, fdExcept, outPut, idx>>
  BY <1>1, <1>4
<1>5. CASE /\ ~SelectFails
           /\ hpc' = [hpc EXCEPT ![g] = "read"]
           /\ fdRead' = [fdRead EXCEPT ![g] = q]
           /\ fdExcept' = [fdExcept EXCEPT ![g] = E]
           /\ UNCHANGED <<tvars, outPut, idx>>
  <2>1. Reported(q)
    BY <1>2, <1>5, ReportedFacts
  <2>2. ASSUME NEW s \in E PROVE s \in 0 .. MaxSocket /\ \E c \in Conns : conn[c].urgent = TRUE
    <3>1. s \in ToSet(WatchedExcept) /\ conn[ConnAt(s)].urgent
      BY <1>2
    <3>2. IsOpen(s)
      BY <1>5, <3>1 DEF SelectFails
    <3>3. ConnAt(s) \in Conns /\ s \in SOCKET
      BY <3>2, OpenConn DEF ConnOK
    <3>4. s \in 0 .. MaxSocket
      BY <3>3, TcpAssumption DEF SOCKET
    <3>5. conn[ConnAt(s)].urgent = TRUE
      BY <3>1, <3>3 DEF ConnOK, Connection
    <3>6. QED
      BY <3>3, <3>4, <3>5
  <2>3. E \in SUBSET (0 .. MaxSocket) /\ (E # {} => \E c \in Conns : conn[c].urgent = TRUE)
    BY <2>2
  <2>4. QED
    BY <1>1, <1>5, <2>1, <2>3
<1>6. QED
  BY <1>2, <1>3, <1>4, <1>5 DEF HandleSelect

(* The receive callback declares the first u bytes of o processed, and the *)
(* rest goes back to the leftover of s.                                    *)
Returned(g, s, o, u) ==
    /\ processed' = [processed EXCEPT ![o[Len(o)][1]] = @ \o SubSeq(o, 1, u)]
    /\ m_preMsgMap' = savePreMsg(s, SubSeq(o, u + 1, Len(o)))
    /\ outPut' = [outPut EXCEPT ![g] = <<>>]
    /\ FD_CLR(g)
    /\ hpc' = [hpc EXCEPT ![g] = "except"]

LEMMA CallbackCases ==
    ASSUME FrameOK, RoundOK, NEW g \in Handles, HandleCallback(g)
    PROVE  /\ hpc[g] = "callback" /\ idx[g] + 1 \in DOMAIN fdRead[g]
           /\ outPut[g] \in Msgs /\ Len(outPut[g]) \in Nat \ {0}
           /\ outPut[g][Len(outPut[g])][1] \in Conns
           /\ \E u \in 0 .. Len(outPut[g]) : Returned(g, fdRead[g][idx[g] + 1], outPut[g], u)
           /\ UNCHANGED <<tvars, netVars, m_soServer, m_receiveCB, m_clientSocketList,
                          fdExcept, idx, ownerVars>>
<1>1. /\ hpc[g] = "callback"
      /\ UNCHANGED <<tvars, netVars, m_soServer, m_receiveCB, m_clientSocketList,
                     fdExcept, idx, ownerVars>>
  BY DEF HandleCallback
<1>2. PICK q, i, o : q = fdRead[g] /\ i = idx[g] /\ o = outPut[g]
  OBVIOUS
<1>3. q \in Seq(0 .. MaxSocket) /\ i \in Nat /\ o \in Seq(Conns \X Nat) /\ i < Len(q) /\ o # <<>>
  BY <1>1, <1>2 DEF FrameOK, RoundOK, Msgs
<1>4. i + 1 \in DOMAIN q
  BY <1>3
<1>5. Len(o) \in Nat \ {0}
  BY <1>3, EmptySeq
<1>6. o[Len(o)] \in Conns \X Nat
  BY <1>3, <1>5
<1>7. PICK nProLen \in 0 .. Len(o) :
          /\ processed' = [processed EXCEPT ![Last(o)[1]] = @ \o SubSeq(o, 1, Len(o) - nProLen)]
          /\ m_preMsgMap' = savePreMsg(q[i + 1], SubSeq(o, (Len(o) - nProLen) + 1, Len(o)))
  BY <1>2 DEF HandleCallback
<1>8. outPut' = [outPut EXCEPT ![g] = <<>>] /\ FD_CLR(g) /\ hpc' = [hpc EXCEPT ![g] = "except"]
  BY DEF HandleCallback
<1>9. PICK u \in 0 .. Len(o) : u = Len(o) - nProLen
  BY <1>5
<1>10. Returned(g, q[i + 1], o, u)
  BY <1>7, <1>8, <1>9 DEF Returned, Last
<1>11. QED
  BY <1>1, <1>2, <1>3, <1>4, <1>5, <1>6, <1>10 DEF Msgs

----------------------------------------------------------------------------
(* The types are kept                                                      *)

DataOK == ConnOK /\ ListOK /\ MapOK /\ OwnerOK /\ FrameOK /\ RoundOK

(* The bytes of a connection are a message. *)
LEMMA BytesMsg ==
    ASSUME NEW c \in Conns, NEW m \in Nat, NEW n \in Nat, m <= n
    PROVE  Bytes(c, m, n) \in Msgs
<1>1. PICK b, V, W : b = Bytes(c, m, n) /\ V = {c} \X Nat /\ W = Conns \X Nat
  OBVIOUS
<1>2. b \in Seq(V)
  BY <1>1, BytesFacts
<1>3. V \subseteq W
  BY <1>1
<1>4. b \in Seq(W)
  BY <1>2, <1>3, SeqMonotonic
<1>5. QED
  BY <1>1, <1>4 DEF Msgs

(* fd_array after FD_CLR. *)
LEMMA ClearType ==
    ASSUME FrameOK, NEW g \in Handles, idx[g] + 1 \in DOMAIN fdRead[g], FD_CLR(g)
    PROVE  /\ fdRead' \in [Handles -> Seq(0 .. MaxSocket)]
           /\ fdRead'[g] = RemoveAt(fdRead[g], idx[g] + 1)
           /\ \A h \in Handles \ {g} : fdRead'[h] = fdRead[h]
<1>1. PICK q, i, r : q = fdRead[g] /\ i = idx[g] + 1 /\ r = RemoveAt(q, i)
  OBVIOUS
<1>2. q \in Seq(0 .. MaxSocket) /\ i \in DOMAIN q /\ fdRead \in [Handles -> Seq(0 .. MaxSocket)]
  BY <1>1 DEF FrameOK
<1>3. r \in Seq(0 .. MaxSocket)
  BY <1>1, <1>2, RemoveFacts
<1>4. fdRead' = [fdRead EXCEPT ![g] = r]
  BY <1>1 DEF FD_CLR
<1>5. QED
  BY <1>1, <1>2, <1>3, <1>4

(* HandleReturn ends the round. *)
LEMMA ReturnType ==
    ASSUME FrameOK, RoundOK, NEW g \in Handles, HandleReturn(g), UNCHANGED <<m_receiveCB, processed>>
    PROVE  FrameOK' /\ RoundOK'
<1>1. /\ hpc' = [hpc EXCEPT ![g] = "out"]
      /\ fdRead' = [fdRead EXCEPT ![g] = <<>>]
      /\ fdExcept' = [fdExcept EXCEPT ![g] = {}]
      /\ idx' = [idx EXCEPT ![g] = 0]
      /\ UNCHANGED <<outPut, m_receiveCB, processed>>
  BY DEF HandleReturn
<1>2. <<>> \in Seq(0 .. MaxSocket) /\ {} \in SUBSET (0 .. MaxSocket)
  OBVIOUS
<1>3. FrameOK'
  BY <1>1, <1>2 DEF FrameOK, Msgs
<1>4. RoundOK'
  BY <1>1 DEF RoundOK, FrameOK
<1>5. QED
  BY <1>3, <1>4

LEMMA SelectType ==
    ASSUME DataOK, NEW g \in Handles, HandleSelect(g)
    PROVE  DataOK' /\ (ListInv => ListInv')
<1>1. ConnOK /\ ListOK /\ MapOK /\ OwnerOK /\ FrameOK /\ RoundOK
  BY DEF DataOK
<1>2. hpc[g] = "out" /\ UNCHANGED <<netVars, srvVars, ownerVars, processed>>
  BY <1>1, SelectCases
<1>3. UNCHANGED <<conn, m_soServer, m_receiveCB, m_clientSocketList, m_preMsgMap, opc, oidx, processed>>
  BY <1>2 DEF netVars, srvVars, ownerVars
<1>4. ConnOK'
  BY <1>1, <1>3 DEF ConnOK, OneOpen, SOCKET
<1>5. ListOK' /\ MapOK' /\ OwnerOK'
  BY <1>1, <1>3 DEF ListOK, MapOK, OwnerOK, KeySet
<1>6. ListInv => ListInv'
  BY <1>3 DEF ListInv, KeySet, IsOpen, OpenAt
<1>7. CASE HandleReturn(g)
  BY <1>1, <1>3, <1>4, <1>5, <1>6, <1>7, ReturnType DEF DataOK
<1>8. CASE /\ hpc' = [hpc EXCEPT ![g] = "accept"]
           /\ UNCHANGED <<tvars, fdRead, fdExcept, outPut, idx>>
  <2>1. FrameOK'
    BY <1>1, <1>3, <1>8 DEF FrameOK
  <2>2. RoundOK'
    BY <1>1, <1>2, <1>3, <1>8 DEF RoundOK, FrameOK
  <2>3. QED
    BY <1>4, <1>5, <1>6, <2>1, <2>2 DEF DataOK
<1>9. ASSUME NEW q, NEW E, Reported(q), E \in SUBSET (0 .. MaxSocket),
             hpc' = [hpc EXCEPT ![g] = "read"],
             fdRead' = [fdRead EXCEPT ![g] = q],
             fdExcept' = [fdExcept EXCEPT ![g] = E],
             UNCHANGED <<tvars, outPut, idx>>
      PROVE  FrameOK' /\ RoundOK'
  <2>1. q \in Seq(0 .. MaxSocket)
    BY <1>9 DEF Reported
  <2>2. FrameOK'
    BY <1>1, <1>3, <1>9, <2>1 DEF FrameOK
  <2>3. RoundOK'
    BY <1>1, <1>2, <1>3, <1>9 DEF RoundOK, FrameOK
  <2>4. QED
    BY <2>2, <2>3
<1>10. QED
  BY <1>1, <1>4, <1>5, <1>6, <1>7, <1>8, <1>9, SelectCases DEF DataOK

LEMMA AcceptType ==
    ASSUME DataOK, NEW g \in Handles, HandleAccept(g)
    PROVE  DataOK' /\ (ListInv => ListInv')
<1>1. ConnOK /\ ListOK /\ MapOK /\ OwnerOK /\ FrameOK /\ RoundOK
  BY DEF DataOK
<1>2. HandleReturn(g) /\ UNCHANGED <<m_soServer, m_receiveCB, opc, oidx, processed>>
  BY DEF HandleAccept, ownerVars
<1>3. ConnOK' /\ ListOK' /\ MapOK' /\ (ListInv => ListInv')
  BY <1>1, AcceptStep
<1>4. OwnerOK'
  BY <1>1, <1>2 DEF OwnerOK
<1>5. FrameOK' /\ RoundOK'
  BY <1>1, <1>2, ReturnType
<1>6. QED
  BY <1>3, <1>4, <1>5 DEF DataOK

(* Changes of conn and of the map that keep what the list says. *)
LEMMA ListInvKept ==
    ASSUME UNCHANGED m_clientSocketList, KeySet' = KeySet,
           \A c \in Conns : conn'[c].state = conn[c].state /\ conn'[c].sock = conn[c].sock
    PROVE  ListInv => ListInv'
<1>1. \A s : OpenAt(s)' = OpenAt(s)
  BY DEF OpenAt
<1>2. \A s : IsOpen(s)' <=> IsOpen(s)
  BY <1>1 DEF IsOpen
<1>3. QED
  BY <1>2 DEF ListInv

(* What recv's outcome does to the map: an entry is emptied or untouched.  *)
LEMMA TakeFacts ==
    ASSUME MapOK, NEW s, m_preMsgMap' = TakePreMsg(s)
    PROVE  /\ MapOK' /\ KeySet' = KeySet
           /\ s \in KeySet => m_preMsgMap'[s] = <<>>
           /\ \A t \in KeySet \ {s} : m_preMsgMap'[t] = m_preMsgMap[t]
<1>1. CASE s \in KeySet
  <2>1. m_preMsgMap' = PutMsg(s, <<>>)
    BY <1>1 DEF TakePreMsg
  <2>2. /\ KeySet' = KeySet \cup {s} /\ m_preMsgMap'[s] = <<>>
        /\ \A t \in KeySet' \ {s} : m_preMsgMap'[t] = m_preMsgMap[t]
    BY <2>1, PutFacts
  <2>3. KeySet' = KeySet
    BY <1>1, <2>2
  <2>4. <<>> \in Msgs
    BY DEF Msgs
  <2>5. MapOK'
    BY <2>2, <2>3, <2>4 DEF MapOK, Msgs
  <2>6. QED
    BY <2>2, <2>3, <2>5
<1>2. CASE s \notin KeySet
  <2>1. m_preMsgMap' = m_preMsgMap
    BY <1>2 DEF TakePreMsg
  <2>2. QED
    BY <1>2, <2>1 DEF MapOK, KeySet, Msgs
<1>3. QED
  BY <1>1, <1>2

LEMMA SaveFacts ==
    ASSUME MapOK, NEW s, NEW msg \in Msgs, m_preMsgMap' = savePreMsg(s, msg)
    PROVE  /\ MapOK' /\ KeySet' = KeySet
           /\ s \in KeySet => m_preMsgMap'[s] = m_preMsgMap[s] \o msg
           /\ \A t \in KeySet \ {s} : m_preMsgMap'[t] = m_preMsgMap[t]
<1>1. CASE s \in KeySet
  <2>1. m_preMsgMap' = PutMsg(s, m_preMsgMap[s] \o msg)
    BY <1>1 DEF savePreMsg
  <2>2. /\ KeySet' = KeySet \cup {s} /\ m_preMsgMap'[s] = m_preMsgMap[s] \o msg
        /\ \A t \in KeySet' \ {s} : m_preMsgMap'[t] = m_preMsgMap[t]
    BY <2>1, PutFacts
  <2>3. KeySet' = KeySet
    BY <1>1, <2>2
  <2>4. m_preMsgMap[s] \o msg \in Msgs
    BY <1>1, ConcatProperties DEF MapOK, Msgs
  <2>5. MapOK'
    BY <2>2, <2>3, <2>4 DEF MapOK, Msgs
  <2>6. QED
    BY <2>2, <2>3, <2>5
<1>2. CASE s \notin KeySet
  <2>1. m_preMsgMap' = m_preMsgMap
    BY <1>2 DEF savePreMsg
  <2>2. QED
    BY <1>2, <2>1 DEF MapOK, KeySet, Msgs
<1>3. QED
  BY <1>1, <1>2

(* What getNewDataMsg hands to the callback. *)
LEMMA NewDataType ==
    ASSUME MapOK, NEW s, NEW c \in Conns, NEW m \in Nat, NEW n \in Nat, m < n
    PROVE  /\ getNewDataMsg(s, Bytes(c, m, n)) \in Msgs
           /\ getNewDataMsg(s, Bytes(c, m, n)) # <<>>
<1>1. PICK b, o : b = Bytes(c, m, n) /\ o = getNewDataMsg(s, b)
  OBVIOUS
<1>2. b \in Msgs /\ Len(b) = n - m
  <2>1. m <= n
    OBVIOUS
  <2>2. b \in Msgs
    BY <1>1, <2>1, BytesMsg
  <2>3. Len(b) = n - m
    BY <1>1, <2>1, BytesFacts
  <2>4. QED
    BY <2>2, <2>3
<1>3. CASE s \in KeySet
  <2>1. PICK p : p = m_preMsgMap[s]
    OBVIOUS
  <2>2. p \in Seq(Conns \X Nat) /\ b \in Seq(Conns \X Nat)
    BY <1>2, <1>3, <2>1 DEF MapOK, Msgs
  <2>3. o = p \o b
    BY <1>1, <1>3, <2>1 DEF getNewDataMsg
  <2>4. o \in Seq(Conns \X Nat) /\ Len(o) = Len(p) + Len(b)
    BY <2>2, <2>3, ConcatProperties
  <2>5. Len(o) # 0
    BY <1>2, <2>2, <2>4
  <2>6. QED
    BY <1>1, <2>4, <2>5 DEF Msgs
<1>4. CASE s \notin KeySet
  <2>1. o = b
    BY <1>1, <1>4 DEF getNewDataMsg
  <2>2. Len(b) # 0
    BY <1>2
  <2>3. QED
    BY <1>1, <1>2, <2>1, <2>2
<1>5. QED
  BY <1>3, <1>4

LEMMA ReadType ==
    ASSUME DataOK, NEW g \in Handles, HandleRead(g)
    PROVE  DataOK' /\ (ListInv => ListInv')
<1>1. ConnOK /\ ListOK /\ MapOK /\ OwnerOK /\ FrameOK /\ RoundOK
  BY DEF DataOK
<1>2. /\ hpc[g] = "read" /\ idx[g] + 1 \in DOMAIN fdRead[g]
      /\ UNCHANGED <<tvars, m_soServer, m_receiveCB, fdExcept, idx, ownerVars, processed>>
  BY <1>1, ReadCases
<1>3. UNCHANGED <<m_soServer, m_receiveCB, fdExcept, idx, opc, oidx, processed>>
  BY <1>2 DEF ownerVars
<1>4. OwnerOK'
  BY <1>1, <1>3 DEF OwnerOK
<1>5. ASSUME FD_CLR(g), hpc' = [hpc EXCEPT ![g] = "except"], UNCHANGED outPut
      PROVE  FrameOK' /\ RoundOK'
  <2>1. /\ fdRead' \in [Handles -> Seq(0 .. MaxSocket)]
        /\ \A h \in Handles \ {g} : fdRead'[h] = fdRead[h]
    BY <1>1, <1>2, <1>5, ClearType
  <2>2. FrameOK'
    BY <1>1, <1>3, <1>5, <2>1 DEF FrameOK
  <2>3. RoundOK'
    BY <1>1, <1>3, <1>5, <2>1 DEF RoundOK, FrameOK
  <2>4. QED
    BY <2>2, <2>3
<1>6. ASSUME NEW s, ReadGone(g, s) PROVE DataOK' /\ (ListInv => ListInv')
  <2>1. CloseSocket(s) /\ FD_CLR(g) /\ hpc' = [hpc EXCEPT ![g] = "except"] /\ UNCHANGED outPut
    BY <1>6 DEF ReadGone
  <2>2. ConnOK' /\ ListOK' /\ MapOK' /\ (ListInv => ListInv')
    BY <1>1, <2>1, CloseSocketFacts
  <2>3. QED
    BY <1>4, <1>5, <2>1, <2>2 DEF DataOK
<1>7. ASSUME NEW s, NEW c \in Conns, NEW n \in Nat, conn[c].rcvd < n, ReadSome(g, s, c, n)
      PROVE  DataOK' /\ (ListInv => ListInv')
  <2>1. conn' = [conn EXCEPT ![c].rcvd = n] /\ UNCHANGED m_clientSocketList
    BY <1>7 DEF ReadSome
  <2>2. /\ ConnOK' /\ conn'[c].state = conn[c].state /\ conn'[c].sock = conn[c].sock
        /\ \A d \in Conns \ {c} : conn'[d] = conn[d]
    BY <1>1, <2>1, RecvFacts
  <2>3. ListOK'
    BY <1>1, <2>1 DEF ListOK
  <2>4. MapOK' /\ KeySet' = KeySet
    <3>1. CASE m_preMsgMap' = TakePreMsg(s)
      BY <1>1, <3>1, TakeFacts
    <3>2. CASE UNCHANGED m_preMsgMap
      BY <1>1, <3>2 DEF MapOK, KeySet
    <3>3. QED
      BY <1>7, <3>1, <3>2 DEF ReadSome
  <2>5. ListInv => ListInv'
    BY <2>1, <2>2, <2>4, ListInvKept
  <2>6. CASE /\ m_receiveCB
             /\ outPut' = [outPut EXCEPT ![g] = getNewDataMsg(s, Bytes(c, conn[c].rcvd, n))]
             /\ hpc' = [hpc EXCEPT ![g] = "callback"]
             /\ UNCHANGED fdRead
    <3>1. conn[c].rcvd \in Nat
      BY <1>1 DEF ConnOK, Connection
    <3>2. PICK o : o = getNewDataMsg(s, Bytes(c, conn[c].rcvd, n)) /\ o \in Msgs /\ o # <<>>
      BY <1>1, <1>7, <3>1, NewDataType
    <3>3. FrameOK'
      BY <1>1, <1>3, <2>6, <3>2 DEF FrameOK
    <3>4. idx[g] < Len(fdRead[g])
      BY <1>1, <1>2 DEF FrameOK
    <3>5. RoundOK'
      BY <1>1, <1>3, <2>6, <3>2, <3>4 DEF RoundOK, FrameOK
    <3>6. QED
      BY <1>4, <2>2, <2>3, <2>4, <2>5, <3>3, <3>5 DEF DataOK
  <2>7. CASE FD_CLR(g) /\ hpc' = [hpc EXCEPT ![g] = "except"] /\ UNCHANGED outPut
    BY <1>4, <1>5, <2>2, <2>3, <2>4, <2>5, <2>7 DEF DataOK
  <2>8. QED
    BY <1>7, <2>6, <2>7 DEF ReadSome
<1>8. QED
  BY <1>1, <1>6, <1>7, ReadCases

LEMMA CallbackType ==
    ASSUME DataOK, NEW g \in Handles, HandleCallback(g)
    PROVE  DataOK' /\ (ListInv => ListInv')
<1>1. ConnOK /\ ListOK /\ MapOK /\ OwnerOK /\ FrameOK /\ RoundOK
  BY DEF DataOK
<1>2. PICK o, q : o = outPut[g] /\ q = fdRead[g][idx[g] + 1]
  OBVIOUS
<1>3. /\ idx[g] + 1 \in DOMAIN fdRead[g]
      /\ o \in Msgs /\ Len(o) \in Nat \ {0} /\ o[Len(o)][1] \in Conns
      /\ UNCHANGED <<tvars, netVars, m_soServer, m_receiveCB, m_clientSocketList,
                     fdExcept, idx, ownerVars>>
  BY <1>1, <1>2, CallbackCases
<1>4. PICK u \in 0 .. Len(o) : Returned(g, q, o, u)
  BY <1>1, <1>2, CallbackCases
<1>5. PICK c \in Conns : c = o[Len(o)][1]
  BY <1>3
<1>6. SubSeq(o, 1, u) \in Msgs /\ SubSeq(o, u + 1, Len(o)) \in Msgs
  <2>1. o \in Seq(Conns \X Nat) /\ u \in Nat /\ u <= Len(o) /\ Len(o) \in Nat /\ u + 1 \in Nat
        /\ 1 <= u + 1 /\ u + 1 <= Len(o) + 1 /\ Len(o) <= Len(o) /\ 1 <= 1 /\ 1 \in Nat
    BY <1>3 DEF Msgs
  <2>2. SubSeq(o, 1, u) \in Seq(Conns \X Nat)
    BY <2>1, SubFacts
  <2>3. SubSeq(o, u + 1, Len(o)) \in Seq(Conns \X Nat)
    BY <2>1, SubFacts
  <2>4. QED
    BY <2>2, <2>3 DEF Msgs
<1>7. MapOK' /\ KeySet' = KeySet
  BY <1>1, <1>4, <1>6, SaveFacts DEF Returned
<1>8. processed' \in [Conns -> Msgs]
  <2>1. processed[c] \in Msgs /\ processed \in [Conns -> Msgs]
    BY <1>1 DEF FrameOK
  <2>2. processed[c] \o SubSeq(o, 1, u) \in Msgs
    BY <1>6, <2>1, ConcatProperties DEF Msgs
  <2>3. processed' = [processed EXCEPT ![c] = processed[c] \o SubSeq(o, 1, u)]
    BY <1>4, <1>5, <2>1 DEF Returned
  <2>4. QED
    BY <2>1, <2>2, <2>3
<1>9. UNCHANGED <<conn, m_soServer, m_receiveCB, m_clientSocketList, fdExcept, idx, opc, oidx>>
  BY <1>3 DEF netVars, ownerVars
<1>10. ConnOK'
  BY <1>1, <1>9 DEF ConnOK, OneOpen, SOCKET
<1>11. ListOK' /\ OwnerOK'
  BY <1>1, <1>9 DEF ListOK, OwnerOK
<1>12. ListInv => ListInv'
  BY <1>7, <1>9, ListInvKept
<1>13. /\ outPut' = [outPut EXCEPT ![g] = <<>>] /\ FD_CLR(g)
       /\ hpc' = [hpc EXCEPT ![g] = "except"]
  BY <1>4 DEF Returned
<1>14. /\ fdRead' \in [Handles -> Seq(0 .. MaxSocket)]
       /\ \A h \in Handles \ {g} : fdRead'[h] = fdRead[h]
  BY <1>1, <1>3, <1>13, ClearType
<1>15. FrameOK'
  <2>1. <<>> \in Msgs
    BY DEF Msgs
  <2>2. QED
    BY <1>1, <1>8, <1>9, <1>13, <1>14, <2>1 DEF FrameOK
<1>16. RoundOK'
  BY <1>1, <1>9, <1>13, <1>14 DEF RoundOK, FrameOK
<1>17. QED
  BY <1>7, <1>10, <1>11, <1>12, <1>15, <1>16 DEF DataOK

LEMMA ExceptType ==
    ASSUME DataOK, NEW g \in Handles, HandleExcept(g)
    PROVE  DataOK' /\ (ListInv => ListInv')
<1>1. ConnOK /\ ListOK /\ MapOK /\ OwnerOK /\ FrameOK /\ RoundOK
  BY DEF DataOK
<1>2. /\ hpc' = [hpc EXCEPT ![g] = "read"] /\ idx' = [idx EXCEPT ![g] = @ + 1]
      /\ UNCHANGED <<m_soServer, m_receiveCB, fdRead, outPut, opc, oidx, processed>>
  BY DEF HandleExcept, ownerVars
<1>3. ConnOK' /\ ListOK' /\ MapOK' /\ (ListInv => ListInv')
  <2>1. CASE UNCHANGED <<conn, m_preMsgMap, m_clientSocketList>>
    <3>1. ConnOK'
      BY <1>1, <2>1 DEF ConnOK, OneOpen, SOCKET
    <3>2. ListOK' /\ MapOK'
      BY <1>1, <2>1 DEF ListOK, MapOK, KeySet
    <3>3. ListInv => ListInv'
      BY <2>1 DEF ListInv, KeySet, IsOpen, OpenAt
    <3>4. QED
      BY <3>1, <3>2, <3>3
  <2>2. ASSUME NEW s, CloseSocket(s) PROVE ConnOK' /\ ListOK' /\ MapOK' /\ (ListInv => ListInv')
    BY <1>1, <2>2, CloseSocketFacts
  <2>3. QED
    BY <2>1, <2>2 DEF HandleExcept, netVars
<1>4. fdExcept' \in [Handles -> SUBSET (0 .. MaxSocket)]
  <2>1. fdExcept \in [Handles -> SUBSET (0 .. MaxSocket)]
    BY <1>1 DEF FrameOK
  <2>2. CASE UNCHANGED fdExcept
    BY <2>1, <2>2
  <2>3. ASSUME NEW s, fdExcept' = [fdExcept EXCEPT ![g] = @ \ {s}]
        PROVE  fdExcept' \in [Handles -> SUBSET (0 .. MaxSocket)]
    BY <2>1, <2>3
  <2>4. QED
    BY <2>2, <2>3 DEF HandleExcept
<1>5. FrameOK'
  <2>1. idx' \in [Handles -> Nat]
    BY <1>1, <1>2 DEF FrameOK
  <2>2. QED
    BY <1>1, <1>2, <1>4, <2>1 DEF FrameOK
<1>6. RoundOK'
  BY <1>1, <1>2 DEF RoundOK, FrameOK
<1>7. OwnerOK'
  BY <1>1, <1>2 DEF OwnerOK
<1>8. QED
  BY <1>3, <1>5, <1>6, <1>7 DEF DataOK

LEMMA ClientType ==
    ASSUME DataOK, NEW c \in Conns, Client(c)
    PROVE  DataOK' /\ (ListInv => ListInv')
<1>1. ConnOK /\ ListOK /\ MapOK /\ OwnerOK /\ FrameOK /\ RoundOK
  BY DEF DataOK
<1>2. /\ ConnOK'
      /\ \A d \in Conns : /\ conn'[d].state = "open" <=> conn[d].state = "open"
                          /\ conn'[d].sock = conn[d].sock
      /\ UNCHANGED <<tvars, srvVars, frame, ownerVars, processed>>
  BY <1>1, ClientFacts
<1>3. UNCHANGED <<m_soServer, m_receiveCB, m_clientSocketList, m_preMsgMap,
                  hpc, fdRead, fdExcept, outPut, idx, opc, oidx, processed>>
  BY <1>2 DEF srvVars, frame, ownerVars
<1>4. ListOK' /\ MapOK' /\ OwnerOK'
  BY <1>1, <1>3 DEF ListOK, MapOK, OwnerOK, KeySet
<1>5. FrameOK' /\ RoundOK'
  BY <1>1, <1>3 DEF FrameOK, RoundOK
<1>6. ListInv => ListInv'
  <2>1. \A s : OpenAt(s)' = OpenAt(s)
    BY <1>2 DEF OpenAt
  <2>2. \A s : IsOpen(s)' <=> IsOpen(s)
    BY <2>1 DEF IsOpen
  <2>3. QED
    BY <1>3, <2>2 DEF ListInv, KeySet
<1>7. QED
  BY <1>2, <1>4, <1>5, <1>6 DEF DataOK

(* What leaves the network and the server's own data alone. *)
LEMMA IdleType ==
    ASSUME DataOK, UNCHANGED <<conn, m_receiveCB, m_clientSocketList, m_preMsgMap, processed>>,
           UNCHANGED <<hpc, fdRead, fdExcept, outPut, idx>> \/ \E g \in Handles : HandleReturn(g),
           OwnerOK'
    PROVE  DataOK' /\ (ListInv => ListInv')
<1>1. ConnOK /\ ListOK /\ MapOK /\ OwnerOK /\ FrameOK /\ RoundOK
  BY DEF DataOK
<1>2. ConnOK'
  BY <1>1 DEF ConnOK, OneOpen, SOCKET
<1>3. ListOK' /\ MapOK'
  BY <1>1 DEF ListOK, MapOK, KeySet
<1>4. ListInv => ListInv'
  BY DEF ListInv, KeySet, IsOpen, OpenAt
<1>5. FrameOK' /\ RoundOK'
  <2>1. CASE UNCHANGED <<hpc, fdRead, fdExcept, outPut, idx>>
    BY <1>1, <2>1 DEF FrameOK, RoundOK
  <2>2. QED
    BY <1>1, <2>1, ReturnType
<1>6. QED
  BY <1>2, <1>3, <1>4, <1>5 DEF DataOK

(* Every action keeps the types, and what the list says of its sockets. *)
LEMMA DataStep == DataOK /\ [ServerNext]_svars => DataOK' /\ (ListInv => ListInv')
<1> SUFFICES ASSUME DataOK, [ServerNext]_svars
             PROVE  DataOK' /\ (ListInv => ListInv')
  OBVIOUS
<1>1. ConnOK /\ ListOK /\ MapOK /\ OwnerOK
  BY DEF DataOK
<1>2. ASSUME NEW g \in Handles, HandleThread(g) PROVE DataOK' /\ (ListInv => ListInv')
  <2>1. CASE HandleDone(g)
    <3>1. HandleReturn(g) /\ UNCHANGED <<netVars, srvVars, ownerVars, processed>>
      BY <2>1 DEF HandleDone
    <3>2. OwnerOK' /\ UNCHANGED <<conn, m_receiveCB, m_clientSocketList, m_preMsgMap, processed>>
      BY <1>1, <3>1 DEF OwnerOK, netVars, srvVars, ownerVars
    <3>3. QED
      BY <3>1, <3>2, IdleType
  <2>2. QED
    BY <1>2, <2>1, SelectType, AcceptType, ReadType, CallbackType, ExceptType DEF HandleThread
<1>3. ASSUME NEW g \in Handles, ThreadProcStep(g) PROVE DataOK' /\ (ListInv => ListInv')
  <2>1. UNCHANGED <<netVars, srvVars, frame, ownerVars, processed>>
    BY <1>3 DEF ThreadProcStep
  <2>2. OwnerOK' /\ UNCHANGED <<conn, m_receiveCB, m_clientSocketList, m_preMsgMap, processed>>
        /\ UNCHANGED <<hpc, fdRead, fdExcept, outPut, idx>>
    BY <1>1, <2>1 DEF OwnerOK, netVars, srvVars, ownerVars, frame
  <2>3. QED
    BY <2>2, IdleType
<1>4. ASSUME NEW c \in Callers, OwnerStart(c) PROVE DataOK' /\ (ListInv => ListInv')
  <2>1. OwnerOK' /\ UNCHANGED <<conn, m_receiveCB, m_clientSocketList, m_preMsgMap, processed>>
        /\ UNCHANGED <<hpc, fdRead, fdExcept, outPut, idx>>
    <3>1. CASE StartServer(c)
      BY <1>1, <3>1 DEF StartServer, OwnerOK, netVars, ownerVars, frame
    <3>2. CASE StopServer(c)
      BY <1>1, <3>2 DEF StopServer, OwnerOK, netVars, srvVars, frame
    <3>3. CASE DisConnectAll
      BY <1>1, <3>3, TcpAssumption DEF DisConnectAll, OwnerOK, netVars, srvVars, frame
    <3>4. QED
      BY <1>4, <3>1, <3>2, <3>3 DEF OwnerStart
  <2>2. QED
    BY <2>1, IdleType
<1>5. ASSUME NEW c \in Callers, StopServerReturn(c) \/ DisConnectLoopEnd
      PROVE  DataOK' /\ (ListInv => ListInv')
  <2>1. OwnerOK' /\ UNCHANGED <<conn, m_receiveCB, m_clientSocketList, m_preMsgMap, processed>>
        /\ UNCHANGED <<hpc, fdRead, fdExcept, outPut, idx>>
    BY <1>1, <1>5, TcpAssumption DEF StopServerReturn, DisConnectLoopEnd, OwnerOK,
                   netVars, srvVars, ownerVars, frame
  <2>2. QED
    BY <2>1, IdleType
<1>6. CASE DisConnectStep
  <2>1. ConnOK' /\ ListOK' /\ MapOK' /\ OwnerOK' /\ (ListInv => ListInv')
    BY <1>1, <1>6, DisConnectFacts
  <2>2. UNCHANGED <<m_receiveCB, hpc, fdRead, fdExcept, outPut, idx, processed>>
    BY <1>6 DEF DisConnectStep, frame
  <2>3. FrameOK' /\ RoundOK'
    BY <2>2 DEF DataOK, FrameOK, RoundOK
  <2>4. QED
    BY <2>1, <2>3 DEF DataOK
<1>7. CASE DisConnectClear
  <2>1. /\ m_clientSocketList' = <<>> /\ opc' = "idle" /\ oidx' = 0
        /\ UNCHANGED <<conn, m_soServer, m_receiveCB, m_preMsgMap,
                       hpc, fdRead, fdExcept, outPut, idx, processed>>
    BY <1>7 DEF DisConnectClear, netVars, frame
  <2>2. ConnOK'
    BY <1>1, <2>1 DEF ConnOK, OneOpen, SOCKET
  <2>3. MapOK' /\ OwnerOK'
    BY <1>1, <2>1, TcpAssumption DEF MapOK, KeySet, OwnerOK
  <2>4. ListOK' /\ ListInv'
    <3>1. <<>> \in Seq(0 .. MaxSocket) /\ Len(<<>>) <= FD_SETSIZE /\ DOMAIN <<>> = {}
      BY TcpAssumption
    <3>2. QED
      BY <2>1, <3>1 DEF ListOK, ListInv
  <2>5. FrameOK' /\ RoundOK'
    BY <2>1 DEF DataOK, FrameOK, RoundOK
  <2>6. QED
    BY <2>2, <2>3, <2>4, <2>5 DEF DataOK
<1>8. CASE UNCHANGED svars
  <2>1. OwnerOK' /\ UNCHANGED <<conn, m_receiveCB, m_clientSocketList, m_preMsgMap, processed>>
        /\ UNCHANGED <<hpc, fdRead, fdExcept, outPut, idx>>
    BY <1>1, <1>8 DEF svars, OwnerOK, netVars, srvVars, ownerVars, frame
  <2>2. QED
    BY <2>1, IdleType
<1>9. QED
  BY <1>2, <1>3, <1>4, <1>5, <1>6, <1>7, <1>8, ClientType DEF ServerNext, OwnerContinue

(* Every action keeps the workers where they should be. *)
LEMMA PlaceStep == TypeOK /\ FrameOK /\ PlaceOK /\ [ServerNext]_svars => PlaceOK'
<1> SUFFICES ASSUME TypeOK, FrameOK, PlaceOK, [ServerNext]_svars
             PROVE  PlaceOK'
  OBVIOUS
<1> USE MaxStartsAssumption DEF Handles
<1>1. Srv \in Objects /\ created[Srv] \in 0 .. MaxStarts
      /\ pc \in [Objects -> [Handles -> PC]] /\ hpc \in [Handles -> {"out", "accept", "read", "callback", "except"}]
  BY TcpAssumption DEF TypeOK, FrameOK
<1>2. ASSUME UNCHANGED <<created, pc, hpc>> PROVE PlaceOK'
  BY <1>2 DEF PlaceOK
<1>3. ASSUME NEW g \in Handles, pc[Srv][g] # "none", UNCHANGED created,
             hpc'[g] = "out" \/ (pc[Srv][g] = "call" /\ pc'[Srv][g] = "call"),
             \A h \in Handles \ {g} : pc'[Srv][h] = pc[Srv][h] /\ hpc'[h] = hpc[h]
      PROVE  PlaceOK'
  BY <1>1, <1>3 DEF PlaceOK
<1>4. ASSUME NEW g \in Handles, ThreadProcStep(g) PROVE PlaceOK'
  <2>1. UNCHANGED hpc
    BY <1>4 DEF ThreadProcStep, frame
  <2>2. /\ pc[Srv][g] \notin {"none", "call"} /\ UNCHANGED created
        /\ \E to : pc' = [pc EXCEPT ![Srv][g] = to]
    BY <1>4 DEF ThreadProcStep, WorkerBegin, WorkerTest, WorkerWake, WorkerExit, EnterWait, Goto, handles
  <2>3. \A h \in Handles \ {g} : pc'[Srv][h] = pc[Srv][h]
    BY <1>1, <2>2
  <2>4. hpc[g] = "out"
    BY <2>2 DEF PlaceOK
  <2>5. QED
    BY <1>3, <2>1, <2>2, <2>3, <2>4
<1>5. ASSUME NEW g \in Handles, HandleReturn(g) PROVE PlaceOK'
  <2>1. /\ pc[Srv][g] = "call" /\ UNCHANGED created /\ hpc' = [hpc EXCEPT ![g] = "out"]
        /\ \E to : pc' = [pc EXCEPT ![Srv][g] = to]
    BY <1>5 DEF HandleReturn, WorkerReturn, EnterWait, Goto, handles
  <2>2. \A h \in Handles \ {g} : pc'[Srv][h] = pc[Srv][h] /\ hpc'[h] = hpc[h]
    BY <1>1, <2>1
  <2>3. QED
    BY <1>1, <1>3, <2>1, <2>2
<1>6. ASSUME NEW g \in Handles, pc[Srv][g] = "call", UNCHANGED tvars,
             NEW to, hpc' = [hpc EXCEPT ![g] = to]
      PROVE  PlaceOK'
  <2>1. UNCHANGED <<pc, created>>
    BY <1>6 DEF tvars
  <2>2. \A h \in Handles \ {g} : hpc'[h] = hpc[h]
    BY <1>1, <1>6
  <2>3. QED
    BY <1>3, <1>6, <2>1, <2>2
<1>7. ASSUME NEW g \in Handles, HandleThread(g) PROVE PlaceOK'
  <2>1. CASE HandleSelect(g)
    BY <1>5, <1>6, <2>1 DEF HandleSelect
  <2>2. CASE HandleAccept(g)
    BY <1>5, <2>2 DEF HandleAccept
  <2>3. CASE HandleDone(g)
    BY <1>5, <2>3 DEF HandleDone
  <2>4. CASE HandleRead(g)
    <3>1. pc[Srv][g] = "call"
      BY <2>4 DEF HandleRead, PlaceOK
    <3>2. UNCHANGED tvars /\ \E to : hpc' = [hpc EXCEPT ![g] = to]
      BY <2>4 DEF HandleRead
    <3>3. QED
      BY <1>6, <3>1, <3>2
  <2>5. CASE HandleCallback(g)
    <3>1. pc[Srv][g] = "call"
      BY <2>5 DEF HandleCallback, PlaceOK
    <3>2. UNCHANGED tvars /\ \E to : hpc' = [hpc EXCEPT ![g] = to]
      BY <2>5 DEF HandleCallback
    <3>3. QED
      BY <1>6, <3>1, <3>2
  <2>6. CASE HandleExcept(g)
    <3>1. pc[Srv][g] = "call"
      BY <2>6 DEF HandleExcept, PlaceOK
    <3>2. UNCHANGED tvars /\ \E to : hpc' = [hpc EXCEPT ![g] = to]
      BY <2>6 DEF HandleExcept
    <3>3. QED
      BY <1>6, <3>1, <3>2
  <2>7. QED
    BY <1>7, <2>1, <2>2, <2>3, <2>4, <2>5, <2>6 DEF HandleThread
<1>8. ASSUME NEW c \in Callers, StartServer(c) PROVE PlaceOK'
  <2>1. UNCHANGED hpc
    BY <1>8 DEF StartServer, frame
  <2>2. CASE StartRun(Srv, c, TRUE)
    <3>1. PICK n : n = created[Srv] + 1 /\ n \in Handles
      BY <1>1, <2>2 DEF StartRun
    <3>2. created'[Srv] = n /\ pc' = [pc EXCEPT ![Srv][n] = "begin"]
      BY <1>1, <2>2, <3>1 DEF StartRun, Goto, TypeOK
    <3>3. pc[Srv][n] = "none" /\ hpc[n] = "out"
      BY <1>1, <3>1 DEF PlaceOK
    <3>4. \A h \in Handles \ {n} : pc'[Srv][h] = pc[Srv][h]
      BY <1>1, <3>2
    <3>5. QED
      BY <1>1, <2>1, <3>1, <3>2, <3>3, <3>4 DEF PlaceOK
  <2>3. CASE StartRunIgnored(Srv, c, TRUE)
    BY <1>2, <2>1, <2>3 DEF StartRunIgnored
  <2>4. QED
    BY <1>8, <2>2, <2>3 DEF StartServer
<1>9. ASSUME NEW c \in Callers, StopServer(c) PROVE PlaceOK'
  BY <1>2, <1>9 DEF StopServer, StopSignal, workerVars, frame
<1>10. ASSUME NEW c \in Callers, StopServerReturn(c) PROVE PlaceOK'
  BY <1>2, <1>10 DEF StopServerReturn, StopReturn, workerVars, frame
<1>11. CASE UNCHANGED <<tvars, frame>>
  BY <1>2, <1>11 DEF tvars, frame
<1>12. ASSUME NEW c \in Conns, Client(c) PROVE UNCHANGED <<tvars, frame>>
  BY <1>12 DEF Client, ClientConnect, ClientSend, ClientUrgent, ClientAbort, ClientLeave, ClientStep
<1>13. QED
  BY <1>4, <1>7, <1>8, <1>9, <1>10, <1>11, <1>12
     DEF ServerNext, OwnerStart, OwnerContinue, DisConnectAll, DisConnectStep,
         DisConnectLoopEnd, DisConnectClear, svars

(* The types, and what the list says of its sockets, from the start. *)
LEMMA ServerInvariant == ServerSpec => [](ServerTypes /\ ListInv)
<1>1. ServerInit => ServerTypes /\ ListInv
  <2> SUFFICES ASSUME ServerInit PROVE ServerTypes /\ ListInv
    OBVIOUS
  <2> USE TcpAssumption, MaxStartsAssumption DEF Handles
  <2>1. TypeOK
    BY DEF ServerInit, ThreadInit, TypeOK, NULL, Idle, PC, Mode
  <2>2. /\ conn = [c \in Conns |-> [state |-> "new", peer |-> "up", sock |-> 0,
                                    sent |-> 0, rcvd |-> 0, urgent |-> FALSE]]
        /\ m_clientSocketList = <<>> /\ m_preMsgMap = [s \in {} |-> <<>>]
        /\ m_soServer = "none" /\ m_receiveCB \in BOOLEAN /\ opc = "idle" /\ oidx = 0
    BY DEF ServerInit
  <2>3. ConnOK
    BY <2>2 DEF ConnOK, OneOpen, Connection
  <2>4. ListOK /\ ListInv
    <3>1. <<>> \in Seq(0 .. MaxSocket) /\ Len(<<>>) <= FD_SETSIZE /\ DOMAIN <<>> = {}
      OBVIOUS
    <3>2. QED
      BY <2>2, <3>1 DEF ListOK, ListInv
  <2>5. MapOK /\ OwnerOK
    BY <2>2 DEF MapOK, KeySet, OwnerOK
  <2>6. FrameOK
    <3>1. <<>> \in Seq(0 .. MaxSocket) /\ <<>> \in Msgs /\ {} \in SUBSET (0 .. MaxSocket)
      BY DEF Msgs
    <3>2. QED
      BY <3>1 DEF ServerInit, FrameOK
  <2>7. RoundOK
    BY DEF ServerInit, RoundOK
  <2>8. PlaceOK
    BY DEF ServerInit, ThreadInit, PlaceOK
  <2>9. QED
    BY <2>1, <2>3, <2>4, <2>5, <2>6, <2>7, <2>8 DEF ServerTypes
<1>2. ServerTypes /\ ListInv /\ [ServerNext]_svars => (ServerTypes /\ ListInv)'
  <2> SUFFICES ASSUME ServerTypes, ListInv, [ServerNext]_svars PROVE (ServerTypes /\ ListInv)'
    OBVIOUS
  <2>1. TypeOK /\ FrameOK /\ PlaceOK /\ DataOK
    BY DEF ServerTypes, DataOK
  <2>2. [Next]_tvars
    BY ServerThread DEF svars
  <2>3. TypeOK'
    BY <2>1, <2>2, TypeStep
  <2>4. DataOK' /\ ListInv'
    BY <2>1, DataStep
  <2>5. PlaceOK'
    BY <2>1, PlaceStep
  <2>6. QED
    BY <2>3, <2>4, <2>5 DEF DataOK, ServerTypes
<1>3. QED
  BY <1>1, <1>2, PTL DEF ServerSpec

(* No two open connections share a socket, the list never holds more than  *)
(* FD_SETSIZE entries, so that DisConnectAll's index stays within, and a   *)
(* worker is inside HandleThread (TcpServer.cpp:212-334) only while it is  *)
(* inside the callback of ThreadProc: for any number of connections,       *)
(* sockets, workers and restarts.                                          *)
THEOREM ServerTypeCorrect == ServerSpec => []TypeOKServer
<1>1. ServerTypes => TypeOKServer
  <2> SUFFICES ASSUME ServerTypes PROVE TypeOKServer
    OBVIOUS
  <2>1. ASSUME NEW s \in SOCKET PROVE Cardinality(OpenAt(s)) <= 1
    <3>1. CASE OpenAt(s) = {}
      BY <3>1, FS_EmptySet
    <3>2. CASE OpenAt(s) # {}
      <4>1. PICK c \in Conns : conn[c].state = "open" /\ conn[c].sock = s
        BY <3>2 DEF OpenAt
      <4>2. OpenAt(s) = {c}
        BY <4>1, ConnAtOpen DEF ServerTypes, ConnOK
      <4>3. Cardinality({c}) = 1
        BY FS_Singleton
      <4>4. QED
        BY <4>2, <4>3
    <3>3. QED
      BY <3>1, <3>2
  <2>2. KeySet \subseteq 0 .. MaxSocket
    BY DEF ServerTypes, MapOK
  <2>3. QED
    BY <2>1, <2>2 DEF ServerTypes, ConnOK, ListOK, OwnerOK, FrameOK, PlaceOK, TypeOKServer, KeySet
<1>2. QED
  BY <1>1, ServerInvariant, PTL

----------------------------------------------------------------------------
(* Leftovers                                                               *)

(* Rounds of HandleThread do not overlap.  With one start they cannot; a   *)
(* restart can overlap an old worker whose callback takes longer than the  *)
(* 5 seconds StopRun waits.                                                *)
OneRound == \A g, h \in Handles : hpc[g] # "out" /\ hpc[h] # "out" => g = h

(* All bytes of a message come from the connection open at s. *)
Of(s, msg) ==
    \E c \in Conns : /\ conn[c].state = "open" /\ conn[c].sock = s
                     /\ \A k \in DOMAIN msg : msg[k][1] = c

Current(g) == fdRead[g][idx[g] + 1]

(* The leftovers belong to their sockets, and so does what a callback is   *)
(* working on, unless the socket was closed meanwhile; then its entry is   *)
(* gone and cannot come back before the round ends.                        *)
LeftInv ==
    /\ \A s \in KeySet : m_preMsgMap[s] # <<>> => Of(s, m_preMsgMap[s])
    /\ \A g \in Handles :
           hpc[g] = "callback" /\ Current(g) \in KeySet => Of(Current(g), outPut[g])

(* A connection that is not closed keeps its messages. *)
LEMMA OfKept ==
    ASSUME NEW t, NEW msg, Of(t, msg),
           \A c \in Conns : conn[c].state = "open" /\ conn[c].sock = t
               => conn'[c].state = "open" /\ conn'[c].sock = t
    PROVE  Of(t, msg)'
BY DEF Of

(* If a step leaves the messages where they are, keeps the connections at  *)
(* the sockets whose entries remain, and adds only empty entries, LeftInv  *)
(* is kept.                                                                *)
LEMMA LeftKept ==
    ASSUME LeftInv,
           \A t \in KeySet' : (t \in KeySet /\ m_preMsgMap'[t] = m_preMsgMap[t])
                                  \/ m_preMsgMap'[t] = <<>>,
           \A t \in KeySet' \cap KeySet : \A c \in Conns :
               conn[c].state = "open" /\ conn[c].sock = t
                   => conn'[c].state = "open" /\ conn'[c].sock = t,
           \A g \in Handles : hpc'[g] = "callback" =>
               /\ hpc[g] = "callback"
               /\ fdRead'[g] = fdRead[g] /\ idx'[g] = idx[g] /\ outPut'[g] = outPut[g]
               /\ Current(g) \in KeySet' => Current(g) \in KeySet
    PROVE  LeftInv'
<1>1. ASSUME NEW s \in KeySet', m_preMsgMap'[s] # <<>> PROVE Of(s, m_preMsgMap[s])'
  <2>1. PICK m : m = m_preMsgMap[s] /\ s \in KeySet /\ m_preMsgMap'[s] = m
    BY <1>1
  <2>2. Of(s, m)
    BY <1>1, <2>1 DEF LeftInv
  <2>3. Of(s, m)'
    BY <1>1, <2>1, <2>2, OfKept
  <2>4. QED
    BY <2>1, <2>3
<1>2. ASSUME NEW g \in Handles, hpc'[g] = "callback", Current(g)' \in KeySet'
      PROVE  Of(Current(g), outPut[g])'
  <2>1. PICK t, o : t = Current(g) /\ o = outPut[g]
    OBVIOUS
  <2>2. t = Current(g)' /\ o = outPut'[g] /\ hpc[g] = "callback"
    BY <1>2, <2>1 DEF Current
  <2>3. t \in KeySet' \cap KeySet
    <3>1. t \in KeySet'
      BY <1>2, <2>2
    <3>2. Current(g) \in KeySet' => Current(g) \in KeySet
      BY <1>2
    <3>3. QED
      BY <2>1, <3>1, <3>2
  <2>4. Of(t, o)
    BY <2>1, <2>2, <2>3 DEF LeftInv
  <2>5. Of(t, o)'
    BY <2>3, <2>4, OfKept
  <2>6. QED
    BY <2>2, <2>5
<1>3. QED
  BY <1>1, <1>2 DEF LeftInv

(* Closing a socket, by CloseSocket or by DisConnectAll. *)
LEMMA LeftCloses ==
    ASSUME LeftInv, NEW s, Closes(s),
           \A g \in Handles : hpc'[g] = "callback" =>
               /\ hpc[g] = "callback"
               /\ fdRead'[g] = fdRead[g] /\ idx'[g] = idx[g] /\ outPut'[g] = outPut[g]
    PROVE  LeftInv'
<1>1. /\ KeySet' = KeySet \ {s} /\ \A t \in KeySet' : m_preMsgMap'[t] = m_preMsgMap[t]
      /\ \A c \in Conns : conn'[c] = conn[c] \/ conn[c].sock = s
  BY DEF Closes
<1>2. QED
  BY <1>1, LeftKept

LEMMA LeftStep == ServerTypes /\ LeftInv /\ OneRound /\ [ServerNext]_svars => LeftInv'
<1> SUFFICES ASSUME ServerTypes, LeftInv, OneRound, [ServerNext]_svars PROVE LeftInv'
  OBVIOUS
<1>1. ConnOK /\ ListOK /\ MapOK /\ OwnerOK /\ FrameOK /\ RoundOK
  BY DEF ServerTypes
<1>2. ASSUME UNCHANGED <<conn, m_preMsgMap, outPut>>,
             \A g \in Handles : hpc'[g] = "callback" =>
                 hpc[g] = "callback" /\ fdRead'[g] = fdRead[g] /\ idx'[g] = idx[g]
      PROVE  LeftInv'
  <2>1. KeySet' = KeySet
    BY <1>2 DEF KeySet
  <2>2. QED
    BY <1>2, <2>1, LeftKept
<1>3. ASSUME NEW g \in Handles, HandleReturn(g)
      PROVE  /\ UNCHANGED outPut
             /\ \A h \in Handles : hpc'[h] = "callback" =>
                    hpc[h] = "callback" /\ fdRead'[h] = fdRead[h] /\ idx'[h] = idx[h]
  BY <1>1, <1>3 DEF HandleReturn, FrameOK
<1>4. ASSUME NEW g \in Handles, HandleSelect(g) PROVE LeftInv'
  <2>1. UNCHANGED <<conn, m_preMsgMap>>
    BY <1>1, <1>4, SelectCases DEF netVars, srvVars
  <2>2. CASE HandleReturn(g)
    BY <1>2, <1>3, <2>1, <2>2
  <2>3. CASE hpc' = [hpc EXCEPT ![g] = "accept"] /\ UNCHANGED <<fdRead, outPut, idx>>
    BY <1>1, <1>2, <2>1, <2>3 DEF FrameOK
  <2>4. ASSUME NEW q, hpc' = [hpc EXCEPT ![g] = "read"], fdRead' = [fdRead EXCEPT ![g] = q],
               UNCHANGED <<outPut, idx>>
        PROVE  LeftInv'
    BY <1>1, <1>2, <2>1, <2>4 DEF FrameOK
  <2>5. QED
    BY <1>1, <1>4, <2>2, <2>3, <2>4, SelectCases
<1>5. ASSUME NEW g \in Handles, HandleAccept(g) PROVE LeftInv'
  <2>1. HandleReturn(g) /\ hpc[g] = "accept"
    BY <1>5 DEF HandleAccept
  <2>2. \A h \in Handles : hpc'[h] # "callback"
    <3>1. \A h \in Handles \ {g} : hpc[h] = "out"
      BY <2>1 DEF OneRound
    <3>2. QED
      BY <1>1, <2>1, <3>1 DEF HandleReturn, FrameOK
  <2>3. CASE UNCHANGED <<conn, m_preMsgMap, m_clientSocketList>>
    BY <1>2, <1>3, <2>1, <2>3
  <2>4. ASSUME NEW c \in Backlog, NEW s \in SOCKET, ~IsOpen(s),
               conn' = [conn EXCEPT ![c].state = "open", ![c].sock = s],
               m_preMsgMap' = PutMsg(s, <<>>)
        PROVE  LeftInv'
    <3>1. /\ KeySet' = KeySet \cup {s} /\ m_preMsgMap'[s] = <<>>
          /\ \A t \in KeySet' \ {s} : m_preMsgMap'[t] = m_preMsgMap[t]
      BY <2>4, PutFacts
    <3>2. \A d \in Conns \ {c} : conn'[d] = conn[d]
      BY <1>1, <2>4, AcceptFacts
    <3>3. conn[c].state = "backlog"
      BY DEF Backlog
    <3>4. QED
      BY <2>2, <3>1, <3>2, <3>3, LeftKept
  <2>5. ASSUME conn' = conn, m_preMsgMap' = PutMsg(0, <<>>) PROVE LeftInv'
    <3>1. /\ KeySet' = KeySet \cup {0} /\ m_preMsgMap'[0] = <<>>
          /\ \A t \in KeySet' \ {0} : m_preMsgMap'[t] = m_preMsgMap[t]
      BY <2>5, PutFacts
    <3>2. QED
      BY <2>2, <2>5, <3>1, LeftKept
  <2>6. QED
    BY <1>1, <1>5, <2>3, <2>4, <2>5, AcceptStep
<1>6. ASSUME NEW g \in Handles, HandleRead(g) PROVE LeftInv'
  <2>1. PICK s \in 0 .. MaxSocket :
            /\ s = fdRead[g][idx[g] + 1]
            /\ \/ ReadGone(g, s)
               \/ \E c \in Conns :
                      /\ conn[c].state = "open" /\ conn[c].sock = s
                      /\ \E n \in Nat : /\ conn[c].rcvd < n /\ n <= conn[c].sent
                                        /\ ReadSome(g, s, c, n)
    BY <1>1, <1>6, ReadCases
  <2>2. UNCHANGED idx /\ idx[g] + 1 \in DOMAIN fdRead[g]
    BY <1>1, <1>6, ReadCases
  <2>3. ASSUME FD_CLR(g), hpc' = [hpc EXCEPT ![g] = "except"]
        PROVE  \A h \in Handles : hpc'[h] = "callback" =>
                   h # g /\ hpc[h] = "callback" /\ fdRead'[h] = fdRead[h] /\ idx'[h] = idx[h]
    BY <1>1, <2>2, <2>3, ClearType DEF FrameOK
  <2>4. CASE ReadGone(g, s)
    <3>1. CloseSocket(s) /\ FD_CLR(g) /\ hpc' = [hpc EXCEPT ![g] = "except"] /\ UNCHANGED outPut
      BY <2>4 DEF ReadGone
    <3>2. Closes(s)
      BY <1>1, <3>1, CloseSocketFacts
    <3>3. QED
      BY <2>3, <3>1, <3>2, LeftCloses
  <2>5. ASSUME NEW c \in Conns, conn[c].state = "open", conn[c].sock = s,
               NEW n \in Nat, conn[c].rcvd < n, ReadSome(g, s, c, n)
        PROVE  LeftInv'
    <3>1. conn' = [conn EXCEPT ![c].rcvd = n]
      BY <2>5 DEF ReadSome
    <3>2. \A d \in Conns : conn'[d].state = conn[d].state /\ conn'[d].sock = conn[d].sock
      BY <1>1, <3>1, RecvFacts
    <3>3. CASE FD_CLR(g) /\ hpc' = [hpc EXCEPT ![g] = "except"] /\ UNCHANGED <<outPut, m_preMsgMap>>
      <4>1. KeySet' = KeySet
        BY <3>3 DEF KeySet
      <4>2. QED
        BY <2>3, <3>2, <3>3, <4>1, LeftKept
    <3>4. CASE /\ outPut' = [outPut EXCEPT ![g] = getNewDataMsg(s, Bytes(c, conn[c].rcvd, n))]
               /\ m_preMsgMap' = TakePreMsg(s)
               /\ hpc' = [hpc EXCEPT ![g] = "callback"]
               /\ UNCHANGED fdRead
      <4>1. /\ KeySet' = KeySet
            /\ s \in KeySet => m_preMsgMap'[s] = <<>>
            /\ \A t \in KeySet \ {s} : m_preMsgMap'[t] = m_preMsgMap[t]
        BY <1>1, <3>4, TakeFacts
      <4>2. ASSUME NEW t \in KeySet', m_preMsgMap'[t] # <<>> PROVE Of(t, m_preMsgMap[t])'
        <5>1. PICK m : m = m_preMsgMap[t] /\ m_preMsgMap'[t] = m /\ t \in KeySet
          BY <4>1, <4>2
        <5>2. Of(t, m)
          BY <4>2, <5>1 DEF LeftInv
        <5>3. Of(t, m)'
          BY <3>2, <5>2, OfKept
        <5>4. QED
          BY <5>1, <5>3
      <4>3. ASSUME NEW h \in Handles, hpc'[h] = "callback", Current(h)' \in KeySet'
            PROVE  Of(Current(h), outPut[h])'
        <5>1. Current(h)' = Current(h)
          BY <2>2, <3>4 DEF Current
        <5>2. CASE h # g
          <6>1. PICK t, o : t = Current(h) /\ o = outPut[h]
            OBVIOUS
          <6>2. hpc[h] = "callback" /\ outPut'[h] = o
            BY <1>1, <3>4, <4>3, <5>2, <6>1 DEF FrameOK
          <6>3. Of(t, o)
            BY <4>1, <4>3, <5>1, <6>1, <6>2 DEF LeftInv
          <6>4. Of(t, o)'
            BY <3>2, <6>3, OfKept
          <6>5. QED
            BY <5>1, <6>1, <6>2, <6>4
        <5>3. CASE h = g
          <6>1. Current(h) = s /\ s \in KeySet
            BY <2>1, <4>1, <4>3, <5>1, <5>3 DEF Current
          <6>2. PICK p, b, o : p = m_preMsgMap[s] /\ b = Bytes(c, conn[c].rcvd, n) /\ o = p \o b
            OBVIOUS
          <6>3. outPut'[h] = o
            BY <1>1, <3>4, <5>3, <6>1, <6>2 DEF getNewDataMsg, FrameOK
          <6>4. PICK r \in Nat : r = conn[c].rcvd /\ r <= n
            BY <1>1, <2>5 DEF ConnOK, Connection
          <6>5. b \in Msgs /\ Len(b) = n - r /\ \A k \in 1 .. n - r : b[k] = <<c, r + k>>
            BY <6>2, <6>4, BytesMsg, BytesFacts
          <6>6. p \in Seq(Conns \X Nat) /\ b \in Seq(Conns \X Nat)
            BY <1>1, <6>1, <6>2, <6>5 DEF MapOK, Msgs
          <6>7. /\ o \in Seq(Conns \X Nat) /\ Len(o) = Len(p) + Len(b)
                /\ \A k \in 1 .. Len(p) + Len(b) : o[k] = IF k <= Len(p) THEN p[k] ELSE b[k - Len(p)]
            BY <6>2, <6>6, ConcatProperties
          <6>8. ASSUME NEW k \in 1 .. Len(p) PROVE p[k][1] = c
            <7>1. p # <<>> /\ k \in DOMAIN p
              BY <6>6
            <7>2. PICK d \in Conns : /\ conn[d].state = "open" /\ conn[d].sock = s
                                     /\ \A l \in DOMAIN p : p[l][1] = d
              BY <6>1, <6>2, <7>1 DEF LeftInv, Of
            <7>3. d = c
              BY <1>1, <2>5, <7>2 DEF ConnOK, OneOpen
            <7>4. QED
              BY <7>1, <7>2, <7>3
          <6>9. ASSUME NEW k \in DOMAIN o PROVE o[k][1] = c
            <7>1. k \in 1 .. Len(p) + Len(b) /\ Len(p) \in Nat /\ Len(b) \in Nat
              BY <6>6, <6>7
            <7>2. CASE k <= Len(p)
              <8>1. o[k] = p[k] /\ k \in 1 .. Len(p)
                BY <6>7, <7>1, <7>2
              <8>2. QED
                BY <6>8, <8>1
            <7>3. CASE ~(k <= Len(p))
              <8>1. k - Len(p) \in 1 .. n - r
                BY <6>5, <7>1, <7>3
              <8>2. o[k] = <<c, r + (k - Len(p))>>
                BY <6>5, <6>7, <7>1, <7>3, <8>1
              <8>3. QED
                BY <8>2
            <7>4. QED
              BY <7>2, <7>3
          <6>10. Of(s, o)
            BY <2>5, <6>9 DEF Of
          <6>11. Of(s, o)'
            BY <3>2, <6>10, OfKept
          <6>12. QED
            BY <5>1, <6>1, <6>3, <6>11
        <5>4. QED
          BY <5>2, <5>3
      <4>4. QED
        BY <4>2, <4>3 DEF LeftInv
    <3>5. QED
      BY <2>5, <3>3, <3>4 DEF ReadSome
  <2>6. QED
    BY <2>1, <2>4, <2>5
<1>7. ASSUME NEW g \in Handles, HandleCallback(g) PROVE LeftInv'
  <2>1. PICK o, s : o = outPut[g] /\ s = fdRead[g][idx[g] + 1]
    OBVIOUS
  <2>2. /\ hpc[g] = "callback" /\ idx[g] + 1 \in DOMAIN fdRead[g]
        /\ o \in Seq(Conns \X Nat) /\ UNCHANGED <<conn, idx>>
    BY <1>1, <1>7, <2>1, CallbackCases DEF netVars, Msgs
  <2>3. PICK u \in 0 .. Len(o) : Returned(g, s, o, u)
    BY <1>1, <1>7, <2>1, CallbackCases
  <2>4. PICK z : z = SubSeq(o, u + 1, Len(o))
    OBVIOUS
  <2>5. z \in Seq(Conns \X Nat) /\ \A k \in DOMAIN z : \E l \in DOMAIN o : z[k] = o[l]
    <3>1. u \in Nat /\ Len(o) \in Nat /\ u + 1 \in Nat /\ 1 <= u + 1 /\ u + 1 <= Len(o) + 1 /\ Len(o) <= Len(o)
      BY <2>2
    <3>2. z \in Seq(Conns \X Nat) /\ Len(z) = Len(o) - (u + 1) + 1
          /\ \A k \in 1 .. Len(o) - (u + 1) + 1 : z[k] = o[(u + 1) + k - 1]
      BY <2>2, <2>4, <3>1, SubFacts
    <3>3. DOMAIN z = 1 .. Len(o) - (u + 1) + 1
      BY <3>2
    <3>4. ASSUME NEW k \in DOMAIN z PROVE \E l \in DOMAIN o : z[k] = o[l]
      <4>1. (u + 1) + k - 1 \in DOMAIN o
        BY <2>2, <3>1, <3>3
      <4>2. QED
        BY <3>2, <3>3, <4>1
    <3>5. QED
      BY <3>2, <3>4
  <2>6. /\ KeySet' = KeySet
        /\ s \in KeySet => m_preMsgMap'[s] = m_preMsgMap[s] \o z
        /\ \A t \in KeySet \ {s} : m_preMsgMap'[t] = m_preMsgMap[t]
    BY <1>1, <2>3, <2>4, <2>5, SaveFacts DEF Returned, Msgs
  <2>7. \A h \in Handles : hpc'[h] # "callback"
    <3>1. \A h \in Handles \ {g} : hpc[h] = "out"
      BY <2>2 DEF OneRound
    <3>2. QED
      BY <1>1, <2>3, <3>1 DEF Returned, FrameOK
  <2>8. ASSUME NEW t \in KeySet', m_preMsgMap'[t] # <<>> PROVE Of(t, m_preMsgMap[t])'
    <3>1. CASE t # s
      <4>1. PICK m : m = m_preMsgMap[t] /\ m_preMsgMap'[t] = m /\ t \in KeySet
        BY <2>6, <2>8, <3>1
      <4>2. Of(t, m)
        BY <2>8, <4>1 DEF LeftInv
      <4>3. Of(t, m)'
        BY <2>2, <4>2, OfKept
      <4>4. QED
        BY <4>1, <4>3
    <3>2. CASE t = s
      <4>1. PICK p, w : p = m_preMsgMap[s] /\ w = p \o z
        OBVIOUS
      <4>2. s \in KeySet /\ m_preMsgMap'[s] = w
        BY <2>6, <2>8, <3>2, <4>1
      <4>3. PICK c \in Conns : /\ conn[c].state = "open" /\ conn[c].sock = s
                               /\ \A k \in DOMAIN o : o[k][1] = c
        BY <2>1, <2>2, <4>2 DEF LeftInv, Of, Current
      <4>4. p \in Seq(Conns \X Nat)
        BY <1>1, <4>1, <4>2 DEF MapOK, Msgs
      <4>5. ASSUME NEW k \in 1 .. Len(p) PROVE p[k][1] = c
        <5>1. p # <<>> /\ k \in DOMAIN p
          BY <4>4
        <5>2. PICK d \in Conns : /\ conn[d].state = "open" /\ conn[d].sock = s
                                 /\ \A l \in DOMAIN p : p[l][1] = d
          BY <4>1, <4>2, <5>1 DEF LeftInv, Of
        <5>3. d = c
          BY <1>1, <4>3, <5>2 DEF ConnOK, OneOpen
        <5>4. QED
          BY <5>1, <5>2, <5>3
      <4>6. /\ w \in Seq(Conns \X Nat) /\ Len(w) = Len(p) + Len(z)
            /\ \A k \in 1 .. Len(p) + Len(z) : w[k] = IF k <= Len(p) THEN p[k] ELSE z[k - Len(p)]
        BY <2>5, <4>1, <4>4, ConcatProperties
      <4>7. ASSUME NEW k \in DOMAIN w PROVE w[k][1] = c
        <5>1. k \in 1 .. Len(p) + Len(z) /\ Len(p) \in Nat /\ Len(z) \in Nat
          BY <2>5, <4>4, <4>6
        <5>2. CASE k <= Len(p)
          <6>1. w[k] = p[k] /\ k \in 1 .. Len(p)
            BY <4>6, <5>1, <5>2
          <6>2. QED
            BY <4>5, <6>1
        <5>3. CASE ~(k <= Len(p))
          <6>1. k - Len(p) \in DOMAIN z
            BY <2>5, <5>1, <5>3
          <6>2. PICK l \in DOMAIN o : z[k - Len(p)] = o[l]
            BY <2>5, <6>1
          <6>3. QED
            BY <4>3, <4>6, <5>1, <5>3, <6>2
        <5>4. QED
          BY <5>2, <5>3
      <4>8. Of(s, w)
        BY <4>3, <4>7 DEF Of
      <4>9. Of(s, w)'
        BY <2>2, <4>8, OfKept
      <4>10. QED
        BY <3>2, <4>2, <4>9
    <3>3. QED
      BY <3>1, <3>2
  <2>9. QED
    BY <2>7, <2>8 DEF LeftInv
<1>8. ASSUME NEW g \in Handles, HandleExcept(g) PROVE LeftInv'
  <2>1. /\ hpc' = [hpc EXCEPT ![g] = "read"] /\ idx' = [idx EXCEPT ![g] = @ + 1]
        /\ UNCHANGED <<fdRead, outPut>>
    BY <1>8 DEF HandleExcept
  <2>2. \A h \in Handles : hpc'[h] = "callback" =>
            hpc[h] = "callback" /\ fdRead'[h] = fdRead[h] /\ idx'[h] = idx[h] /\ outPut'[h] = outPut[h]
    BY <1>1, <2>1 DEF FrameOK
  <2>3. CASE UNCHANGED <<conn, m_preMsgMap>>
    BY <1>2, <2>1, <2>2, <2>3
  <2>4. ASSUME NEW s, CloseSocket(s) PROVE LeftInv'
    <3>1. Closes(s)
      BY <1>1, <2>4, CloseSocketFacts
    <3>2. QED
      BY <2>2, <3>1, LeftCloses
  <2>5. QED
    BY <1>8, <2>3, <2>4 DEF HandleExcept, netVars
<1>9. ASSUME NEW g \in Handles, HandleDone(g) PROVE LeftInv'
  BY <1>2, <1>3, <1>9 DEF HandleDone, netVars, srvVars
<1>10. CASE UNCHANGED <<conn, m_preMsgMap, frame>>
  BY <1>2, <1>10 DEF frame
<1>11. CASE DisConnectStep
  <2>1. UNCHANGED <<hpc, fdRead, idx, outPut>>
    BY <1>11 DEF DisConnectStep, frame
  <2>2. PICK s : Closes(s)
    BY <1>1, <1>11, DisConnectFacts
  <2>3. QED
    BY <2>1, <2>2, LeftCloses
<1>12. ASSUME NEW c \in Conns, Client(c) PROVE LeftInv'
  <2>1. /\ \A d \in Conns : /\ conn'[d].state = "open" <=> conn[d].state = "open"
                            /\ conn'[d].sock = conn[d].sock
        /\ UNCHANGED <<m_preMsgMap, hpc, fdRead, idx, outPut>>
    BY <1>1, <1>12, ClientFacts DEF srvVars, frame
  <2>2. KeySet' = KeySet
    BY <2>1 DEF KeySet
  <2>3. QED
    BY <2>1, <2>2, LeftKept
<1>13. ASSUME NEW g \in Handles, ThreadProcStep(g) PROVE UNCHANGED <<conn, m_preMsgMap, frame>>
  BY <1>13 DEF ThreadProcStep, netVars, srvVars
<1>14. ASSUME NEW c \in Callers, OwnerStart(c) PROVE UNCHANGED <<conn, m_preMsgMap, frame>>
  BY <1>14 DEF OwnerStart, StartServer, StopServer, DisConnectAll, netVars, srvVars
<1>15. ASSUME NEW c \in Callers, StopServerReturn(c) \/ DisConnectLoopEnd \/ DisConnectClear
       PROVE  UNCHANGED <<conn, m_preMsgMap, frame>>
  BY <1>15 DEF StopServerReturn, DisConnectLoopEnd, DisConnectClear, netVars, srvVars
<1>16. CASE UNCHANGED svars
  BY <1>10, <1>16 DEF svars, netVars, srvVars
<1>17. QED
  BY <1>4, <1>5, <1>6, <1>7, <1>8, <1>9, <1>10, <1>11, <1>12, <1>13, <1>14, <1>15, <1>16
     DEF ServerNext, HandleThread, OwnerContinue

(* A leftover (m_preMsgMap, TcpServer.cpp:354-464) belongs to the          *)
(* connection that is open at its socket, so that a client that is given   *)
(* the number of a closed socket never has the bytes of another put in     *)
(* front of its own.  For any number of restarts, as long as no two rounds *)
(* of HandleThread overlap.                                                *)
THEOREM OwnedWhileOneRound == ServerSpec /\ []OneRound => []LeftoverOwned
<1>1. ServerInit => LeftInv
  BY DEF ServerInit, LeftInv, KeySet
<1>2. ServerTypes /\ LeftInv => LeftoverOwned
  <2> SUFFICES ASSUME ServerTypes, LeftInv, NEW s \in KeySet, m_preMsgMap[s] # <<>>
               PROVE  IsOpen(s) /\ \A b \in ToSet(m_preMsgMap[s]) : b[1] = ConnAt(s)
    BY DEF LeftoverOwned
  <2>1. PICK c \in Conns : /\ conn[c].state = "open" /\ conn[c].sock = s
                           /\ \A k \in DOMAIN m_preMsgMap[s] : m_preMsgMap[s][k][1] = c
    BY DEF LeftInv, Of
  <2>2. IsOpen(s) /\ ConnAt(s) = c
    BY <2>1, ConnAtOpen DEF ServerTypes, ConnOK
  <2>3. QED
    BY <2>1, <2>2 DEF ToSet
<1>3. QED
  BY <1>1, <1>2, LeftStep, ServerInvariant, PTL DEF ServerSpec

(* A server that is started once has one worker. *)
LEMMA OneStart == ASSUME MaxStarts = 1 PROVE OneRound
BY DEF OneRound, Handles

(* The same, for a server that is started once and stopped at any time,    *)
(* without a condition on its behaviour.                                   *)
THEOREM Owned == ASSUME MaxStarts = 1 PROVE ServerSpec => []LeftoverOwned
<1>1. OneRound
  BY OneStart
<1>2. QED
  BY <1>1, OwnedWhileOneRound, PTL

----------------------------------------------------------------------------
(* The stream                                                              *)

Done(c) == Len(processed[c])

(* No place of fd_array repeats another, and an open socket in it has an   *)
(* entry in the map.                                                       *)
ReadsInv ==
    \A g \in Handles :
        /\ \A k, l \in DOMAIN fdRead[g] : fdRead[g][k] = fdRead[g][l] => k = l
        /\ \A k \in DOMAIN fdRead[g] : IsOpen(fdRead[g][k]) => fdRead[g][k] \in KeySet

(* Nothing was read or processed of a connection before it is accepted. *)
FreshInv ==
    \A c \in Conns :
        conn[c].state \in {"new", "backlog"} => processed[c] = <<>> /\ conn[c].rcvd = 0

Busy(s) == \E g \in Handles : hpc[g] = "callback" /\ Current(g) = s

(* The leftover of a socket is what was read and is not yet processed. *)
RestInv ==
    \A c \in Conns :
        m_receiveCB /\ conn[c].state = "open" /\ conn[c].sock \in KeySet /\ ~Busy(conn[c].sock) =>
            /\ Done(c) <= conn[c].rcvd /\ conn[c].rcvd <= conn[c].sent
            /\ m_preMsgMap[conn[c].sock] = Bytes(c, Done(c), conn[c].rcvd)

(* A callback works on the bytes of one connection after the processed     *)
(* ones; either its socket still has its (empty) entry and the connection  *)
(* is open there, or the connection is closed.                             *)
WorksOn(g, c) ==
    /\ conn[c].state \in {"open", "closed"}
    /\ conn[c].state = "open" => conn[c].sock = Current(g) /\ Current(g) \in KeySet
    /\ \E n \in Done(c) + 1 .. conn[c].sent :
           /\ outPut[g] = Bytes(c, Done(c), n)
           /\ Current(g) \in KeySet =>
                  /\ conn[c].state = "open" /\ conn[c].rcvd = n
                  /\ m_preMsgMap[Current(g)] = <<>>

WorkInv == \A g \in Handles : hpc[g] = "callback" => \E c \in Conns : WorksOn(g, c)

(* Without urgent data nothing is ever in the exception set. *)
CalmInv ==
    UrgentConns = {} => /\ \A c \in Conns : ~conn[c].urgent
                        /\ \A g \in Handles : fdExcept[g] = {}

StreamInv == ReadsInv /\ FreshInv /\ RestInv /\ WorkInv /\ CalmInv

(* No urgent data arrives, or no connection is forgotten. *)
Calm == UrgentConns = {} \/ NoneForgotten

LEMMA CalmStep == ServerTypes /\ CalmInv /\ [ServerNext]_svars => CalmInv'
<1> SUFFICES ASSUME ServerTypes, CalmInv, [ServerNext]_svars, UrgentConns = {}
             PROVE  /\ \A c \in Conns : ~conn'[c].urgent
                    /\ \A g \in Handles : fdExcept'[g] = {}
  BY DEF CalmInv
<1>1. ConnOK /\ ListOK /\ MapOK /\ OwnerOK /\ FrameOK /\ RoundOK
  BY DEF ServerTypes
<1>2. (\A c \in Conns : ~conn[c].urgent) /\ \A g \in Handles : fdExcept[g] = {}
  BY DEF CalmInv
<1>3. ASSUME NEW s, Closes(s) PROVE \A c \in Conns : ~conn'[c].urgent
  BY <1>2, <1>3 DEF Closes
<1>4. ASSUME NEW g \in Handles, HandleReturn(g) PROVE \A h \in Handles : fdExcept'[h] = {}
  BY <1>1, <1>2, <1>4 DEF HandleReturn, FrameOK
<1>5. CASE \E g \in Handles : HandleSelect(g)
  <2>1. PICK g \in Handles : HandleSelect(g)
    BY <1>5
  <2>2. UNCHANGED conn
    BY <1>1, <2>1, SelectCases DEF netVars
  <2>3. \A h \in Handles : fdExcept'[h] = {}
    <3>1. CASE HandleReturn(g)
      BY <1>4, <3>1
    <3>2. CASE UNCHANGED fdExcept
      BY <1>2, <3>2
    <3>3. ASSUME NEW E, E # {} => \E c \in Conns : conn[c].urgent = TRUE,
                 fdExcept' = [fdExcept EXCEPT ![g] = E]
          PROVE  \A h \in Handles : fdExcept'[h] = {}
      <4>1. E = {}
        BY <1>2, <3>3
      <4>2. QED
        BY <1>1, <1>2, <3>3, <4>1 DEF FrameOK
    <3>4. QED
      BY <1>1, <2>1, <3>1, <3>2, <3>3, SelectCases
  <2>4. QED
    BY <1>2, <2>2, <2>3
<1>6. CASE \E g \in Handles : HandleAccept(g)
  <2>1. PICK g \in Handles : HandleAccept(g)
    BY <1>6
  <2>2. \A h \in Handles : fdExcept'[h] = {}
    BY <1>4, <2>1 DEF HandleAccept
  <2>3. ASSUME NEW c \in Backlog, NEW s \in SOCKET, ~IsOpen(s),
               conn' = [conn EXCEPT ![c].state = "open", ![c].sock = s]
        PROVE  \A d \in Conns : ~conn'[d].urgent
    BY <1>1, <1>2, <2>3, AcceptFacts
  <2>4. QED
    BY <1>1, <1>2, <2>1, <2>2, <2>3, AcceptStep
<1>7. CASE \E g \in Handles : HandleRead(g)
  <2>1. PICK g \in Handles : HandleRead(g)
    BY <1>7
  <2>2. UNCHANGED fdExcept
    BY <1>1, <2>1, ReadCases
  <2>3. ASSUME NEW s, ReadGone(g, s) PROVE \A d \in Conns : ~conn'[d].urgent
    BY <1>1, <1>3, <2>3, CloseSocketFacts DEF ReadGone
  <2>4. ASSUME NEW s, NEW c \in Conns, NEW n \in Nat, ReadSome(g, s, c, n)
        PROVE  \A d \in Conns : ~conn'[d].urgent
    BY <1>1, <1>2, <2>4, RecvFacts DEF ReadSome
  <2>5. QED
    BY <1>1, <1>2, <2>1, <2>2, <2>3, <2>4, ReadCases
<1>8. CASE \E g \in Handles : HandleCallback(g)
  BY <1>2, <1>8 DEF HandleCallback, netVars
<1>9. CASE \E g \in Handles : HandleExcept(g)
  BY <1>2, <1>9 DEF HandleExcept, netVars
<1>10. CASE \E g \in Handles : HandleDone(g)
  BY <1>2, <1>4, <1>10 DEF HandleDone, netVars
<1>11. CASE DisConnectStep
  <2>1. UNCHANGED fdExcept
    BY <1>11 DEF DisConnectStep, frame
  <2>2. QED
    BY <1>1, <1>2, <1>3, <1>11, <2>1, DisConnectFacts
<1>12. CASE \E c \in Conns : Client(c)
  <2>1. PICK c \in Conns : Client(c)
    BY <1>12
  <2>2. UNCHANGED fdExcept
    BY <1>1, <2>1, ClientFacts DEF frame
  <2>3. \A d \in Conns : conn'[d].urgent => conn[d].urgent \/ c \in UrgentConns
    BY <1>1, <2>1, ClientFacts
  <2>4. QED
    BY <1>2, <2>2, <2>3
<1>13. CASE UNCHANGED <<conn, fdExcept>>
  BY <1>2, <1>13
<1>14. ASSUME NEW g \in Handles, ThreadProcStep(g) PROVE UNCHANGED <<conn, fdExcept>>
  BY <1>14 DEF ThreadProcStep, netVars, frame
<1>15. ASSUME NEW c \in Callers, OwnerStart(c) PROVE UNCHANGED <<conn, fdExcept>>
  BY <1>15 DEF OwnerStart, StartServer, StopServer, DisConnectAll, netVars, frame
<1>16. ASSUME NEW c \in Callers, StopServerReturn(c) \/ DisConnectLoopEnd \/ DisConnectClear
       PROVE  UNCHANGED <<conn, fdExcept>>
  BY <1>16 DEF StopServerReturn, DisConnectLoopEnd, DisConnectClear, netVars, frame
<1>17. CASE UNCHANGED svars
  BY <1>13, <1>17 DEF svars, netVars, frame
<1>18. QED
  BY <1>5, <1>6, <1>7, <1>8, <1>9, <1>10, <1>11, <1>12, <1>13, <1>14, <1>15, <1>16, <1>17
     DEF ServerNext, HandleThread, OwnerContinue

(* The sockets to read stay right when no place is added to an fd_array    *)
(* and open sockets keep their entries.                                    *)
LEMMA ReadsKept ==
    ASSUME ReadsInv,
           \A g \in Handles : fdRead'[g] = fdRead[g] \/ fdRead'[g] = <<>>,
           \A t : IsOpen(t)' /\ (IsOpen(t) => t \in KeySet) => t \in KeySet'
    PROVE  ReadsInv'
<1>1. ASSUME NEW g \in Handles
      PROVE  /\ \A k, l \in DOMAIN fdRead'[g] : fdRead'[g][k] = fdRead'[g][l] => k = l
             /\ \A k \in DOMAIN fdRead'[g] : IsOpen(fdRead[g][k])' => fdRead'[g][k] \in KeySet'
  <2>1. CASE fdRead'[g] = <<>>
    BY <2>1
  <2>2. CASE fdRead'[g] = fdRead[g]
    <3>1. \A k, l \in DOMAIN fdRead'[g] : fdRead'[g][k] = fdRead'[g][l] => k = l
      BY <2>2 DEF ReadsInv
    <3>2. ASSUME NEW k \in DOMAIN fdRead'[g], IsOpen(fdRead[g][k])'
          PROVE  fdRead'[g][k] \in KeySet'
      <4>1. PICK t : t = fdRead'[g][k] /\ t = fdRead[g][k] /\ k \in DOMAIN fdRead[g]
        BY <2>2, <3>2
      <4>2. IsOpen(t)'
        BY <3>2, <4>1
      <4>3. IsOpen(t) => t \in KeySet
        BY <4>1 DEF ReadsInv
      <4>4. QED
        BY <4>1, <4>2, <4>3
    <3>3. QED
      BY <3>1, <3>2
  <2>3. QED
    BY <2>1, <2>2
<1>2. QED
  BY <1>1 DEF ReadsInv

(* The steps that neither read nor process: no connection is opened, the   *)
(* leftovers that remain are unchanged and those of open sockets remain    *)
(* while a callback is active.                                             *)
LEMMA StreamKept ==
    ASSUME ConnOK, ConnOK', FrameOK, FreshInv, RestInv, WorkInv,
           \A c \in Conns :
               /\ conn'[c].state = "open" =>
                      /\ conn[c].state = "open" /\ conn'[c].sock = conn[c].sock
                      /\ conn'[c].rcvd = conn[c].rcvd
               /\ conn'[c].state \in {"new", "backlog"} =>
                      conn[c].state \in {"new", "backlog"} /\ conn'[c].rcvd = conn[c].rcvd
               /\ conn'[c].sent >= conn[c].sent,
           KeySet' \subseteq KeySet,
           \A t \in KeySet' :
               /\ m_preMsgMap'[t] = m_preMsgMap[t]
               /\ \A c \in Conns : conn[c].state = "open" /\ conn[c].sock = t => conn'[c].state = "open",
           UNCHANGED <<processed, m_receiveCB, outPut>>,
           \A g \in Handles :
               /\ hpc'[g] = "callback" <=> hpc[g] = "callback"
               /\ hpc[g] = "callback" =>
                      /\ fdRead'[g] = fdRead[g] /\ idx'[g] = idx[g]
                      /\ \A c \in Conns : conn'[c].state = "open" /\ conn[c].sock \in KeySet
                                              => conn[c].sock \in KeySet'
    PROVE  FreshInv' /\ RestInv' /\ WorkInv'
<1>1. FreshInv'
  BY DEF FreshInv
<1>2. \A g \in Handles : hpc[g] = "callback" => Current(g)' = Current(g)
  BY DEF Current
<1>3. \A c \in Conns : /\ Done(c) \in Nat /\ Done(c)' = Done(c)
                       /\ conn[c].sent \in Nat /\ conn'[c].sent \in Nat /\ conn[c].rcvd \in Nat
  BY DEF FrameOK, ConnOK, Connection, Done, Msgs
<1>4. ASSUME NEW c \in Conns, m_receiveCB', conn'[c].state = "open", conn'[c].sock \in KeySet',
             ~Busy(conn[c].sock)'
      PROVE  /\ Done(c)' <= conn'[c].rcvd /\ conn'[c].rcvd <= conn'[c].sent
             /\ m_preMsgMap'[conn'[c].sock] = Bytes(c, Done(c)', conn'[c].rcvd)
  <2>1. PICK t : t = conn[c].sock /\ t = conn'[c].sock /\ t \in KeySet' /\ t \in KeySet
    BY <1>4
  <2>2. ~Busy(t)
    <3>1. ~Busy(t)'
      BY <1>4, <2>1
    <3>2. QED
      BY <1>2, <3>1 DEF Busy
  <2>3. /\ Done(c) <= conn[c].rcvd /\ conn[c].rcvd <= conn[c].sent
        /\ m_preMsgMap[t] = Bytes(c, Done(c), conn[c].rcvd)
    BY <1>4, <2>1, <2>2 DEF RestInv
  <2>4. QED
    BY <1>3, <1>4, <2>1, <2>3
<1>5. RestInv'
  BY <1>4 DEF RestInv
<1>6. ASSUME NEW g \in Handles, hpc'[g] = "callback" PROVE \E c \in Conns : WorksOn(g, c)'
  <2>1. PICK c \in Conns : WorksOn(g, c)
    BY <1>6 DEF WorkInv
  <2>2. PICK t : t = Current(g) /\ t = Current(g)'
    BY <1>2, <1>6
  <2>3. PICK n \in Done(c) + 1 .. conn[c].sent :
            /\ outPut[g] = Bytes(c, Done(c), n)
            /\ t \in KeySet => /\ conn[c].state = "open" /\ conn[c].rcvd = n
                               /\ m_preMsgMap[t] = <<>>
    BY <2>1, <2>2 DEF WorksOn
  <2>4. conn[c].state \in {"open", "closed"}
        /\ (conn[c].state = "open" => conn[c].sock = t /\ t \in KeySet)
    BY <2>1, <2>2 DEF WorksOn
  <2>5. conn'[c].state \in {"open", "closed"}
    BY <2>4 DEF ConnOK, Connection
  <2>6. conn'[c].state = "open" => conn'[c].sock = t /\ t \in KeySet'
    BY <1>6, <2>4
  <2>7. n \in Done(c)' + 1 .. conn'[c].sent
    BY <1>3, <2>3
  <2>8. outPut'[g] = Bytes(c, Done(c)', n)
    BY <1>3, <2>3
  <2>9. t \in KeySet' => /\ conn'[c].state = "open" /\ conn'[c].rcvd = n
                         /\ m_preMsgMap'[t] = <<>>
    BY <2>3, <2>4
  <2>10. WorksOn(g, c)'
    BY <2>2, <2>5, <2>6, <2>7, <2>8, <2>9 DEF WorksOn, Bytes
  <2>11. QED
    BY <2>10
<1>7. WorkInv'
  BY <1>6 DEF WorkInv
<1>8. QED
  BY <1>1, <1>5, <1>7

(* Closing a socket: nobody stays open at it, or no callback is active. *)
LEMMA StreamCloses ==
    ASSUME ConnOK, ConnOK', FrameOK, FreshInv, RestInv, WorkInv, NEW s, Closes(s),
           UNCHANGED <<processed, m_receiveCB, outPut>>,
           \A g \in Handles :
               /\ hpc'[g] = "callback" <=> hpc[g] = "callback"
               /\ hpc[g] = "callback" => fdRead'[g] = fdRead[g] /\ idx'[g] = idx[g],
           \/ \A c \in Conns : ~(conn'[c].state = "open" /\ conn'[c].sock = s)
           \/ \A g \in Handles : hpc[g] # "callback"
    PROVE  FreshInv' /\ RestInv' /\ WorkInv'
<1>1. KeySet' = KeySet \ {s} /\ \A t \in KeySet' : m_preMsgMap'[t] = m_preMsgMap[t]
  BY DEF Closes
<1>2. \A c \in Conns :
          \/ conn'[c] = conn[c]
          \/ /\ conn[c].state = "open" /\ conn[c].sock = s
             /\ conn'[c].state = "closed" /\ conn'[c].sent = conn[c].sent
  BY DEF Closes
<1>3. \A c \in Conns : conn[c].sent \in Nat
  BY DEF ConnOK, Connection
<1>4. \A c \in Conns :
          /\ conn'[c].state = "open" =>
                 /\ conn[c].state = "open" /\ conn'[c].sock = conn[c].sock
                 /\ conn'[c].rcvd = conn[c].rcvd
          /\ conn'[c].state \in {"new", "backlog"} =>
                 conn[c].state \in {"new", "backlog"} /\ conn'[c].rcvd = conn[c].rcvd
          /\ conn'[c].sent >= conn[c].sent
  BY <1>2, <1>3
<1>5. \A t \in KeySet' :
          /\ m_preMsgMap'[t] = m_preMsgMap[t]
          /\ \A c \in Conns : conn[c].state = "open" /\ conn[c].sock = t => conn'[c].state = "open"
  BY <1>1, <1>2
<1>6. \A g \in Handles : hpc[g] = "callback" =>
          \A c \in Conns : conn'[c].state = "open" /\ conn[c].sock \in KeySet => conn[c].sock \in KeySet'
  BY <1>1, <1>4
<1>7. QED
  BY <1>1, <1>4, <1>5, <1>6, StreamKept

(* A socket that is open after a close was open before. *)
LEMMA ClosesOpen ==
    ASSUME NEW s, Closes(s), NEW t, IsOpen(t)'
    PROVE  IsOpen(t)
BY DEF Closes, IsOpen, OpenAt

(* Select, and what leaves the data alone. *)
LEMMA StreamSelect ==
    ASSUME DataOK, DataOK', ListInv, StreamInv, NEW g \in Handles, HandleSelect(g)
    PROVE  ReadsInv' /\ FreshInv' /\ RestInv' /\ WorkInv'
<1>1. ConnOK /\ ConnOK' /\ ListOK /\ FrameOK
  BY DEF DataOK
<1>2. UNCHANGED <<conn, m_preMsgMap, m_receiveCB, processed>> /\ hpc[g] = "out"
  BY <1>1, SelectCases DEF netVars, srvVars
<1>3. UNCHANGED outPut
      /\ \A h \in Handles :
             /\ hpc'[h] = "callback" <=> hpc[h] = "callback"
             /\ hpc[h] = "callback" => fdRead'[h] = fdRead[h] /\ idx'[h] = idx[h]
  <2>1. CASE HandleReturn(g)
    BY <1>1, <1>2, <2>1 DEF HandleReturn, FrameOK
  <2>2. CASE hpc' = [hpc EXCEPT ![g] = "accept"] /\ UNCHANGED <<fdRead, outPut, idx>>
    BY <1>1, <1>2, <2>2 DEF FrameOK
  <2>3. ASSUME NEW q, hpc' = [hpc EXCEPT ![g] = "read"], fdRead' = [fdRead EXCEPT ![g] = q],
               UNCHANGED <<outPut, idx>>
        PROVE  /\ UNCHANGED outPut
               /\ \A h \in Handles :
                    /\ hpc'[h] = "callback" <=> hpc[h] = "callback"
                    /\ hpc[h] = "callback" => fdRead'[h] = fdRead[h] /\ idx'[h] = idx[h]
    BY <1>1, <1>2, <2>3 DEF FrameOK
  <2>4. QED
    BY <1>1, <2>1, <2>2, <2>3, SelectCases
<1>4. KeySet' = KeySet
  BY <1>2 DEF KeySet
<1>5. FreshInv' /\ RestInv' /\ WorkInv'
  <2>1. \A c \in Conns : conn[c].sent \in Nat
    BY <1>1 DEF ConnOK, Connection
  <2>2. QED
    BY <1>1, <1>2, <1>3, <1>4, <2>1, StreamKept DEF StreamInv
<1>6. \A t : IsOpen(t)' <=> IsOpen(t)
  BY <1>2 DEF IsOpen, OpenAt
<1>7. ReadsInv'
  <2>1. CASE \A h \in Handles : fdRead'[h] = fdRead[h] \/ fdRead'[h] = <<>>
    BY <1>4, <1>6, <2>1, ReadsKept DEF StreamInv
  <2>2. ASSUME NEW q, Reported(q), fdRead' = [fdRead EXCEPT ![g] = q]
        PROVE  ReadsInv'
    <3>1. fdRead'[g] = q /\ \A h \in Handles \ {g} : fdRead'[h] = fdRead[h]
      BY <1>1, <2>2 DEF FrameOK
    <3>2. \A k, l \in DOMAIN q : q[k] = q[l] => k = l
      BY <2>2 DEF Reported
    <3>3. ASSUME NEW k \in DOMAIN q PROVE q[k] \in KeySet
      <4>1. PICK i \in DOMAIN m_clientSocketList : q[k] # 0 /\ q[k] = m_clientSocketList[i]
        BY <2>2 DEF Reported
      <4>2. QED
        BY <4>1 DEF ListInv
    <3>4. ASSUME NEW h \in Handles
          PROVE  /\ \A k, l \in DOMAIN fdRead'[h] : fdRead'[h][k] = fdRead'[h][l] => k = l
                 /\ \A k \in DOMAIN fdRead'[h] : IsOpen(fdRead[h][k])' => fdRead'[h][k] \in KeySet'
      <4>1. CASE h = g
        BY <1>4, <3>1, <3>2, <3>3, <4>1
      <4>2. CASE h # g
        <5>1. PICK w : w = fdRead[h] /\ w = fdRead'[h]
          BY <3>1, <4>2
        <5>2. (\A k, l \in DOMAIN w : w[k] = w[l] => k = l)
              /\ \A k \in DOMAIN w : IsOpen(w[k]) => w[k] \in KeySet
          BY <5>1 DEF StreamInv, ReadsInv
        <5>3. QED
          BY <1>4, <1>6, <5>1, <5>2
      <4>3. QED
        BY <4>1, <4>2
    <3>5. QED
      BY <3>4 DEF ReadsInv
  <2>3. CASE HandleReturn(g)
    BY <1>1, <2>1, <2>3 DEF HandleReturn, FrameOK
  <2>4. QED
    BY <1>1, <2>1, <2>2, <2>3, SelectCases
<1>8. QED
  BY <1>5, <1>7

(* FD_CLR takes the one place of the socket just served. *)
LEMMA ReadsClear ==
    ASSUME FrameOK, ReadsInv, NEW g \in Handles, idx[g] + 1 \in DOMAIN fdRead[g], FD_CLR(g),
           \A h \in Handles \ {g} : fdRead[h] = <<>>,
           \A t : IsOpen(t)' => IsOpen(t),
           KeySet \ {Current(g)} \subseteq KeySet'
    PROVE  ReadsInv'
<1>1. PICK q, k : q = fdRead[g] /\ k = idx[g] + 1 /\ Current(g) = q[k]
  BY DEF Current
<1>2. q \in Seq(0 .. MaxSocket) /\ k \in DOMAIN q
  BY <1>1 DEF FrameOK
<1>3. PICK w : w = fdRead'[g] /\ w = RemoveAt(q, k)
  BY <1>1, ClearType
<1>4. (\A i, j \in DOMAIN q : q[i] = q[j] => i = j)
      /\ \A i \in DOMAIN q : IsOpen(q[i]) => q[i] \in KeySet
  BY <1>1 DEF ReadsInv
<1>5. /\ \A l \in DOMAIN w : \E i \in DOMAIN q \ {k} : w[l] = q[i]
      /\ \A l, m \in DOMAIN w : w[l] = w[m] => l = m
  BY <1>2, <1>3, <1>4, RemoveLeaves
<1>6. ASSUME NEW l \in DOMAIN w, IsOpen(w[l])' PROVE w[l] \in KeySet'
  <2>1. PICK i \in DOMAIN q \ {k} : w[l] = q[i]
    BY <1>5
  <2>2. PICK t : t = q[i] /\ t = w[l]
    BY <2>1
  <2>3. t # q[k]
    BY <1>2, <1>4, <2>1, <2>2
  <2>4. IsOpen(t)'
    BY <1>6, <2>2
  <2>5. t \in KeySet
    BY <1>4, <2>2, <2>4
  <2>6. QED
    BY <1>1, <2>2, <2>3, <2>5
<1>7. ASSUME NEW h \in Handles
      PROVE  /\ \A l, m \in DOMAIN fdRead'[h] : fdRead'[h][l] = fdRead'[h][m] => l = m
             /\ \A l \in DOMAIN fdRead'[h] : IsOpen(fdRead[h][l])' => fdRead'[h][l] \in KeySet'
  <2>1. CASE h = g
    <3>1. ASSUME NEW l \in DOMAIN fdRead'[h], IsOpen(fdRead[h][l])' PROVE fdRead'[h][l] \in KeySet'
      BY <1>3, <1>6, <2>1, <3>1
    <3>2. QED
      BY <1>3, <1>5, <2>1, <3>1
  <2>2. CASE h # g
    BY <2>2, ClearType
  <2>3. QED
    BY <2>1, <2>2
<1>8. QED
  BY <1>7 DEF ReadsInv

(* While a worker is inside a round, the others have nothing to read. *)
LEMMA OthersOut ==
    ASSUME FrameOK, RoundOK, OneRound, NEW g \in Handles, hpc[g] # "out"
    PROVE  \A h \in Handles \ {g} : hpc[h] = "out" /\ fdRead[h] = <<>>
BY DEF FrameOK, RoundOK, OneRound

LEMMA NoBytes == ASSUME NEW c PROVE Bytes(c, 0, 0) = <<>>
<1>1. 0 \in Nat /\ 0 <= 0 /\ 0 - 0 = 0
  OBVIOUS
<1>2. Bytes(c, 0, 0) \in Seq({c} \X Nat) /\ Len(Bytes(c, 0, 0)) = 0
  <2>1. Bytes(c, 0, 0) \in Seq({c} \X Nat) /\ Len(Bytes(c, 0, 0)) = 0 - 0
    BY <1>1, BytesFacts
  <2>2. QED
    BY <1>1, <2>1
<1>3. QED
  BY <1>2, EmptySeq

LEMMA StreamAccept ==
    ASSUME DataOK, DataOK', StreamInv, OneRound, NEW g \in Handles, HandleAccept(g)
    PROVE  ReadsInv' /\ FreshInv' /\ RestInv' /\ WorkInv'
<1>1. ConnOK /\ ConnOK' /\ ListOK /\ MapOK /\ FrameOK /\ RoundOK
  BY DEF DataOK
<1>2. HandleReturn(g) /\ hpc[g] = "accept" /\ UNCHANGED <<m_receiveCB, processed>>
  BY DEF HandleAccept
<1>3. \A h \in Handles : hpc[h] # "callback" /\ hpc'[h] # "callback"
  <2>1. \A h \in Handles \ {g} : hpc[h] = "out"
    BY <1>1, <1>2, OthersOut
  <2>2. QED
    BY <1>1, <1>2, <2>1 DEF HandleReturn, FrameOK
<1>4. UNCHANGED outPut /\ \A h \in Handles : fdRead'[h] = fdRead[h] \/ fdRead'[h] = <<>>
  BY <1>1, <1>2 DEF HandleReturn, FrameOK
<1>5. WorkInv'
  BY <1>3 DEF WorkInv
<1>6. \A c \in Conns : /\ conn[c].sent \in Nat /\ conn[c].rcvd \in Nat
                       /\ conn[c].state = "open" => conn[c].sock # 0
  BY <1>1 DEF ConnOK, Connection, OneOpen, SOCKET
<1>7. \A t : ~Busy(t)
  BY <1>3 DEF Busy
<1>8. CASE UNCHANGED <<conn, m_preMsgMap, m_clientSocketList>>
  <2>1. KeySet' = KeySet
    BY <1>8 DEF KeySet
  <2>2. \A t : IsOpen(t)' <=> IsOpen(t)
    BY <1>8 DEF IsOpen, OpenAt
  <2>3. ReadsInv'
    BY <1>4, <2>1, <2>2, ReadsKept DEF StreamInv
  <2>4. FreshInv' /\ RestInv'
    BY <1>1, <1>2, <1>3, <1>4, <1>6, <1>8, <2>1, StreamKept DEF StreamInv
  <2>5. QED
    BY <1>5, <2>3, <2>4
<1>9. ASSUME conn' = conn, m_preMsgMap' = PutMsg(0, <<>>)
      PROVE  ReadsInv' /\ FreshInv' /\ RestInv'
  <2>1. KeySet' = KeySet \cup {0} /\ \A t \in KeySet' \ {0} : m_preMsgMap'[t] = m_preMsgMap[t]
    BY <1>9, PutFacts
  <2>2. \A t : IsOpen(t)' <=> IsOpen(t)
    BY <1>9 DEF IsOpen, OpenAt
  <2>3. ReadsInv'
    BY <1>4, <2>1, <2>2, ReadsKept DEF StreamInv
  <2>4. FreshInv'
    BY <1>2, <1>9 DEF StreamInv, FreshInv
  <2>5. \A c \in Conns : Done(c)' = Done(c)
    BY <1>2 DEF Done
  <2>6. ASSUME NEW c \in Conns, m_receiveCB', conn'[c].state = "open", conn'[c].sock \in KeySet'
        PROVE  /\ Done(c)' <= conn'[c].rcvd /\ conn'[c].rcvd <= conn'[c].sent
               /\ m_preMsgMap'[conn'[c].sock] = Bytes(c, Done(c)', conn'[c].rcvd)
    <3>1. PICK t : t = conn[c].sock /\ t # 0 /\ t \in KeySet /\ m_preMsgMap'[t] = m_preMsgMap[t]
      BY <1>6, <1>9, <2>1, <2>6
    <3>2. /\ Done(c) <= conn[c].rcvd /\ conn[c].rcvd <= conn[c].sent
          /\ m_preMsgMap[t] = Bytes(c, Done(c), conn[c].rcvd)
      BY <1>2, <1>7, <1>9, <2>6, <3>1 DEF StreamInv, RestInv
    <3>3. QED
      BY <1>9, <2>5, <3>1, <3>2
  <2>7. RestInv'
    BY <2>6 DEF RestInv
  <2>8. QED
    BY <2>3, <2>4, <2>7
<1>10. ASSUME NEW c \in Backlog, NEW s \in SOCKET, ~IsOpen(s),
              conn' = [conn EXCEPT ![c].state = "open", ![c].sock = s],
              m_preMsgMap' = PutMsg(s, <<>>)
       PROVE  ReadsInv' /\ FreshInv' /\ RestInv'
  <2>1. /\ KeySet' = KeySet \cup {s} /\ m_preMsgMap'[s] = <<>>
        /\ \A t \in KeySet' \ {s} : m_preMsgMap'[t] = m_preMsgMap[t]
    BY <1>10, PutFacts
  <2>2. /\ conn'[c].state = "open" /\ conn'[c].sock = s
        /\ conn'[c].sent = conn[c].sent /\ conn'[c].rcvd = conn[c].rcvd
        /\ \A d \in Conns \ {c} : conn'[d] = conn[d]
    BY <1>1, <1>10, AcceptFacts
  <2>3. c \in Conns /\ conn[c].state = "backlog"
    BY DEF Backlog
  <2>4. \A t : IsOpen(t)' => t = s \/ IsOpen(t)
    BY <2>2 DEF IsOpen, OpenAt
  <2>5. ReadsInv'
    BY <1>4, <2>1, <2>4, ReadsKept DEF StreamInv
  <2>6. FreshInv'
    BY <1>2, <2>2, <2>3 DEF StreamInv, FreshInv
  <2>7. \A d \in Conns : Done(d)' = Done(d)
    BY <1>2 DEF Done
  <2>8. ASSUME NEW d \in Conns, m_receiveCB', conn'[d].state = "open", conn'[d].sock \in KeySet'
        PROVE  /\ Done(d)' <= conn'[d].rcvd /\ conn'[d].rcvd <= conn'[d].sent
               /\ m_preMsgMap'[conn'[d].sock] = Bytes(d, Done(d)', conn'[d].rcvd)
    <3>1. CASE d = c
      <4>1. processed[c] = <<>> /\ conn[c].rcvd = 0
        BY <2>3 DEF StreamInv, FreshInv
      <4>2. Done(c)' = 0 /\ conn'[c].rcvd = 0 /\ conn'[c].sent \in Nat
        BY <1>6, <2>2, <2>3, <2>7, <4>1 DEF Done
      <4>3. m_preMsgMap'[conn'[c].sock] = Bytes(c, 0, 0)
        BY <2>1, <2>2, NoBytes
      <4>4. QED
        BY <3>1, <4>2, <4>3
    <3>2. CASE d # c
      <4>1. PICK t : t = conn[d].sock /\ conn[d].state = "open" /\ conn'[d] = conn[d]
        BY <2>2, <2>8, <3>2
      <4>2. t # s
        BY <1>10, <4>1 DEF IsOpen, OpenAt
      <4>3. t \in KeySet /\ m_preMsgMap'[t] = m_preMsgMap[t]
        BY <2>1, <2>8, <4>1, <4>2
      <4>4. /\ Done(d) <= conn[d].rcvd /\ conn[d].rcvd <= conn[d].sent
            /\ m_preMsgMap[t] = Bytes(d, Done(d), conn[d].rcvd)
        BY <1>2, <1>7, <2>8, <4>1, <4>3 DEF StreamInv, RestInv
      <4>5. QED
        BY <2>7, <4>1, <4>3, <4>4
    <3>3. QED
      BY <3>1, <3>2
  <2>9. RestInv'
    BY <2>8 DEF RestInv
  <2>10. QED
    BY <2>5, <2>6, <2>9
<1>11. QED
  BY <1>1, <1>5, <1>8, <1>9, <1>10, AcceptStep

LEMMA StreamRead ==
    ASSUME DataOK, DataOK', StreamInv, OneRound, NEW g \in Handles, HandleRead(g)
    PROVE  ReadsInv' /\ FreshInv' /\ RestInv' /\ WorkInv'
<1>1. ConnOK /\ ConnOK' /\ ListOK /\ MapOK /\ FrameOK /\ RoundOK
  BY DEF DataOK
<1>2. PICK s \in 0 .. MaxSocket :
          /\ s = fdRead[g][idx[g] + 1]
          /\ \/ ReadGone(g, s)
             \/ \E c \in Conns :
                    /\ conn[c].state = "open" /\ conn[c].sock = s
                    /\ \E n \in Nat : /\ conn[c].rcvd < n /\ n <= conn[c].sent
                                      /\ ReadSome(g, s, c, n)
  BY <1>1, ReadCases
<1>3. /\ hpc[g] = "read" /\ idx[g] + 1 \in DOMAIN fdRead[g]
      /\ UNCHANGED <<m_receiveCB, idx, processed>>
  BY <1>1, ReadCases
<1>4. (\A h \in Handles : hpc[h] # "callback") /\ \A h \in Handles \ {g} : hpc[h] = "out" /\ fdRead[h] = <<>>
  BY <1>1, <1>3, OthersOut
<1>5. s = Current(g)
  BY <1>2 DEF Current
<1>6. CASE ReadGone(g, s)
  <2>1. CloseSocket(s) /\ FD_CLR(g) /\ hpc' = [hpc EXCEPT ![g] = "except"] /\ UNCHANGED outPut
    BY <1>6 DEF ReadGone
  <2>2. Closes(s)
    BY <1>1, <2>1, CloseSocketFacts
  <2>3. \A h \in Handles : hpc'[h] # "callback"
    BY <1>1, <1>4, <2>1 DEF FrameOK
  <2>4. FreshInv' /\ RestInv' /\ WorkInv'
    BY <1>1, <1>3, <1>4, <2>1, <2>2, <2>3, StreamCloses DEF StreamInv
  <2>5. KeySet' = KeySet \ {s}
    BY <2>2 DEF Closes
  <2>6. \A t : IsOpen(t)' => IsOpen(t)
    BY <2>2, ClosesOpen
  <2>7. ReadsInv'
    BY <1>1, <1>3, <1>4, <1>5, <2>1, <2>5, <2>6, ReadsClear DEF StreamInv
  <2>8. QED
    BY <2>4, <2>7
<1>7. ASSUME NEW c \in Conns, conn[c].state = "open", conn[c].sock = s,
             NEW n \in Nat, conn[c].rcvd < n, n <= conn[c].sent, ReadSome(g, s, c, n)
      PROVE  ReadsInv' /\ FreshInv' /\ RestInv' /\ WorkInv'
  <2>1. conn' = [conn EXCEPT ![c].rcvd = n]
    BY <1>7 DEF ReadSome
  <2>2. /\ conn'[c].state = "open" /\ conn'[c].sock = s
        /\ conn'[c].sent = conn[c].sent /\ conn'[c].rcvd = n
        /\ \A d \in Conns \ {c} : conn'[d] = conn[d]
    BY <1>1, <1>7, <2>1, RecvFacts
  <2>3. FreshInv'
    BY <1>3, <1>7, <2>2 DEF StreamInv, FreshInv
  <2>4. \A t : IsOpen(t)' <=> IsOpen(t)
    BY <1>7, <2>2 DEF IsOpen, OpenAt
  <2>5. CASE /\ ~m_receiveCB /\ FD_CLR(g) /\ hpc' = [hpc EXCEPT ![g] = "except"]
             /\ UNCHANGED <<outPut, m_preMsgMap>>
    <3>1. KeySet' = KeySet
      BY <2>5 DEF KeySet
    <3>2. ReadsInv'
      BY <1>1, <1>3, <1>4, <2>4, <2>5, <3>1, ReadsClear DEF StreamInv
    <3>3. RestInv'
      BY <1>3, <2>5 DEF RestInv
    <3>4. \A h \in Handles : hpc'[h] # "callback"
      BY <1>1, <1>4, <2>5 DEF FrameOK
    <3>5. WorkInv'
      BY <3>4 DEF WorkInv
    <3>6. QED
      BY <2>3, <3>2, <3>3, <3>5
  <2>6. CASE /\ m_receiveCB
             /\ outPut' = [outPut EXCEPT ![g] = getNewDataMsg(s, Bytes(c, conn[c].rcvd, n))]
             /\ m_preMsgMap' = TakePreMsg(s)
             /\ hpc' = [hpc EXCEPT ![g] = "callback"]
             /\ UNCHANGED fdRead
    <3>1. s \in KeySet
      <4>1. IsOpen(s)
        BY <1>7 DEF IsOpen, OpenAt
      <4>2. QED
        BY <1>2, <1>3, <4>1 DEF StreamInv, ReadsInv
    <3>2. /\ KeySet' = KeySet /\ m_preMsgMap'[s] = <<>>
          /\ \A t \in KeySet \ {s} : m_preMsgMap'[t] = m_preMsgMap[t]
      BY <1>1, <2>6, <3>1, TakeFacts
    <3>3. ReadsInv'
      BY <2>4, <2>6, <3>2, ReadsKept DEF StreamInv
    <3>4. \A t : ~Busy(t)
      BY <1>4 DEF Busy
    <3>5. hpc'[g] = "callback" /\ Current(g)' = s
          /\ \A h \in Handles \ {g} : hpc'[h] # "callback"
      BY <1>1, <1>2, <1>3, <1>4, <2>6 DEF Current, FrameOK
    <3>6. \A d \in Conns : Done(d)' = Done(d)
      BY <1>3 DEF Done
    <3>7. ASSUME NEW d \in Conns, m_receiveCB', conn'[d].state = "open", conn'[d].sock \in KeySet',
                 ~Busy(conn[d].sock)'
          PROVE  /\ Done(d)' <= conn'[d].rcvd /\ conn'[d].rcvd <= conn'[d].sent
                 /\ m_preMsgMap'[conn'[d].sock] = Bytes(d, Done(d)', conn'[d].rcvd)
      <4>1. PICK t : t = conn'[d].sock
        OBVIOUS
      <4>2. t # s
        BY <3>5, <3>7, <4>1 DEF Busy
      <4>3. conn'[d] = conn[d] /\ t = conn[d].sock /\ conn[d].state = "open"
        BY <2>2, <3>7, <4>1, <4>2
      <4>4. t \in KeySet /\ m_preMsgMap'[t] = m_preMsgMap[t]
        BY <3>2, <3>7, <4>1, <4>2
      <4>5. /\ Done(d) <= conn[d].rcvd /\ conn[d].rcvd <= conn[d].sent
            /\ m_preMsgMap[t] = Bytes(d, Done(d), conn[d].rcvd)
        BY <2>6, <3>4, <4>3, <4>4 DEF StreamInv, RestInv
      <4>6. QED
        BY <3>6, <4>1, <4>3, <4>4, <4>5
    <3>8. RestInv'
      BY <3>7 DEF RestInv
    <3>9. PICK m, r \in Nat : m = Done(c) /\ r = conn[c].rcvd
      BY <1>1 DEF FrameOK, Done, Msgs, ConnOK, Connection
    <3>10. m <= r /\ m_preMsgMap[s] = Bytes(c, m, r)
      BY <1>7, <2>6, <3>1, <3>4, <3>9 DEF StreamInv, RestInv
    <3>11. outPut'[g] = Bytes(c, m, n)
      <4>1. outPut'[g] = m_preMsgMap[s] \o Bytes(c, r, n)
        BY <1>1, <2>6, <3>1, <3>9 DEF getNewDataMsg, FrameOK
      <4>2. r <= n
        BY <1>7, <3>9
      <4>3. Bytes(c, m, r) \o Bytes(c, r, n) = Bytes(c, m, n)
        <5>1. m \in Nat /\ r \in Nat /\ n \in Nat /\ m <= r /\ r <= n
          BY <3>9, <3>10, <4>2
        <5>2. QED
          BY <5>1, BytesJoin
      <4>4. QED
        BY <3>10, <4>1, <4>3
    <3>12. n \in Done(c)' + 1 .. conn'[c].sent
      <4>1. conn[c].sent \in Nat
        BY <1>1 DEF ConnOK, Connection
      <4>2. QED
        BY <1>7, <2>2, <3>6, <3>9, <3>10, <4>1
    <3>13. WorksOn(g, c)'
      <4>1. outPut'[g] = Bytes(c, Done(c)', n)
        BY <3>6, <3>9, <3>11
      <4>2. QED
        BY <2>2, <3>1, <3>2, <3>5, <3>12, <4>1 DEF WorksOn, Bytes
    <3>14. WorkInv'
      BY <3>5, <3>13 DEF WorkInv
    <3>15. QED
      BY <2>3, <3>3, <3>8, <3>14
  <2>7. QED
    BY <1>7, <2>5, <2>6 DEF ReadSome
<1>8. QED
  BY <1>2, <1>6, <1>7

(* The receive callback in worker g was given the bytes m + 1 .. n of c    *)
(* and returns having processed the first u.                               *)
Delivers(g, c, m, n, u) ==
    /\ WorksOn(g, c)
    /\ m = Done(c) /\ n > m /\ n <= conn[c].sent /\ m + u <= n
    /\ outPut[g] = Bytes(c, m, n)
    /\ Current(g) \in KeySet => conn[c].state = "open" /\ conn[c].rcvd = n
                                /\ m_preMsgMap[Current(g)] = <<>>
    /\ processed' = [processed EXCEPT ![c] = @ \o Bytes(c, m, m + u)]
    /\ m_preMsgMap' = savePreMsg(Current(g), Bytes(c, m + u, n))
    /\ FD_CLR(g)
    /\ hpc' = [hpc EXCEPT ![g] = "except"]

(* What a return of the receive callback declares processed are the bytes  *)
(* that come next in the stream of one connection.                         *)
LEMMA CallbackDelivers ==
    ASSUME DataOK, StreamInv, NEW g \in Handles, HandleCallback(g)
    PROVE  \E c \in Conns, m, n, u \in Nat : Delivers(g, c, m, n, u)
<1>1. FrameOK /\ RoundOK /\ ConnOK
  BY DEF DataOK
<1>2. PICK o, s : o = outPut[g] /\ s = Current(g) /\ s = fdRead[g][idx[g] + 1]
  BY DEF Current
<1>3. hpc[g] = "callback"
  BY DEF HandleCallback
<1>4. PICK c \in Conns : WorksOn(g, c)
  BY <1>3 DEF StreamInv, WorkInv
<1>5. PICK m \in Nat : m = Done(c)
  BY <1>1 DEF FrameOK, Done, Msgs
<1>6. conn[c].sent \in Nat
  BY <1>1 DEF ConnOK, Connection
<1>7. PICK n \in Nat :
          /\ m <= n /\ n > m /\ n <= conn[c].sent
          /\ o = Bytes(c, m, n)
          /\ s \in KeySet => conn[c].state = "open" /\ conn[c].rcvd = n /\ m_preMsgMap[s] = <<>>
  BY <1>2, <1>4, <1>5, <1>6 DEF WorksOn
<1>8. Len(o) = n - m /\ o[n - m] = <<c, m + (n - m)>>
  <2>1. n - m \in 1 .. n - m
    BY <1>7
  <2>2. Len(Bytes(c, m, n)) = n - m /\ \A k \in 1 .. n - m : Bytes(c, m, n)[k] = <<c, m + k>>
    BY <1>7, BytesFacts
  <2>3. QED
    BY <1>7, <2>1, <2>2
<1>9. PICK u \in 0 .. n - m : Returned(g, s, o, u)
  BY <1>1, <1>2, <1>8, CallbackCases
<1>10. o[Len(o)][1] = c
  BY <1>8
<1>11. SubSeq(o, 1, u) = Bytes(c, m, m + u) /\ SubSeq(o, u + 1, Len(o)) = Bytes(c, m + u, n)
  <2>1. /\ SubSeq(Bytes(c, m, n), 1, u) = Bytes(c, m, m + u)
        /\ SubSeq(Bytes(c, m, n), u + 1, n - m) = Bytes(c, m + u, n)
    <3>1. m \in Nat /\ n \in Nat /\ m <= n /\ u \in 0 .. n - m
      BY <1>7
    <3>2. SplitsAt(c, m, n, u)
      BY <3>1, BytesSplit
    <3>3. QED
      BY <3>2 DEF SplitsAt
  <2>2. QED
    BY <1>7, <1>8, <2>1
<1>12. /\ processed' = [processed EXCEPT ![c] = @ \o Bytes(c, m, m + u)]
       /\ m_preMsgMap' = savePreMsg(s, Bytes(c, m + u, n))
       /\ FD_CLR(g)
       /\ hpc' = [hpc EXCEPT ![g] = "except"]
  BY <1>9, <1>10, <1>11 DEF Returned
<1>13. u \in Nat /\ m + u <= n
  BY <1>7
<1>14. QED
  BY <1>2, <1>4, <1>5, <1>7, <1>12, <1>13 DEF Delivers

LEMMA StreamCallback ==
    ASSUME DataOK, DataOK', StreamInv, OneRound, NEW g \in Handles, HandleCallback(g)
    PROVE  ReadsInv' /\ FreshInv' /\ RestInv' /\ WorkInv'
<1>1. ConnOK /\ MapOK /\ FrameOK /\ FrameOK' /\ RoundOK
  BY DEF DataOK
<1>2. PICK s : s = Current(g)
  OBVIOUS
<1>3. PICK c \in Conns, m, n, u \in Nat : Delivers(g, c, m, n, u)
  BY CallbackDelivers
<1>4. /\ WorksOn(g, c)
      /\ m = Done(c) /\ n > m /\ n <= conn[c].sent /\ m + u <= n
      /\ s \in KeySet => conn[c].state = "open" /\ conn[c].rcvd = n /\ m_preMsgMap[s] = <<>>
      /\ processed' = [processed EXCEPT ![c] = @ \o Bytes(c, m, m + u)]
      /\ m_preMsgMap' = savePreMsg(s, Bytes(c, m + u, n))
      /\ FD_CLR(g)
      /\ hpc' = [hpc EXCEPT ![g] = "except"]
  BY <1>2, <1>3 DEF Delivers
<1>5. hpc[g] = "callback" /\ idx[g] + 1 \in DOMAIN fdRead[g] /\ UNCHANGED <<conn, m_receiveCB, idx>>
  BY <1>1, CallbackCases DEF netVars
<1>6. conn[c].state \in {"open", "closed"} /\ (conn[c].state = "open" => conn[c].sock = s /\ s \in KeySet)
  BY <1>2, <1>4 DEF WorksOn
<1>7. \A h \in Handles \ {g} : hpc[h] = "out" /\ fdRead[h] = <<>>
  BY <1>1, <1>5, OthersOut
<1>8. \A h \in Handles : hpc'[h] # "callback"
  BY <1>1, <1>4, <1>7 DEF FrameOK
<1>9. WorkInv'
  BY <1>8 DEF WorkInv
<1>10. m + u \in Nat /\ m <= m + u /\ m + u <= n
  BY <1>4
<1>11. Bytes(c, m + u, n) \in Msgs /\ Bytes(c, m, m + u) \in Msgs
  BY <1>10, BytesMsg
<1>12. /\ KeySet' = KeySet
       /\ s \in KeySet => m_preMsgMap'[s] = m_preMsgMap[s] \o Bytes(c, m + u, n)
       /\ \A t \in KeySet \ {s} : m_preMsgMap'[t] = m_preMsgMap[t]
  BY <1>1, <1>4, <1>11, SaveFacts
<1>13. \A t : IsOpen(t)' <=> IsOpen(t)
  BY <1>5 DEF IsOpen, OpenAt
<1>14. ReadsInv'
  BY <1>1, <1>4, <1>5, <1>7, <1>12, <1>13, ReadsClear DEF StreamInv
<1>15. \A d \in Conns \ {c} : processed'[d] = processed[d]
  BY <1>1, <1>4 DEF FrameOK
<1>16. FreshInv'
  BY <1>5, <1>6, <1>15 DEF StreamInv, FreshInv
<1>17. Done(c)' = m + u
  <2>1. PICK p, b : p = processed[c] /\ b = Bytes(c, m, m + u) /\ processed'[c] = p \o b
    BY <1>1, <1>4 DEF FrameOK
  <2>2. p \in Seq(Conns \X Nat) /\ b \in Seq(Conns \X Nat)
    BY <1>1, <1>11, <2>1 DEF FrameOK, Msgs
  <2>3. Len(p) = m /\ Len(b) = (m + u) - m
    <3>1. PICK e \in Nat : e = m + u /\ m <= e
      BY <1>10
    <3>2. Len(Bytes(c, m, e)) = e - m
      BY <3>1, BytesFacts
    <3>3. QED
      BY <1>4, <2>1, <3>1, <3>2 DEF Done
  <2>4. Len(p \o b) = Len(p) + Len(b)
    BY <2>2, ConcatProperties
  <2>5. Done(c)' = Len(p \o b)
    BY <2>1 DEF Done
  <2>6. Len(p) + Len(b) = m + u
    BY <2>3
  <2>7. QED
    BY <2>4, <2>5, <2>6, Zenon
<1>18. ASSUME NEW d \in Conns, m_receiveCB', conn'[d].state = "open", conn'[d].sock \in KeySet'
       PROVE  /\ Done(d)' <= conn'[d].rcvd /\ conn'[d].rcvd <= conn'[d].sent
              /\ m_preMsgMap'[conn'[d].sock] = Bytes(d, Done(d)', conn'[d].rcvd)
  <2>1. CASE d = c
    <3>1. conn[c].sock = s /\ s \in KeySet
      BY <1>5, <1>6, <1>18, <2>1
    <3>2. conn[c].rcvd = n /\ m_preMsgMap[s] = <<>>
      BY <1>4, <3>1
    <3>3. <<>> \o Bytes(c, m + u, n) = Bytes(c, m + u, n)
      BY <1>11, ConcatEmptySeq DEF Msgs
    <3>4. QED
      BY <1>4, <1>5, <1>10, <1>12, <1>17, <2>1, <3>1, <3>2, <3>3
  <2>2. CASE d # c
    <3>1. PICK t : t = conn[d].sock /\ t \in KeySet /\ conn[d].state = "open"
      BY <1>5, <1>12, <1>18
    <3>2. t # s
      BY <1>1, <1>4, <1>6, <2>2, <3>1 DEF ConnOK, OneOpen
    <3>3. ~Busy(t)
      BY <1>2, <1>7, <3>2 DEF Busy
    <3>4. /\ Done(d) <= conn[d].rcvd /\ conn[d].rcvd <= conn[d].sent
          /\ m_preMsgMap[t] = Bytes(d, Done(d), conn[d].rcvd)
      BY <1>5, <1>18, <3>1, <3>3 DEF StreamInv, RestInv
    <3>5. Done(d)' = Done(d) /\ m_preMsgMap'[t] = m_preMsgMap[t]
      BY <1>12, <1>15, <2>2, <3>1, <3>2 DEF Done
    <3>6. QED
      BY <1>5, <3>1, <3>4, <3>5
  <2>3. QED
    BY <2>1, <2>2
<1>19. RestInv'
  BY <1>18 DEF RestInv
<1>20. QED
  BY <1>9, <1>14, <1>16, <1>19

LEMMA StreamExcept ==
    ASSUME DataOK, DataOK', StreamInv, OneRound, Calm, NEW g \in Handles, HandleExcept(g)
    PROVE  ReadsInv' /\ FreshInv' /\ RestInv' /\ WorkInv'
<1>1. ConnOK /\ ConnOK' /\ ListOK /\ MapOK /\ FrameOK /\ RoundOK
  BY DEF DataOK
<1>2. /\ hpc[g] = "except" /\ hpc' = [hpc EXCEPT ![g] = "read"]
      /\ UNCHANGED <<m_receiveCB, fdRead, outPut, processed>>
  BY DEF HandleExcept
<1>3. \A h \in Handles : hpc[h] # "callback" /\ hpc'[h] # "callback"
  <2>1. \A h \in Handles \ {g} : hpc[h] = "out"
    BY <1>1, <1>2, OthersOut
  <2>2. QED
    BY <1>1, <1>2, <2>1 DEF FrameOK
<1>4. CASE UNCHANGED <<conn, m_preMsgMap>>
  <2>1. KeySet' = KeySet
    BY <1>4 DEF KeySet
  <2>2. \A t : IsOpen(t)' <=> IsOpen(t)
    BY <1>4 DEF IsOpen, OpenAt
  <2>3. ReadsInv'
    BY <1>2, <2>1, <2>2, ReadsKept DEF StreamInv
  <2>4. \A c \in Conns : conn[c].sent \in Nat
    BY <1>1 DEF ConnOK, Connection
  <2>5. QED
    BY <1>1, <1>2, <1>3, <1>4, <2>1, <2>3, <2>4, StreamKept DEF StreamInv
<1>5. ASSUME NEW s \in fdExcept[g], CloseSocket(s)
      PROVE  ReadsInv' /\ FreshInv' /\ RestInv' /\ WorkInv'
  <2>1. NoneForgotten
    BY <1>5 DEF Calm, StreamInv, CalmInv
  <2>2. /\ Closes(s)
        /\ Contains(m_clientSocketList, s) =>
               \A c \in Conns : ~(conn'[c].state = "open" /\ conn'[c].sock = s)
    BY <1>1, <1>5, CloseSocketFacts
  <2>3. ~IsOpen(s)'
    <3>1. ASSUME NEW c \in Conns, conn'[c].state = "open", conn'[c].sock = s PROVE FALSE
      <4>1. conn[c].state = "open" /\ conn[c].sock = s
        BY <2>2, <3>1 DEF Closes
      <4>2. Contains(m_clientSocketList, s)
        BY <2>1, <4>1 DEF NoneForgotten
      <4>3. QED
        BY <2>2, <3>1, <4>2
    <3>2. QED
      BY <3>1 DEF IsOpen, OpenAt
  <2>4. KeySet' = KeySet \ {s}
    BY <2>2 DEF Closes
  <2>5. \A t : IsOpen(t)' => IsOpen(t)
    BY <2>2, ClosesOpen
  <2>6. ReadsInv'
    BY <1>2, <2>3, <2>4, <2>5, ReadsKept DEF StreamInv
  <2>7. FreshInv' /\ RestInv' /\ WorkInv'
    BY <1>1, <1>2, <1>3, <2>2, StreamCloses DEF StreamInv
  <2>8. QED
    BY <2>6, <2>7
<1>6. QED
  BY <1>4, <1>5 DEF HandleExcept, netVars

LEMMA StreamStep ==
    ServerTypes /\ ListInv /\ StreamInv /\ OneRound /\ Calm /\ [ServerNext]_svars => StreamInv'
<1> SUFFICES ASSUME ServerTypes, ListInv, StreamInv, OneRound, Calm, [ServerNext]_svars
             PROVE  ReadsInv' /\ FreshInv' /\ RestInv' /\ WorkInv'
  BY CalmStep DEF StreamInv
<1>1. DataOK /\ ConnOK /\ ListOK /\ MapOK /\ OwnerOK /\ FrameOK
  BY DEF ServerTypes, DataOK
<1>2. DataOK' /\ ConnOK'
  BY <1>1, DataStep DEF DataOK
<1>3. \A c \in Conns : conn[c].sent \in Nat
  BY <1>1 DEF ConnOK, Connection
<1>4. ASSUME UNCHANGED <<conn, m_preMsgMap, m_receiveCB, processed, outPut>>,
             \A g \in Handles :
                 /\ hpc'[g] = "callback" <=> hpc[g] = "callback"
                 /\ hpc[g] = "callback" => fdRead'[g] = fdRead[g] /\ idx'[g] = idx[g]
                 /\ fdRead'[g] = fdRead[g] \/ fdRead'[g] = <<>>
      PROVE  ReadsInv' /\ FreshInv' /\ RestInv' /\ WorkInv'
  <2>1. KeySet' = KeySet
    BY <1>4 DEF KeySet
  <2>2. \A t : IsOpen(t)' <=> IsOpen(t)
    BY <1>4 DEF IsOpen, OpenAt
  <2>3. ReadsInv'
    BY <1>4, <2>1, <2>2, ReadsKept DEF StreamInv
  <2>4. FreshInv' /\ RestInv' /\ WorkInv'
    BY <1>1, <1>2, <1>3, <1>4, <2>1, StreamKept DEF StreamInv
  <2>5. QED
    BY <2>3, <2>4
<1>5. CASE \E g \in Handles : HandleSelect(g)
  BY <1>1, <1>2, <1>5, StreamSelect
<1>6. CASE \E g \in Handles : HandleAccept(g)
  BY <1>1, <1>2, <1>6, StreamAccept
<1>7. CASE \E g \in Handles : HandleRead(g)
  BY <1>1, <1>2, <1>7, StreamRead
<1>8. CASE \E g \in Handles : HandleCallback(g)
  BY <1>1, <1>2, <1>8, StreamCallback
<1>9. CASE \E g \in Handles : HandleExcept(g)
  BY <1>1, <1>2, <1>9, StreamExcept
<1>10. CASE \E g \in Handles : HandleDone(g)
  <2>1. PICK g \in Handles : HandleDone(g)
    BY <1>10
  <2>2. HandleReturn(g) /\ hpc[g] = "read" /\ UNCHANGED <<conn, m_preMsgMap, m_receiveCB, processed>>
    BY <2>1 DEF HandleDone, netVars, srvVars
  <2>3. UNCHANGED outPut
        /\ \A h \in Handles :
               /\ hpc'[h] = "callback" <=> hpc[h] = "callback"
               /\ hpc[h] = "callback" => fdRead'[h] = fdRead[h] /\ idx'[h] = idx[h]
               /\ fdRead'[h] = fdRead[h] \/ fdRead'[h] = <<>>
    BY <1>1, <2>2 DEF HandleReturn, FrameOK
  <2>4. QED
    BY <1>4, <2>2, <2>3
<1>11. CASE DisConnectStep
  <2>1. UNCHANGED <<hpc, fdRead, idx, outPut, processed, m_receiveCB>>
    BY <1>11 DEF DisConnectStep, frame
  <2>2. PICK s : Closes(s) /\ \A c \in Conns : ~(conn'[c].state = "open" /\ conn'[c].sock = s)
    BY <1>1, <1>11, DisConnectFacts
  <2>3. FreshInv' /\ RestInv' /\ WorkInv'
    BY <1>1, <1>2, <2>1, <2>2, StreamCloses DEF StreamInv
  <2>4. ~IsOpen(s)' /\ KeySet' = KeySet \ {s}
    BY <2>2 DEF IsOpen, OpenAt, Closes
  <2>5. \A t : IsOpen(t)' => IsOpen(t)
    BY <2>2, ClosesOpen
  <2>6. ReadsInv'
    BY <2>1, <2>4, <2>5, ReadsKept DEF StreamInv
  <2>7. QED
    BY <2>3, <2>6
<1>12. CASE \E c \in Conns : Client(c)
  <2>1. PICK c \in Conns : Client(c)
    BY <1>12
  <2>2. \A d \in Conns :
            /\ conn'[d].state = "open" <=> conn[d].state = "open"
            /\ conn'[d].state \in {"new", "backlog"} => conn[d].state \in {"new", "backlog"}
            /\ conn'[d].sock = conn[d].sock
            /\ conn'[d].rcvd = conn[d].rcvd
            /\ conn'[d].sent >= conn[d].sent
    BY <1>1, <2>1, ClientFacts
  <2>3. UNCHANGED <<m_preMsgMap, m_receiveCB, hpc, fdRead, outPut, idx, processed>>
    BY <1>1, <2>1, ClientFacts DEF srvVars, frame
  <2>4. KeySet' = KeySet
    BY <2>3 DEF KeySet
  <2>5. \A t : IsOpen(t)' <=> IsOpen(t)
    BY <2>2 DEF IsOpen, OpenAt
  <2>6. ReadsInv'
    BY <2>3, <2>4, <2>5, ReadsKept DEF StreamInv
  <2>7. FreshInv' /\ RestInv' /\ WorkInv'
    BY <1>1, <1>2, <2>2, <2>3, <2>4, StreamKept DEF StreamInv
  <2>8. QED
    BY <2>6, <2>7
<1>13. CASE UNCHANGED <<conn, m_preMsgMap, m_receiveCB, frame, processed>>
  BY <1>4, <1>13 DEF frame
<1>14. ASSUME NEW g \in Handles, ThreadProcStep(g)
       PROVE  UNCHANGED <<conn, m_preMsgMap, m_receiveCB, frame, processed>>
  BY <1>14 DEF ThreadProcStep, netVars, srvVars
<1>15. ASSUME NEW c \in Callers, OwnerStart(c)
       PROVE  UNCHANGED <<conn, m_preMsgMap, m_receiveCB, frame, processed>>
  BY <1>15 DEF OwnerStart, StartServer, StopServer, DisConnectAll, netVars, srvVars
<1>16. ASSUME NEW c \in Callers, StopServerReturn(c) \/ DisConnectLoopEnd \/ DisConnectClear
       PROVE  UNCHANGED <<conn, m_preMsgMap, m_receiveCB, frame, processed>>
  BY <1>16 DEF StopServerReturn, DisConnectLoopEnd, DisConnectClear, netVars, srvVars
<1>17. CASE UNCHANGED svars
  BY <1>13, <1>17 DEF svars, netVars, srvVars
<1>18. QED
  BY <1>5, <1>6, <1>7, <1>8, <1>9, <1>10, <1>11, <1>12, <1>13, <1>14, <1>15, <1>16, <1>17
     DEF ServerNext, HandleThread, OwnerContinue

(* The step simulation: a byte sent is a Send, a callback that returns is  *)
(* a Deliver or, when it processed nothing, a stutter, and everything else *)
(* stutters.                                                               *)
Sent == [c \in Conns |-> conn[c].sent]

LEMMA StreamSimulated ==
    ServerTypes /\ StreamInv /\ [ServerNext]_svars => [Stream!Next]_<<Sent, processed>>
<1> SUFFICES ASSUME ServerTypes, StreamInv, [ServerNext]_svars
             PROVE  [Stream!Next]_<<Sent, processed>>
  OBVIOUS
<1>1. DataOK /\ ConnOK /\ ListOK /\ MapOK /\ OwnerOK /\ FrameOK
  BY DEF ServerTypes, DataOK
<1>2. ASSUME \A c \in Conns : conn'[c].sent = conn[c].sent, UNCHANGED processed
      PROVE  UNCHANGED <<Sent, processed>>
  BY <1>2 DEF Sent
<1>3. ASSUME NEW s, Closes(s) PROVE \A c \in Conns : conn'[c].sent = conn[c].sent
  BY <1>3 DEF Closes
<1>4. CASE \E g \in Handles : HandleSelect(g) \/ HandleDone(g)
  BY <1>2, <1>4 DEF HandleSelect, HandleDone, netVars
<1>5. CASE \E g \in Handles : HandleAccept(g)
  <2>1. PICK g \in Handles : HandleAccept(g)
    BY <1>5
  <2>2. UNCHANGED processed
    BY <2>1 DEF HandleAccept
  <2>3. ASSUME NEW c \in Backlog, NEW s \in SOCKET, ~IsOpen(s),
               conn' = [conn EXCEPT ![c].state = "open", ![c].sock = s]
        PROVE  \A d \in Conns : conn'[d].sent = conn[d].sent
    BY <1>1, <2>3, AcceptFacts
  <2>4. \A d \in Conns : conn'[d].sent = conn[d].sent
    BY <1>1, <2>1, <2>3, AcceptStep
  <2>5. QED
    BY <1>2, <2>2, <2>4
<1>6. CASE \E g \in Handles : HandleRead(g)
  <2>1. PICK g \in Handles : HandleRead(g)
    BY <1>6
  <2>2. UNCHANGED processed
    BY <2>1 DEF HandleRead
  <2>3. ASSUME NEW s, ReadGone(g, s) PROVE \A d \in Conns : conn'[d].sent = conn[d].sent
    BY <1>1, <1>3, <2>3, CloseSocketFacts DEF ReadGone
  <2>4. ASSUME NEW s, NEW c \in Conns, NEW n \in Nat, ReadSome(g, s, c, n)
        PROVE  \A d \in Conns : conn'[d].sent = conn[d].sent
    BY <1>1, <2>4, RecvFacts DEF ReadSome
  <2>5. \A d \in Conns : conn'[d].sent = conn[d].sent
    BY <1>1, <2>1, <2>3, <2>4, ReadCases
  <2>6. QED
    BY <1>2, <2>2, <2>5
<1>7. CASE \E g \in Handles : HandleCallback(g)
  <2>1. PICK g \in Handles : HandleCallback(g)
    BY <1>7
  <2>2. UNCHANGED conn
    BY <2>1 DEF HandleCallback, netVars
  <2>3. UNCHANGED Sent
    BY <2>2 DEF Sent
  <2>4. PICK c \in Conns, m, n, u \in Nat : Delivers(g, c, m, n, u)
    BY <1>1, <2>1, CallbackDelivers
  <2>5. conn[c].sent \in Nat /\ Sent[c] = conn[c].sent /\ m = Len(processed[c])
    BY <1>1, <2>4 DEF ConnOK, Connection, Sent, Done, Delivers
  <2>6. CASE u = 0
    <3>1. processed[c] \in Seq(Conns \X Nat) /\ processed \in [Conns -> Msgs]
      BY <1>1 DEF FrameOK, Msgs
    <3>2. Bytes(c, m, m + u) = <<>>
      <4>1. PICK e \in Nat : e = m + u /\ m <= e /\ e - m = 0
        BY <2>6
      <4>2. Bytes(c, m, e) \in Seq({c} \X Nat) /\ Len(Bytes(c, m, e)) = e - m
        BY <4>1, BytesFacts
      <4>3. QED
        BY <4>1, <4>2, EmptySeq
    <3>3. processed[c] \o <<>> = processed[c]
      BY <3>1, ConcatEmptySeq
    <3>4. processed' = processed
      BY <2>4, <3>1, <3>2, <3>3 DEF Delivers
    <3>5. QED
      BY <2>3, <3>4
  <2>7. CASE u # 0
    <3>1. m + u \in Len(processed[c]) + 1 .. Sent[c]
      BY <2>4, <2>5, <2>7 DEF Delivers
    <3>2. Stream!Bytes(c, Len(processed[c]), m + u) = Bytes(c, m, m + u)
      BY <2>5 DEF Stream!Bytes, Bytes
    <3>3. processed' = [processed EXCEPT ![c] = @ \o Stream!Bytes(c, Len(@), m + u)]
      BY <2>4, <3>2 DEF Delivers
    <3>4. Stream!Deliver(c)
      BY <2>3, <3>1, <3>3 DEF Stream!Deliver, Sent
    <3>5. QED
      BY <3>4 DEF Stream!Next
  <2>8. QED
    BY <2>6, <2>7
<1>8. CASE \E g \in Handles : HandleExcept(g)
  <2>1. PICK g \in Handles : HandleExcept(g)
    BY <1>8
  <2>2. UNCHANGED processed /\ (UNCHANGED conn \/ \E s : CloseSocket(s))
    BY <2>1 DEF HandleExcept, netVars
  <2>3. QED
    BY <1>1, <1>2, <1>3, <2>2, CloseSocketFacts
<1>9. CASE DisConnectStep
  <2>1. UNCHANGED processed
    BY <1>9 DEF DisConnectStep
  <2>2. QED
    BY <1>1, <1>2, <1>3, <1>9, <2>1, DisConnectFacts
<1>10. CASE \E c \in Conns : Client(c)
  <2>1. PICK c \in Conns : Client(c)
    BY <1>10
  <2>2. UNCHANGED processed
    BY <1>1, <2>1, ClientFacts
  <2>3. CASE \A d \in Conns : conn'[d].sent = conn[d].sent
    BY <1>2, <2>2, <2>3
  <2>4. CASE /\ conn'[c].sent = conn[c].sent + 1
             /\ \A d \in Conns \ {c} : conn'[d].sent = conn[d].sent
    <3>1. Sent' = [Sent EXCEPT ![c] = @ + 1]
      BY <2>4 DEF Sent
    <3>2. Stream!Send(c)
      BY <2>2, <3>1 DEF Stream!Send, Sent
    <3>3. QED
      BY <3>2 DEF Stream!Next
  <2>5. QED
    BY <1>1, <2>1, <2>3, <2>4, ClientFacts
<1>11. CASE UNCHANGED <<conn, processed>>
  BY <1>2, <1>11
<1>12. ASSUME NEW g \in Handles, ThreadProcStep(g) PROVE UNCHANGED <<conn, processed>>
  BY <1>12 DEF ThreadProcStep, netVars
<1>13. ASSUME NEW c \in Callers, OwnerStart(c) PROVE UNCHANGED <<conn, processed>>
  BY <1>13 DEF OwnerStart, StartServer, StopServer, DisConnectAll, netVars
<1>14. ASSUME NEW c \in Callers, StopServerReturn(c) \/ DisConnectLoopEnd \/ DisConnectClear
       PROVE  UNCHANGED <<conn, processed>>
  BY <1>14 DEF StopServerReturn, DisConnectLoopEnd, DisConnectClear, netVars
<1>15. CASE UNCHANGED svars
  BY <1>11, <1>15 DEF svars, netVars
<1>16. QED
  BY <1>4, <1>5, <1>6, <1>7, <1>8, <1>9, <1>10, <1>11, <1>12, <1>13, <1>14, <1>15
     DEF ServerNext, HandleThread, OwnerContinue

(* The receive callback is given every client's bytes as a stream: the     *)
(* splitting by recv, the leftovers the callback returns and their reunion *)
(* (getNewDataMsg, savePreMsg, CloseSocket, TcpServer.cpp:184-464) lose,   *)
(* repeat, reorder and mix none, for any number of connections, sockets,   *)
(* bytes and restarts, as long as no two rounds overlap and, if urgent     *)
(* data arrives, DisConnectAll has forgotten no open connection.           *)
THEOREM StreamWhileCalm == ServerSpec /\ []OneRound /\ []Calm => StreamSpec
<1>1. ServerInit => StreamInv /\ Stream!Init
  BY DEF ServerInit, StreamInv, ReadsInv, FreshInv, RestInv, WorkInv, CalmInv, Stream!Init
<1>2. QED
  BY <1>1, StreamStep, StreamSimulated, ServerInvariant, PTL
     DEF ServerSpec, StreamSpec, Stream!Spec, Sent

(* The same without a condition on the behaviour: a server that is started *)
(* once, stopped and disconnected at any time, whose clients send no       *)
(* urgent data.                                                            *)
THEOREM StreamRefined == ASSUME MaxStarts = 1, UrgentConns = {} PROVE ServerSpec => StreamSpec
<1>1. OneRound /\ Calm
  BY OneStart DEF Calm
<1>2. QED
  BY <1>1, StreamWhileCalm, PTL

============================================================================

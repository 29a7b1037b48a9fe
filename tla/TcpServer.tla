----------------------------- MODULE TcpServer -----------------------------
(***************************************************************************)
(* CTcpServer (Tcp/TcpServer.h, TcpServer.cpp:1-464): one CThreadCheck     *)
(* whose callback HandleThread does a round of select, accept or recv, and *)
(* an owner that starts and stops it.  The receive callback may leave a    *)
(* tail of its input unprocessed; the server keeps it per socket in        *)
(* m_preMsgMap and puts it in front of the next bytes.                     *)
(*                                                                         *)
(* Composed with ThreadCheck: m_thread is the object Srv.  m_clientSocket- *)
(* List and m_preMsgMap are shared without a lock by the owner and by      *)
(* every live worker, so both sides are modelled one loop iteration at a   *)
(* time.  Single operations of the vector and the map are atomic here.     *)
(*                                                                         *)
(* Sockets are small numbers that the system reuses once they are closed.  *)
(* The network and the clients are external.                               *)
(***************************************************************************)
EXTENDS ThreadCheck, SequencesExt

CONSTANTS
    Srv,            \* the m_thread of the server
    Conns,          \* the connections clients make
    MaxSocket,      \* sockets are 1..MaxSocket
    MaxBytes,       \* bound: bytes sent on each connection
    UrgentConns,    \* bound: connections on which urgent data may arrive
    FD_SETSIZE      \* capacity of an fd_set

ASSUME TcpAssumption ==
    /\ Objects = {Srv}
    /\ MaxSocket \in Nat \ {0} /\ MaxBytes \in [Conns -> Nat] /\ FD_SETSIZE \in Nat \ {0}

VARIABLES
    (* the network *)
    conn,           \* per connection: state, client's side, socket, counters
    (* the server object *)
    m_soServer, m_receiveCB, m_clientSocketList, m_preMsgMap,
    (* HandleThread, per worker *)
    hpc, fdRead, fdExcept, outPut, idx,
    (* the owner in StopServer and DisConnectAll *)
    opc, oidx,
    (* what the receive callback declared processed, per connection *)
    processed

netVars == conn
srvVars == <<m_soServer, m_receiveCB, m_clientSocketList, m_preMsgMap>>
frame == <<hpc, fdRead, fdExcept, outPut, idx>>
ownerVars == <<opc, oidx>>
svars == <<tvars, netVars, srvVars, frame, ownerVars, processed>>

SOCKET == 1..MaxSocket
INVALID_SOCKET == 0

Bytes(c, m, n) == [k \in 1..n - m |-> <<c, m + k>>]

(* state: new, backlog (connected, not accepted), open (accepted), closed  *)
(* by the server or gone.  peer: what the client did to its side.          *)
Connection ==
    [state : {"new", "backlog", "open", "closed"},
     peer : {"up", "fin", "rst"},
     sock : 0..MaxSocket, sent : Nat, rcvd : Nat,
     urgent : BOOLEAN]

OpenAt(s) == {c \in Conns : conn[c].state = "open" /\ conn[c].sock = s}
IsOpen(s) == OpenAt(s) # {}
ConnAt(s) == CHOOSE c \in Conns : c \in OpenAt(s)

TypeOKServer ==
    /\ TypeOK
    /\ conn \in [Conns -> Connection]
    /\ \A s \in SOCKET : Cardinality(OpenAt(s)) <= 1
    /\ m_soServer \in {"none", "socket", "listening"}
    /\ m_receiveCB \in BOOLEAN
    /\ m_clientSocketList \in Seq(0..MaxSocket)
    /\ DOMAIN m_preMsgMap \subseteq 0..MaxSocket
    /\ hpc \in [Handles -> {"out", "accept", "read", "callback", "except"}]
    /\ \A g \in Handles : hpc[g] # "out" => pc[Srv][g] = "call"
    /\ opc \in {"idle", "stopping", "disconnect", "clear"}
    /\ oidx \in 0..FD_SETSIZE

ServerInit ==
    /\ ThreadInit
    /\ m_hThreadCB = [o \in Objects |-> TRUE]
    /\ conn = [c \in Conns |-> [state |-> "new", peer |-> "up", sock |-> 0,
                                sent |-> 0, rcvd |-> 0, urgent |-> FALSE]]
    /\ m_soServer = "none"
    /\ m_receiveCB \in BOOLEAN
    /\ m_clientSocketList = <<>>
    /\ m_preMsgMap = [s \in {} |-> <<>>]
    /\ hpc = [g \in Handles |-> "out"]
    /\ fdRead = [g \in Handles |-> <<>>]
    /\ fdExcept = [g \in Handles |-> {}]
    /\ outPut = [g \in Handles |-> <<>>]
    /\ idx = [g \in Handles |-> 0]
    /\ opc = "idle" /\ oidx = 0
    /\ processed = [c \in Conns |-> <<>>]

----------------------------------------------------------------------------
(* Clients and network (external). *)

ClientStep(c, rec) ==
    /\ conn' = [conn EXCEPT ![c] = rec]
    /\ UNCHANGED <<tvars, srvVars, frame, ownerVars, processed>>

ClientConnect(c) ==
    /\ m_soServer = "listening" /\ conn[c].state = "new"
    /\ ClientStep(c, [conn[c] EXCEPT !.state = "backlog"])

ClientSend(c) ==
    /\ conn[c].state = "open" /\ conn[c].peer = "up"
    /\ conn[c].sent < MaxBytes[c]
    /\ ClientStep(c, [conn[c] EXCEPT !.sent = @ + 1])

ClientUrgent(c) ==
    /\ c \in UrgentConns
    /\ conn[c].state = "open" /\ conn[c].peer = "up" /\ ~conn[c].urgent
    /\ ClientStep(c, [conn[c] EXCEPT !.urgent = TRUE])

(* The client closes its side or resets the connection.  In the backlog    *)
(* only a reset shows; what else happens there might as well happen right  *)
(* after the accept.                                                       *)
ClientLeave(c, how) ==
    /\ conn[c].state = "open" /\ conn[c].peer = "up"
    /\ ClientStep(c, [conn[c] EXCEPT !.peer = how])

ClientAbort(c) ==
    /\ conn[c].state = "backlog"
    /\ ClientStep(c, [conn[c] EXCEPT !.state = "closed"])

----------------------------------------------------------------------------
(* The leftovers: m_preMsgMap is a function of the sockets that are keys.  *)

KeySet == DOMAIN m_preMsgMap

PutMsg(s, msg) ==
    [t \in KeySet \cup {s} |-> IF t = s THEN msg ELSE m_preMsgMap[t]]

getNewDataMsgBehind(s, msg) ==
    IF s \in KeySet THEN msg \o m_preMsgMap[s] ELSE msg

(* getNewDataMsg: the leftover of s, then the new bytes; the entry is      *)
(* emptied but stays.                                                      *)
getNewDataMsg(s, msg) ==
    IF s \in KeySet THEN m_preMsgMap[s] \o msg ELSE msg

TakePreMsg(s) == IF s \in KeySet THEN PutMsg(s, <<>>) ELSE m_preMsgMap

(* savePreMsg: bytes for a socket without an entry are dropped. *)
savePreMsg(s, msg) ==
    IF s \in KeySet THEN PutMsg(s, m_preMsgMap[s] \o msg) ELSE m_preMsgMap

deletePreMsg(s) == [t \in KeySet \ {s} |-> m_preMsgMap[t]]

closesocket(s) ==
    [c \in Conns |->
        IF c \in OpenAt(s)
        THEN [conn[c] EXCEPT !.state = "closed", !.sock = INVALID_SOCKET,
                             !.peer = "up", !.rcvd = 0, !.urgent = FALSE]
        ELSE conn[c]]

(* The sequence of the elements of q at the positions in I: what erase     *)
(* leaves of a vector, and select of an fd_set.  Rank numbers the places.  *)
Rank(I, i) == Cardinality({j \in I : j <= i})

Keep(q, I) == [k \in 1..Cardinality(I) |-> q[CHOOSE i \in I : Rank(I, i) = k]]

Without(q, s) == Keep(q, {i \in DOMAIN q : q[i] # s})

CloseSocketKeepMsg(s) ==
    /\ m_clientSocketList' = Without(m_clientSocketList, s)
    /\ conn' = IF Contains(m_clientSocketList, s) THEN closesocket(s) ELSE conn
    /\ UNCHANGED m_preMsgMap

(* CloseSocket: the socket is closed only if it is found in the list. *)
CloseSocket(s) ==
    /\ m_preMsgMap' = deletePreMsg(s)
    /\ m_clientSocketList' = Without(m_clientSocketList, s)
    /\ conn' = IF Contains(m_clientSocketList, s) THEN closesocket(s) ELSE conn

----------------------------------------------------------------------------
(* HandleThread, in worker g. *)

HandleReturnStay(g) ==
    /\ WorkerReturn(Srv, g)
    /\ fdRead' = [fdRead EXCEPT ![g] = <<>>]
    /\ fdExcept' = [fdExcept EXCEPT ![g] = {}]
    /\ idx' = [idx EXCEPT ![g] = 0]
    /\ UNCHANGED <<outPut, hpc>>

HandleReturn(g) ==
    /\ WorkerReturn(Srv, g)
    /\ hpc' = [hpc EXCEPT ![g] = "out"]
    /\ fdRead' = [fdRead EXCEPT ![g] = <<>>]
    /\ fdExcept' = [fdExcept EXCEPT ![g] = {}]
    /\ idx' = [idx EXCEPT ![g] = 0]
    /\ UNCHANGED outPut

First(n, q) == SubSeq(q, 1, IF n < Len(q) THEN n ELSE Len(q))

Readable(s) ==
    LET k == conn[ConnAt(s)] IN k.rcvd < k.sent \/ k.peer # "up"

Backlog == {c \in Conns : conn[c].state = "backlog"}

WatchedReadShort == First(FD_SETSIZE - 2, m_clientSocketList)

(* FD_SET ignores what exceeds FD_SETSIZE, and the server's own socket     *)
(* takes the first place of fdRead.                                        *)
WatchedRead == First(FD_SETSIZE - 1, m_clientSocketList)

WatchedExcept == First(FD_SETSIZE, m_clientSocketList)

SelectFails ==
    \E s \in ToSet(WatchedRead) \cup ToSet(WatchedExcept) : ~IsOpen(s)

(* HandleThread up to the result of select: an error or nothing ready      *)
(* returns, the server's socket comes before the clients'.                 *)
HandleSelect(g) ==
    /\ pc[Srv][g] = "call" /\ hpc[g] = "out"
    /\ \/ /\ m_soServer = "none" \/ SelectFails
          /\ HandleReturn(g)
       \/ /\ m_soServer # "none" /\ ~SelectFails
          /\ LET ready == Keep(WatchedRead,
                              {i \in DOMAIN WatchedRead : Readable(WatchedRead[i])})
                 except == {s \in ToSet(WatchedExcept) : conn[ConnAt(s)].urgent}
             IN  \/ /\ Backlog # {}
                    /\ hpc' = [hpc EXCEPT ![g] = "accept"]
                    /\ UNCHANGED <<tvars, fdRead, fdExcept, outPut, idx>>
                 \/ /\ Backlog = {} /\ ready = <<>>
                    /\ HandleReturn(g)
                 \/ /\ Backlog = {} /\ ready # <<>>
                    /\ hpc' = [hpc EXCEPT ![g] = "read"]
                    /\ fdRead' = [fdRead EXCEPT ![g] = ready]
                    /\ fdExcept' = [fdExcept EXCEPT ![g] = except]
                    /\ UNCHANGED <<tvars, outPut, idx>>
    /\ UNCHANGED <<netVars, srvVars, ownerVars, processed>>

(* accept.  SOCKET is unsigned, so the test soClient < 0 never holds and a *)
(* failed accept enters INVALID_SOCKET like a client.                      *)
HandleAccept(g) ==
    /\ hpc[g] = "accept"
    /\ HandleReturn(g)
    /\ \/ /\ Len(m_clientSocketList) >= FD_SETSIZE
          /\ UNCHANGED <<netVars, m_preMsgMap, m_clientSocketList>>
       \/ /\ Len(m_clientSocketList) < FD_SETSIZE
          /\ \/ \E c \in Backlog, s \in {t \in SOCKET : ~IsOpen(t)} :
                    /\ conn' = [conn EXCEPT ![c].state = "open", ![c].sock = s]
                    /\ m_preMsgMap' = PutMsg(s, <<>>)
                    /\ m_clientSocketList' = Append(m_clientSocketList, s)
             \/ /\ Backlog = {}
                /\ m_preMsgMap' = PutMsg(INVALID_SOCKET, <<>>)
                /\ m_clientSocketList' = Append(m_clientSocketList, INVALID_SOCKET)
                /\ UNCHANGED netVars
    /\ UNCHANGED <<m_soServer, m_receiveCB, ownerVars, processed>>

(* FD_CLR moves the rest of fd_array down while the loop index goes up, so *)
(* the socket after the one just served waits for the next round.          *)
FD_CLR(g) == fdRead' = [fdRead EXCEPT ![g] = RemoveAt(@, idx[g] + 1)]

(* recv and what follows it for one socket, up to the receive callback.    *)
(* No bytes means closed or would block, which is treated as closed.       *)
HandleRead(g) ==
    /\ hpc[g] = "read" /\ idx[g] < Len(fdRead[g])
    /\ LET s == fdRead[g][idx[g] + 1]
           c == ConnAt(s)
           gone == IsOpen(s) => conn[c].peer = "rst" \/ conn[c].rcvd = conn[c].sent
       IN  \/ /\ gone
              /\ CloseSocket(s)
              /\ FD_CLR(g)
              /\ hpc' = [hpc EXCEPT ![g] = "except"]
              /\ UNCHANGED outPut
           \/ /\ ~gone
              /\ \E n \in conn[c].rcvd + 1..conn[c].sent :
                    /\ conn' = [conn EXCEPT ![c].rcvd = n]
                    /\ \/ /\ m_receiveCB
                          /\ outPut' = [outPut EXCEPT ![g] =
                                 getNewDataMsg(s, Bytes(c, conn[c].rcvd, n))]
                          /\ m_preMsgMap' = TakePreMsg(s)
                          /\ hpc' = [hpc EXCEPT ![g] = "callback"]
                          /\ UNCHANGED fdRead
                       \/ /\ ~m_receiveCB
                          /\ FD_CLR(g)
                          /\ hpc' = [hpc EXCEPT ![g] = "except"]
                          /\ UNCHANGED <<outPut, m_preMsgMap>>
              /\ UNCHANGED m_clientSocketList
    /\ UNCHANGED <<tvars, m_soServer, m_receiveCB, fdExcept, idx, ownerVars, processed>>

(* m_receiveCB returns how many bytes at the end it left unprocessed. *)
HandleCallback(g) ==
    /\ hpc[g] = "callback"
    /\ \E nProLen \in 0..Len(outPut[g]) :
           LET used == Len(outPut[g]) - nProLen
               c == Last(outPut[g])[1]
           IN  /\ processed' = [processed EXCEPT ![c] = @ \o SubSeq(outPut[g], 1, used)]
               /\ m_preMsgMap' = savePreMsg(fdRead[g][idx[g] + 1],
                      SubSeq(outPut[g], used + 1, Len(outPut[g])))
    /\ outPut' = [outPut EXCEPT ![g] = <<>>]
    /\ FD_CLR(g)
    /\ hpc' = [hpc EXCEPT ![g] = "except"]
    /\ UNCHANGED <<tvars, netVars, m_soServer, m_receiveCB, m_clientSocketList,
                   fdExcept, idx, ownerVars>>

(* The end of an iteration.  fdExcept.fd_array is indexed with the index   *)
(* of fdRead, and may be read beyond fd_count, where stale entries are:    *)
(* which pending exception it finds, if any, is left open.                 *)
HandleExcept(g) ==
    /\ hpc[g] = "except"
    /\ \/ /\ UNCHANGED <<netVars, m_preMsgMap, m_clientSocketList, fdExcept>>
       \/ \E s \in fdExcept[g] :
             /\ CloseSocket(s)
             /\ fdExcept' = [fdExcept EXCEPT ![g] = @ \ {s}]
    /\ hpc' = [hpc EXCEPT ![g] = "read"]
    /\ idx' = [idx EXCEPT ![g] = @ + 1]
    /\ UNCHANGED <<tvars, m_soServer, m_receiveCB, fdRead, outPut, ownerVars, processed>>

HandleDone(g) ==
    /\ hpc[g] = "read" /\ idx[g] >= Len(fdRead[g])
    /\ HandleReturn(g)
    /\ UNCHANGED <<netVars, srvVars, ownerVars, processed>>

(* ThreadProc outside HandleThread. *)
ThreadProcStep(g) ==
    /\ \/ WorkerBegin(Srv, g)
       \/ WorkerTest(Srv, g)
       \/ WorkerWake(Srv, g)
       \/ WorkerExit(Srv, g)
    /\ UNCHANGED <<netVars, srvVars, frame, ownerVars, processed>>

----------------------------------------------------------------------------
(* The owner. *)

(* StartServer.  The socket is never closed, so bind fails once it is      *)
(* bound; it also fails when the port is taken.                            *)
StartServer(c) ==
    /\ opc = "idle"
    /\ \/ StartRun(Srv, c, TRUE)
       \/ StartRunIgnored(Srv, c, TRUE)
    /\ \/ m_soServer = "listening" /\ UNCHANGED m_soServer
       \/ m_soServer # "listening" /\ m_soServer' \in {"socket", "listening"}
    /\ UNCHANGED <<netVars, m_receiveCB, m_clientSocketList, m_preMsgMap, frame,
                   ownerVars, processed>>

StopServer(c) ==
    /\ opc = "idle"
    /\ StopSignal(Srv, c)
    /\ opc' = "stopping"
    /\ UNCHANGED <<netVars, srvVars, frame, oidx, processed>>

StopServerReturn(c) ==
    /\ opc = "stopping"
    /\ StopReturn(Srv, c)
    /\ opc' = "disconnect" /\ oidx' = 0
    /\ UNCHANGED <<netVars, srvVars, frame, processed>>

DisConnectAll ==
    /\ opc = "idle"
    /\ opc' = "disconnect" /\ oidx' = 0
    /\ UNCHANGED <<tvars, netVars, srvVars, frame, processed>>

DisConnectStep ==
    /\ opc = "disconnect" /\ oidx < Len(m_clientSocketList)
    /\ LET s == m_clientSocketList[oidx + 1]
       IN  /\ m_preMsgMap' = deletePreMsg(s)
           /\ conn' = closesocket(s)
           /\ m_clientSocketList' =
                  [m_clientSocketList EXCEPT ![oidx + 1] = INVALID_SOCKET]
    /\ oidx' = oidx + 1
    /\ UNCHANGED <<tvars, m_soServer, m_receiveCB, frame, opc, processed>>

DisConnectLoopEnd ==
    /\ opc = "disconnect" /\ oidx >= Len(m_clientSocketList)
    /\ opc' = "clear"
    /\ UNCHANGED <<tvars, netVars, srvVars, frame, oidx, processed>>

DisConnectClear ==
    /\ opc = "clear"
    /\ m_clientSocketList' = <<>>
    /\ opc' = "idle" /\ oidx' = 0
    /\ UNCHANGED <<tvars, netVars, m_soServer, m_receiveCB, m_preMsgMap, frame,
                   processed>>

----------------------------------------------------------------------------
Client(c) ==
    \/ ClientConnect(c)
    \/ ClientSend(c)
    \/ ClientUrgent(c)
    \/ ClientAbort(c)
    \/ \E how \in {"fin", "rst"} : ClientLeave(c, how)

HandleThread(g) ==
    \/ HandleSelect(g)
    \/ HandleAccept(g)
    \/ HandleRead(g)
    \/ HandleCallback(g)
    \/ HandleExcept(g)
    \/ HandleDone(g)

OwnerStart(c) == StartServer(c) \/ StopServer(c) \/ DisConnectAll

OwnerContinue(c) ==
    \/ StopServerReturn(c)
    \/ DisConnectStep
    \/ DisConnectLoopEnd
    \/ DisConnectClear

ServerNext ==
    \/ \E c \in Conns : Client(c)
    \/ \E g \in Handles : ThreadProcStep(g) \/ HandleThread(g)
    \/ \E c \in Callers : OwnerStart(c) \/ OwnerContinue(c)

ServerSpec == ServerInit /\ [][ServerNext]_svars

(* Threads run, the waits of StopRun and select are bounded and callbacks  *)
(* return.  Clients and the owner owe nothing.                             *)
ServerFairSpec ==
    /\ ServerSpec
    /\ \A g \in Handles : WF_svars(ThreadProcStep(g) \/ HandleThread(g))
    /\ \A c \in Callers : WF_svars(OwnerContinue(c))

----------------------------------------------------------------------------
(* The receive callback is given every client's bytes as a stream (see     *)
(* ByteStream): splitting by recv, the leftovers it returns and their      *)
(* reunion in getNewDataMsg and savePreMsg lose, repeat and reorder none.  *)
Stream ==
    INSTANCE ByteStream WITH
        sent <- [c \in Conns |-> conn[c].sent],
        delivered <- processed

StreamSpec == Stream!Spec

(* A leftover belongs to the connection that is open at its socket: it is  *)
(* not kept beyond the connection, where the next client that gets the     *)
(* same SOCKET value would find it, whoever closed the socket.             *)
LeftoverOwned ==
    \A s \in KeySet :
        m_preMsgMap[s] # <<>> =>
            /\ IsOpen(s)
            /\ \A b \in ToSet(m_preMsgMap[s]) : b[1] = ConnAt(s)

(* While the server runs and a client stays connected, among the first     *)
(* FD_SETSIZE - 1 (TcpServer.cpp:223 gives one place away), all the client *)
(* sends is read in the end, although each served socket makes the loop    *)
(* skip the next one.  (Clients send finitely much here: nothing keeps a   *)
(* client that never pauses from starving the next.)                       *)
AllRead ==
    \A c \in Conns :
        <>[](/\ m_hThread[Srv] # NULL /\ ~m_bStopCheck[Srv] /\ opc = "idle"
             /\ conn[c].state = "open" /\ conn[c].peer = "up"
             /\ \E k \in 1..FD_SETSIZE - 1 :
                    k <= Len(m_clientSocketList) /\ m_clientSocketList[k] = conn[c].sock
             /\ ~Contains(m_clientSocketList, INVALID_SOCKET))
        => <>[](conn[c].rcvd = conn[c].sent)

(* TcpServer.h:40 says of DisConnectAll: disconnects all connections.  So  *)
(* it never makes the server lose an open one from its list.               *)
NoneForgotten ==
    \A c \in Conns :
        conn[c].state = "open" => Contains(m_clientSocketList, conn[c].sock)
============================================================================

-------------------------- MODULE TcpClientProofs --------------------------
(***************************************************************************)
(* What holds of CTcpClient for every number of receive threads, sockets,  *)
(* messages and faults, provided that the user does not call ConnectServer *)
(* while somebody is inside Disconnect (ConnectWaits).                     *)
(*                                                                         *)
(* The argument: m_isConnect can only become true between two moments at   *)
(* which nobody has passed the test of Disconnect, so whoever is past      *)
(* m_isConnect = false finds it false until it has cleared m_soClient, and *)
(* no socket is made meanwhile that a second thread could clear or close   *)
(* by mistake.                                                             *)
(***************************************************************************)
EXTENDS TcpClient, ThreadCheckProofs

(* Where a thread is in Disconnect after m_isConnect = false. *)
Leaving == {"stop", "wait", "close", "clear"}

(* While ConnectServer waits for the network nobody is past the test. *)
ConnectAlone ==
    upc \in {"connect", "select"} =>
        ~m_isConnect /\ \A c \in Callers : dpc[c] \in {"no", "test"}

(* Whoever has reset m_isConnect finds it reset to the end. *)
LeavingReset == \A c \in Callers : dpc[c] \in Leaving => ~m_isConnect

(* m_soClient is cleared after its socket was closed. *)
ClearAfterClose == \A c \in Callers : dpc[c] = "clear" => ~IsOpen(m_soClient)

(* The last status told is "Connect" exactly while the client is connected *)
(* or somebody is about to tell otherwise.                                 *)
ToldAhead ==
    /\ m_isConnect => told = "Connect"
    /\ told = "Connect" => m_isConnect \/ \E c \in Callers : dpc[c] \in Leaving

(* HandleSocketReceive goes on only when its Disconnect has returned. *)
FrameWaits == \A g \in Handles : dpc[g] # "no" => hpc[g] \in {"except", "end"}

ClientInv ==
    /\ FrameWaits
    /\ ConnectAlone
    /\ LeavingReset
    /\ ClearAfterClose
    /\ ToldAhead
    /\ ConnectedMeansOpen
    /\ NoSocketLeak

----------------------------------------------------------------------------
(* Every step of the client is a step of its CThreadCheck or leaves it     *)
(* alone: the receive thread is only used through StartRun, StopRun and    *)
(* ThreadProc.                                                             *)
LEMMA ClientThread == ClientNext => [Next]_tvars
<1> SUFFICES ASSUME ClientNext PROVE [Next]_tvars
  OBVIOUS
<1> USE ClientAssumption DEF User
<1>1. ASSUME NEW s \in SOCKET, Net(s) PROVE [Next]_tvars
  BY <1>1 DEF Net
<1>2. ASSUME UserCall PROVE [Next]_tvars
  BY <1>2 DEF UserCall, ConnectBegin, UserDisconnect, Destroy
<1>3. ASSUME UserContinue PROVE [Next]_tvars
  BY <1>3 DEF UserContinue, ConnectCall, ConnectSelect, ConnectStart, DestroyThread,
              DestroyDone, Next, Owner
<1>4. ASSUME NEW c \in Callers, Disconnect(c) PROVE [Next]_tvars
  BY <1>4 DEF Disconnect, DisconnectTest, DisconnectReset, DisconnectStop, DisconnectStopped,
              DisconnectClose, DisconnectClear, Next, Owner
<1>5. ASSUME NEW g \in Handles, ThreadProcStep(g) PROVE [Next]_tvars
  BY <1>5 DEF ThreadProcStep, Next, Worker
<1>6. ASSUME NEW g \in Handles, HandleSocketReceive(g) PROVE [Next]_tvars
  BY <1>6 DEF HandleSocketReceive, HandleSelect, HandleRead, HandleRecv, HandleExcept,
              HandleEnd, HandleReturn, Next, Worker
<1>7. QED
  BY <1>1, <1>2, <1>3, <1>4, <1>5, <1>6 DEF ClientNext

----------------------------------------------------------------------------
(* The state of one socket of the system. *)
SockRec == [st : SockState, data : Nat, oob : BOOLEAN]

(* An assignment to one field of one socket keeps the record type. *)
LEMMA SockField ==
    ASSUME NEW f \in [SOCKET -> SockRec], NEW s \in SOCKET
    PROVE  /\ \A x \in SockState : [f EXCEPT ![s].st = x] \in [SOCKET -> SockRec]
           /\ \A n \in Nat : [f EXCEPT ![s].data = n] \in [SOCKET -> SockRec]
           /\ \A b \in BOOLEAN : [f EXCEPT ![s].oob = b] \in [SOCKET -> SockRec]
<1>1. f[s] \in SockRec
  OBVIOUS
<1>2. ASSUME NEW x \in SockState PROVE [f EXCEPT ![s].st = x] \in [SOCKET -> SockRec]
  <2>1. [f[s] EXCEPT !.st = x] \in SockRec
    BY <1>1 DEF SockRec
  <2>2. QED
    BY <2>1
<1>3. ASSUME NEW n \in Nat PROVE [f EXCEPT ![s].data = n] \in [SOCKET -> SockRec]
  <2>1. [f[s] EXCEPT !.data = n] \in SockRec
    BY <1>1 DEF SockRec
  <2>2. QED
    BY <2>1
<1>4. ASSUME NEW b \in BOOLEAN PROVE [f EXCEPT ![s].oob = b] \in [SOCKET -> SockRec]
  <2>1. [f[s] EXCEPT !.oob = b] \in SockRec
    BY <1>1 DEF SockRec
  <2>2. QED
    BY <2>1
<1>5. QED
  BY <1>2, <1>3, <1>4

(* The fields of the client, the network and the frames of                 *)
(* HandleSocketReceive keep their types in every step.                     *)
LEMMA ClientTypeStep == TypeOKClient /\ [ClientNext]_cvars => TypeOKClient'
<1> SUFFICES ASSUME TypeOKClient, [ClientNext]_cvars PROVE TypeOKClient'
  OBVIOUS
<1> USE ClientAssumption DEF User, SOCKET, INVALID_SOCKET, SockState, Free
<1>1. TypeOK'
  BY ClientThread, TypeStep DEF TypeOKClient, cvars
<1>0. sock \in [SOCKET -> SockRec]
  BY DEF TypeOKClient, SockRec
<1> DEFINE Sockets == [SOCKET -> SockRec]
<1>2. ASSUME NEW s \in SOCKET, Net(s) PROVE TypeOKClient'
  <2>1. CASE NetEstablish(s)
    BY <1>1, <1>2, <2>1 DEF TypeOKClient, Net, NetEstablish, object, frame
  <2>2. CASE PeerSend(s)
    <3>1. sock' \in Sockets
      <4>1. sock[s].data + 1 \in Nat
        BY DEF TypeOKClient
      <4>2. sock' = [sock EXCEPT ![s].data = sock[s].data + 1]
        BY <2>2 DEF PeerSend
      <4>3. QED
        BY <1>0, <4>1, <4>2, SockField
    <3>2. sentData' \in 0..MaxData
      BY <2>2 DEF TypeOKClient, PeerSend
    <3>3. QED
      BY <1>1, <1>2, <2>2, <3>1, <3>2 DEF TypeOKClient, SockRec, Net, PeerSend, object, frame
  <2>3. CASE NetFault(s)
    <3>1. sock' \in Sockets
      <4>1. /\ \A x \in SockState : [sock EXCEPT ![s].st = x] \in Sockets
            /\ \A b \in BOOLEAN : [sock EXCEPT ![s].oob = b] \in Sockets
        BY <1>0, SockField
      <4>2. /\ [sock EXCEPT ![s].st = "refused"] \in Sockets
            /\ [sock EXCEPT ![s].st = "fin"] \in Sockets
            /\ [sock EXCEPT ![s].st = "rst"] \in Sockets
            /\ [sock EXCEPT ![s].oob = TRUE] \in Sockets
        BY <4>1
      <4> HIDE DEF Sockets
      <4>3. QED
        BY <2>3, <4>2 DEF NetFault
    <3>2. faults' \in 0..MaxFaults
      BY <2>3 DEF TypeOKClient, NetFault
    <3>3. QED
      BY <1>1, <1>2, <2>3, <3>1, <3>2 DEF TypeOKClient, SockRec, Net, NetFault, object, frame
  <2>4. QED
    BY <1>2, <2>1, <2>2, <2>3 DEF Net
<1>3. ASSUME UserCall PROVE TypeOKClient'
  <2>1. CASE ConnectBegin
    <3>1. sock' \in Sockets /\ m_soClient' \in 0..MaxSocket
      <4>1. CASE UNCHANGED <<m_soClient, sock>>
        BY <1>0, <4>1 DEF TypeOKClient
      <4>2. ASSUME NEW s \in SOCKET, m_soClient' = s,
                   sock' = [sock EXCEPT ![s].st = "fresh"]
            PROVE  sock' \in Sockets /\ m_soClient' \in 0..MaxSocket
        <5>1. \A x \in SockState : [sock EXCEPT ![s].st = x] \in Sockets
          BY <1>0, SockField
        <5>2. [sock EXCEPT ![s].st = "fresh"] \in Sockets
          BY <5>1
        <5> HIDE DEF Sockets
        <5>3. QED
          BY <4>2, <5>2
      <4>3. QED
        BY <2>1, <4>1, <4>2 DEF ConnectBegin
    <3>2. QED
      BY <1>1, <2>1, <3>1 DEF TypeOKClient, SockRec, ConnectBegin, frame
  <2>2. CASE UserDisconnect
    BY <1>1, <2>2 DEF TypeOKClient, UserDisconnect, net, object, frame
  <2>3. CASE Destroy
    BY <1>1, <2>3 DEF TypeOKClient, Destroy, net, object, frame
  <2>4. QED
    BY <1>3, <2>1, <2>2, <2>3 DEF UserCall
<1>4. ASSUME UserContinue PROVE TypeOKClient'
  <2>1. CASE ConnectCall
    BY <1>1, <2>1 DEF TypeOKClient, ConnectCall, object, frame
  <2>2. CASE ConnectSelect
    BY <1>1, <2>2 DEF TypeOKClient, ConnectSelect, net, frame
  <2>3. CASE ConnectStart
    BY <1>1, <2>3 DEF TypeOKClient, ConnectStart, net, object, frame
  <2>4. CASE DestroyThread
    BY <1>1, <2>4 DEF TypeOKClient, DestroyThread, net, object, frame
  <2>5. CASE DestroyDone
    BY <1>1, <2>5 DEF TypeOKClient, DestroyDone, net, object, frame
  <2>6. QED
    BY <1>4, <2>1, <2>2, <2>3, <2>4, <2>5 DEF UserContinue
<1>5. ASSUME NEW c \in Callers, Disconnect(c) PROVE TypeOKClient'
  <2> USE DEF At
  <2>1. CASE DisconnectTest(c)
    BY <1>1, <2>1 DEF TypeOKClient, DisconnectTest, net, object, frame
  <2>2. CASE DisconnectReset(c)
    BY <1>1, <2>2 DEF TypeOKClient, DisconnectReset, net, frame
  <2>3. CASE DisconnectStop(c)
    BY <1>1, <2>3 DEF TypeOKClient, DisconnectStop, net, object, frame
  <2>4. CASE DisconnectStopped(c)
    BY <1>1, <2>4 DEF TypeOKClient, DisconnectStopped, net, object, frame
  <2>5. CASE DisconnectClose(c)
    BY <1>1, <2>5 DEF TypeOKClient, DisconnectClose, closesocket, object
  <2>6. CASE DisconnectClear(c)
    BY <1>1, <2>6 DEF TypeOKClient, DisconnectClear, net, frame
  <2>7. QED
    BY <1>5, <2>1, <2>2, <2>3, <2>4, <2>5, <2>6 DEF Disconnect
<1>6. ASSUME NEW g \in Handles, ThreadProcStep(g) PROVE TypeOKClient'
  BY <1>1, <1>6 DEF TypeOKClient, ThreadProcStep, net, object, frame
<1>7. ASSUME NEW g \in Handles, HandleSocketReceive(g) PROVE TypeOKClient'
  <2>0. ASSUME NEW s, RecvData(g, s) PROVE sock' \in Sockets
    <3>1. s \in SOCKET /\ sock' = [sock EXCEPT ![s].data = 0]
      BY <2>0 DEF RecvData, IsOpen
    <3>2. \A n \in Nat : [sock EXCEPT ![s].data = n] \in Sockets
      BY <1>0, <3>1, SockField
    <3>3. [sock EXCEPT ![s].data = 0] \in Sockets
      BY <3>2
    <3> HIDE DEF Sockets
    <3>4. QED
      BY <3>1, <3>3
  <2>1. CASE HandleSelect(g)
    <3>1. CASE HandleReturn(g)
      BY <1>1, <2>1, <3>1 DEF TypeOKClient, HandleSelect, HandleReturn, net, object
    <3>2. CASE ~HandleReturn(g)
      <4> DEFINE read == {s \in {m_soClient} : IsOpen(s) /\ Readable(s)}
                 except == {s \in {m_soClient} :
                              IsOpen(s) /\ (sock[s].st = "refused" \/ sock[s].oob)}
      <4>1. read \in SUBSET SOCKET /\ except \in SUBSET SOCKET
        BY DEF IsOpen
      <4>2. /\ fdRead' = [fdRead EXCEPT ![g] = read]
            /\ fdExcept' = [fdExcept EXCEPT ![g] = except]
            /\ hpc' = [hpc EXCEPT ![g] = "read"]
            /\ UNCHANGED <<recvOn, dpc, net, object, upc>>
        BY <2>1, <3>2 DEF HandleSelect
      <4> HIDE DEF read, except
      <4>3. QED
        BY <1>1, <4>1, <4>2 DEF TypeOKClient, net, object
    <3>3. QED
      BY <3>1, <3>2
  <2>2. CASE HandleRead(g)
    <3>1. sock' \in Sockets
      BY <1>0, <2>0, <2>2 DEF HandleRead, RecvFailed
    <3>2. \E to \in {"except", "recv"} : hpc' = [hpc EXCEPT ![g] = to]
      BY <2>2 DEF HandleRead, RecvData, RecvFailed
    <3>3. dpc' = dpc \/ dpc' = [dpc EXCEPT ![g] = "test"]
      BY <2>2 DEF HandleRead, RecvData, RecvFailed
    <3>4. recvOn' \in [Handles -> 0..MaxSocket]
      BY <2>2 DEF TypeOKClient, HandleRead
    <3>5. UNCHANGED <<sentData, faults, object, upc, fdRead, fdExcept>>
      BY <2>2 DEF HandleRead
    <3>6. QED
      BY <1>1, <3>1, <3>2, <3>3, <3>4, <3>5 DEF TypeOKClient, SockRec, object
  <2>3. CASE HandleRecv(g)
    <3>1. sock' \in Sockets
      BY <1>0, <2>0, <2>3 DEF HandleRecv, RecvFailed
    <3>2. \E to \in {"except", "recv"} : hpc' = [hpc EXCEPT ![g] = to]
      BY <2>3 DEF HandleRecv, RecvData, RecvFailed
    <3>3. dpc' = dpc \/ dpc' = [dpc EXCEPT ![g] = "test"]
      BY <2>3 DEF HandleRecv, RecvData, RecvFailed
    <3>4. recvOn' \in [Handles -> 0..MaxSocket]
      BY <2>3 DEF TypeOKClient, HandleRecv
    <3>5. UNCHANGED <<sentData, faults, object, upc, fdRead, fdExcept>>
      BY <2>3 DEF HandleRecv
    <3>6. QED
      BY <1>1, <3>1, <3>2, <3>3, <3>4, <3>5 DEF TypeOKClient, SockRec, object
  <2>4. CASE HandleExcept(g)
    BY <1>1, <2>4 DEF TypeOKClient, HandleExcept, HandleReturn, net, object
  <2>5. CASE HandleEnd(g)
    BY <1>1, <2>5 DEF TypeOKClient, HandleEnd, HandleReturn, net, object
  <2>6. QED
    BY <1>7, <2>1, <2>2, <2>3, <2>4, <2>5 DEF HandleSocketReceive
<1>8. CASE UNCHANGED cvars
  BY <1>1, <1>8 DEF TypeOKClient, cvars, net, object, frame
<1>9. QED
  BY <1>2, <1>3, <1>4, <1>5, <1>6, <1>7, <1>8 DEF ClientNext

(* The client keeps its types, and with them those of its CThreadCheck,    *)
(* for any number of receive threads and sockets.                          *)
THEOREM ClientTypeCorrect == ClientSpec => []TypeOKClient
<1>1. ClientInit => TypeOKClient
  <2> SUFFICES ASSUME ClientInit PROVE TypeOKClient
    OBVIOUS
  <2>1. TypeOK
    BY MaxStartsAssumption
       DEF ClientInit, ThreadInit, TypeOK, Handles, NULL, Idle, PC, Mode
  <2>2. Free \in [st : SockState, data : Nat, oob : BOOLEAN]
    BY DEF Free, SockState
  <2>3. sock \in [SOCKET -> [st : SockState, data : Nat, oob : BOOLEAN]]
    BY <2>2 DEF ClientInit
  <2>4. m_isConnect \in BOOLEAN /\ m_receiveCB \in BOOLEAN
    BY DEF ClientInit
  <2>5. /\ sentData \in 0..MaxData /\ faults \in 0..MaxFaults
        /\ m_soClient \in 0..MaxSocket
        /\ recvOn \in [Handles -> 0..MaxSocket]
    BY ClientAssumption DEF ClientInit, INVALID_SOCKET
  <2>6. /\ fdRead \in [Handles -> SUBSET SOCKET]
        /\ fdExcept \in [Handles -> SUBSET SOCKET]
    BY DEF ClientInit
  <2>7. QED
    BY <2>1, <2>3, <2>4, <2>5, <2>6 DEF ClientInit, TypeOKClient
<1>2. QED
  BY <1>1, ClientTypeStep, PTL DEF ClientSpec

----------------------------------------------------------------------------
(* A step that neither makes nor closes a socket. *)
SocketsKept ==
    \A t \in SOCKET :
        /\ sock'[t].st = "none" <=> sock[t].st = "none"
        /\ sock[t].st \in Established => sock'[t].st \in Established

(* What ClientInv says of the sockets survives every such step. *)
LEMMA SocketsKeptInv ==
    ASSUME TypeOKClient, SocketsKept, UNCHANGED m_soClient,
           ClearAfterClose, ConnectedMeansOpen, NoSocketLeak,
           m_isConnect' => m_isConnect,
           \A c \in Callers : dpc'[c] = "clear" => dpc[c] = "clear"
    PROVE  (ClearAfterClose /\ ConnectedMeansOpen /\ NoSocketLeak)'
<1>1. ClearAfterClose'
  BY DEF SocketsKept, ClearAfterClose, IsOpen
<1>2. ConnectedMeansOpen'
  BY DEF SocketsKept, ConnectedMeansOpen
<1>3. NoSocketLeak'
  BY DEF SocketsKept, NoSocketLeak, IsOpen
<1>4. QED
  BY <1>1, <1>2, <1>3

(* The network never makes a socket or takes one away, and what it does to *)
(* a connection leaves the client a connection to notice.                  *)
LEMMA NetKeeps ==
    ASSUME TypeOKClient, NEW s \in SOCKET, Net(s)
    PROVE  SocketsKept
<1> USE DEF TypeOKClient, SocketsKept, Established
<1>1. CASE NetEstablish(s)
  BY <1>1 DEF NetEstablish
<1>2. CASE PeerSend(s)
  BY <1>2 DEF PeerSend
<1>3. CASE NetFault(s)
  BY <1>3 DEF NetFault
<1>4. QED
  BY <1>1, <1>2, <1>3, Net(s) DEF Net

(* No step of the user, of a worker or of the network breaks ClientInv, as *)
(* long as ConnectServer is not called while somebody is in Disconnect.    *)
LEMMA ClientInvStep ==
    ConnectWaits /\ TypeOKClient /\ ClientInv /\ [ClientNext]_cvars => ClientInv'
<1> SUFFICES ASSUME ConnectWaits, TypeOKClient, ClientInv, [ClientNext]_cvars
             PROVE  ClientInv'
  OBVIOUS
<1>0. /\ Callers = {0} \cup Handles /\ 0 \notin Handles
      /\ dpc \in [Callers -> {"no", "test", "reset", "stop", "wait", "close", "clear"}]
      /\ hpc \in [Handles -> {"out", "read", "recv", "aborted", "except", "end"}]
      /\ sock \in [SOCKET -> SockRec]
  BY ClientAssumption DEF User, Handles, TypeOKClient, SockRec
<1> USE DEF ClientInv
<1>1. ASSUME NEW s \in SOCKET, Net(s) PROVE ClientInv'
  <2>1. SocketsKept
    BY <1>1, NetKeeps
  <2>2. UNCHANGED <<m_soClient, m_isConnect, told, upc, dpc, hpc>>
    BY <1>1 DEF Net, object, frame
  <2>3. (ClearAfterClose /\ ConnectedMeansOpen /\ NoSocketLeak)'
    BY <2>1, <2>2, SocketsKeptInv
  <2>4. (FrameWaits /\ ConnectAlone /\ LeavingReset /\ ToldAhead)'
    BY <2>2 DEF FrameWaits, ConnectAlone, LeavingReset, ToldAhead
  <2>5. QED
    BY <2>3, <2>4
<1>2. CASE ConnectBegin
  <2>1. /\ UNCHANGED <<m_isConnect, told, dpc, hpc>> /\ upc' = "connect"
        /\ ~m_isConnect /\ \A c \in Callers : dpc[c] = "no"
    BY <1>2 DEF ConnectBegin, frame
  <2>2. NoSocketLeak'
    <3>1. CASE UNCHANGED <<m_soClient, sock>>
      BY <3>1 DEF NoSocketLeak, IsOpen
    <3>2. ASSUME m_soClient = 0, NEW s \in SOCKET, m_soClient' = s,
                 sock' = [sock EXCEPT ![s].st = "fresh"]
          PROVE  NoSocketLeak'
      <4>1. \A t \in SOCKET : t # m_soClient
        BY <3>2 DEF SOCKET
      <4>2. QED
        BY <1>0, <3>2, <4>1 DEF NoSocketLeak, IsOpen
    <3>3. QED
      BY <1>2, <3>1, <3>2 DEF ConnectBegin, INVALID_SOCKET
  <2>3. QED
    BY <2>1, <2>2 DEF FrameWaits, ConnectAlone, LeavingReset, ClearAfterClose, ToldAhead,
                      ConnectedMeansOpen, Leaving
<1>3. CASE UserDisconnect \/ Destroy
  <2>1. /\ UNCHANGED <<m_soClient, m_isConnect, told, sock, hpc>>
        /\ dpc[0] = "no" /\ dpc' = [dpc EXCEPT ![0] = "test"]
        /\ upc' \notin {"connect", "select"}
    BY <1>3 DEF UserDisconnect, Destroy, UserIdle, User, net, object, frame
  <2>2. /\ \A c \in Callers : dpc'[c] \in Leaving <=> dpc[c] \in Leaving
        /\ \A c \in Callers : dpc'[c] = "clear" <=> dpc[c] = "clear"
        /\ \A g \in Handles : dpc'[g] = dpc[g]
    BY <1>0, <2>1 DEF Leaving
  <2>3. QED
    BY <2>1, <2>2 DEF FrameWaits, ConnectAlone, LeavingReset, ClearAfterClose, ToldAhead,
                      ConnectedMeansOpen, NoSocketLeak, IsOpen
<1>4. CASE ConnectCall
  <2>1. UNCHANGED <<m_soClient, m_isConnect, told, dpc, hpc>> /\ upc = "connect"
    BY <1>4 DEF ConnectCall, object, frame
  <2>2. SocketsKept
    BY <1>0, <1>4 DEF ConnectCall, SocketsKept, Established, SockRec
  <2>3. (ClearAfterClose /\ ConnectedMeansOpen /\ NoSocketLeak)'
    BY <2>1, <2>2, SocketsKeptInv
  <2>4. QED
    BY <2>1, <2>3 DEF FrameWaits, ConnectAlone, LeavingReset, ToldAhead
<1>5. CASE ConnectSelect
  <2>1. /\ UNCHANGED <<m_soClient, sock, dpc, hpc>> /\ upc = "select" /\ upc' = "start"
    BY <1>5 DEF ConnectSelect, net, frame
  <2>2. CASE SelectReady /\ m_isConnect' = TRUE /\ told' = "Connect"
    BY <2>1, <2>2 DEF SelectReady, FrameWaits, ConnectAlone, LeavingReset, ClearAfterClose,
                      ToldAhead, ConnectedMeansOpen, NoSocketLeak, IsOpen, Leaving
  <2>3. CASE UNCHANGED <<m_isConnect, told>>
    BY <2>1, <2>3 DEF FrameWaits, ConnectAlone, LeavingReset, ClearAfterClose,
                      ToldAhead, ConnectedMeansOpen, NoSocketLeak, IsOpen
  <2>4. QED
    BY <1>5, <2>2, <2>3 DEF ConnectSelect
<1>6. CASE ConnectStart \/ DestroyThread \/ DestroyDone
  <2>1. /\ UNCHANGED <<m_soClient, m_isConnect, told, sock, dpc, hpc>>
        /\ upc' \notin {"connect", "select"}
    BY <1>6 DEF ConnectStart, DestroyThread, DestroyDone, net, object, frame
  <2>2. QED
    BY <2>1 DEF FrameWaits, ConnectAlone, LeavingReset, ClearAfterClose, ToldAhead,
                ConnectedMeansOpen, NoSocketLeak, IsOpen
<1>7. ASSUME NEW c \in Callers, Disconnect(c) PROVE ClientInv'
  <2>0. /\ dpc[c] # "no" /\ UNCHANGED upc
        /\ \A d \in Callers : d # c => dpc'[d] = dpc[d]
    BY <1>0, <1>7 DEF Disconnect, DisconnectTest, DisconnectReset, DisconnectStop,
                      DisconnectStopped, DisconnectClose, DisconnectClear, At
  <2>1. CASE DisconnectTest(c)
    <3>1. /\ UNCHANGED <<m_soClient, m_isConnect, told, sock, hpc, upc>>
          /\ \/ m_isConnect /\ dpc' = [dpc EXCEPT ![c] = "reset"]
             \/ dpc' = [dpc EXCEPT ![c] = "no"]
          /\ dpc[c] = "test"
      BY <2>1 DEF DisconnectTest, At, net, object, frame
    <3>2. \A d \in Callers : (dpc'[d] \in Leaving <=> dpc[d] \in Leaving)
                             /\ (dpc'[d] = "clear" <=> dpc[d] = "clear")
      BY <1>0, <3>1 DEF Leaving
    <3>3. FrameWaits'
      BY <1>0, <3>1 DEF FrameWaits
    <3>4. ConnectAlone'
      BY <1>0, <3>1 DEF ConnectAlone
    <3>5. QED
      BY <3>1, <3>2, <3>3, <3>4 DEF LeavingReset, ClearAfterClose, ToldAhead,
                                    ConnectedMeansOpen, NoSocketLeak, IsOpen
  <2>2. CASE DisconnectReset(c)
    <3>1. /\ UNCHANGED <<m_soClient, told, sock, hpc>> /\ m_isConnect' = FALSE
          /\ dpc[c] = "reset" /\ dpc' = [dpc EXCEPT ![c] = "stop"]
      BY <2>2 DEF DisconnectReset, At, net, frame
    <3>2. dpc'[c] \in Leaving
      BY <1>0, <3>1 DEF Leaving
    <3>3. FrameWaits' /\ ConnectAlone'
      BY <1>0, <2>0, <3>1 DEF FrameWaits, ConnectAlone
    <3>4. ClearAfterClose'
      BY <1>0, <2>0, <3>1 DEF ClearAfterClose, IsOpen
    <3>5. QED
      BY <3>1, <3>2, <3>3, <3>4 DEF LeavingReset, ToldAhead,
                                    ConnectedMeansOpen, NoSocketLeak, IsOpen
  <2>3. CASE DisconnectStop(c) \/ DisconnectStopped(c)
    <3>1. /\ UNCHANGED <<m_soClient, m_isConnect, told, sock, hpc>>
          /\ dpc[c] \in {"stop", "wait"} /\ dpc'[c] \in {"wait", "close"}
      BY <1>0, <2>3 DEF DisconnectStop, DisconnectStopped, At, net, object, frame
    <3>2. \A d \in Callers : (dpc'[d] \in Leaving <=> dpc[d] \in Leaving)
                             /\ (dpc'[d] = "clear" <=> dpc[d] = "clear")
      BY <2>0, <3>1 DEF Leaving
    <3>3. FrameWaits' /\ ConnectAlone'
      BY <1>0, <2>0, <3>1 DEF FrameWaits, ConnectAlone
    <3>4. QED
      BY <3>1, <3>2, <3>3 DEF LeavingReset, ClearAfterClose, ToldAhead,
                              ConnectedMeansOpen, NoSocketLeak, IsOpen
  <2>4. CASE DisconnectClose(c)
    <3>1. /\ UNCHANGED <<m_soClient, m_isConnect, told>>
          /\ dpc[c] = "close" /\ dpc'[c] = "clear"
          /\ closesocket(m_soClient)
      BY <1>0, <2>4 DEF DisconnectClose, At, object
    <3>2. \A d \in Callers : dpc'[d] \in Leaving <=> dpc[d] \in Leaving
      BY <2>0, <3>1 DEF Leaving
    <3>3. ~m_isConnect
      BY <3>1 DEF LeavingReset, Leaving
    <3>4. \A t \in SOCKET : sock'[t] = IF t = m_soClient THEN Free ELSE sock[t]
      BY <3>1 DEF closesocket
    <3>5. ~IsOpen(m_soClient)' /\ NoSocketLeak'
      BY <3>1, <3>4 DEF NoSocketLeak, IsOpen, Free
    <3>6. FrameWaits'
      BY <1>0, <2>0, <3>1 DEF FrameWaits, closesocket
    <3>7. ConnectAlone'
      BY <1>0, <2>0, <3>1 DEF ConnectAlone
    <3>8. ClearAfterClose'
      BY <3>5 DEF ClearAfterClose
    <3>9. QED
      BY <3>1, <3>2, <3>3, <3>5, <3>6, <3>7, <3>8 DEF LeavingReset, ToldAhead,
                                                     ConnectedMeansOpen
  <2>5. CASE DisconnectClear(c)
    <3>1. /\ UNCHANGED <<m_isConnect, sock, hpc>> /\ m_soClient' = 0 /\ told' = "Disconnect"
          /\ dpc[c] = "clear" /\ dpc'[c] = "no"
      BY <1>0, <2>5 DEF DisconnectClear, At, net, frame, INVALID_SOCKET
    <3>2. ~m_isConnect /\ ~IsOpen(m_soClient)
      BY <3>1 DEF LeavingReset, ClearAfterClose, Leaving
    <3>3. NoSocketLeak'
      BY <3>1, <3>2 DEF NoSocketLeak, IsOpen
    <3>4. ClearAfterClose'
      BY <3>1, ClientAssumption DEF ClearAfterClose, IsOpen, SOCKET
    <3>5. FrameWaits' /\ ConnectAlone'
      BY <1>0, <2>0, <3>1 DEF FrameWaits, ConnectAlone
    <3>6. QED
      BY <3>1, <3>2, <3>3, <3>4, <3>5 DEF LeavingReset, ToldAhead, ConnectedMeansOpen
  <2>6. QED
    BY <1>7, <2>1, <2>2, <2>3, <2>4, <2>5 DEF Disconnect
<1>8. CASE \E g \in Handles : ThreadProcStep(g)
  <2>1. UNCHANGED <<m_soClient, m_isConnect, told, sock, dpc, hpc, upc>>
    BY <1>8 DEF ThreadProcStep, net, object, frame
  <2>2. QED
    BY <2>1 DEF FrameWaits, ConnectAlone, LeavingReset, ClearAfterClose, ToldAhead,
                ConnectedMeansOpen, NoSocketLeak, IsOpen
<1>9. ASSUME NEW g \in Handles, HandleSocketReceive(g) PROVE ClientInv'
  <2>1. /\ UNCHANGED <<m_soClient, m_isConnect, told, upc>>
        /\ dpc[g] = "no" /\ g # 0
    BY <1>0, <1>9 DEF HandleSocketReceive, HandleSelect, HandleRead, HandleRecv, HandleExcept,
                HandleEnd, object, FrameWaits
  <2>2. \/ dpc' = dpc
        \/ dpc' = [dpc EXCEPT ![g] = "test"] /\ hpc'[g] \in {"except", "end"}
    BY <1>0, <1>9 DEF HandleSocketReceive, HandleSelect, HandleRead, HandleRecv, HandleExcept,
                HandleEnd, HandleReturn, RecvData, RecvFailed
  <2>3. \A f \in Handles : f # g => hpc'[f] = hpc[f]
    BY <1>0, <1>9 DEF HandleSocketReceive, HandleSelect, HandleRead, HandleRecv, HandleExcept,
                HandleEnd, HandleReturn, RecvData, RecvFailed
  <2>4. SocketsKept
    <3>1. \/ UNCHANGED sock
          \/ \E s \in SOCKET : sock' = [sock EXCEPT ![s].data = 0]
      BY <1>9 DEF HandleSocketReceive, HandleSelect, HandleRead, HandleRecv, HandleExcept,
                  HandleEnd, RecvData, RecvFailed, IsOpen, net
    <3>2. QED
      BY <1>0, <3>1 DEF SocketsKept, SockRec
  <2>5. FrameWaits'
    BY <1>0, <2>1, <2>2, <2>3 DEF FrameWaits
  <2>6. \A c \in Callers : /\ dpc'[c] \in Leaving <=> dpc[c] \in Leaving
                           /\ dpc'[c] = "clear" <=> dpc[c] = "clear"
                           /\ dpc[c] \in {"no", "test"} => dpc'[c] \in {"no", "test"}
    BY <1>0, <2>1, <2>2 DEF Leaving
  <2>7. (ClearAfterClose /\ ConnectedMeansOpen /\ NoSocketLeak)'
    BY <2>1, <2>4, <2>6, SocketsKeptInv
  <2>8. QED
    BY <2>1, <2>5, <2>6, <2>7 DEF ConnectAlone, LeavingReset, ToldAhead
<1>10. CASE UNCHANGED cvars
  BY <1>10 DEF FrameWaits, ConnectAlone, LeavingReset, ClearAfterClose, ToldAhead,
               ConnectedMeansOpen, NoSocketLeak, IsOpen, cvars, net, object, frame
<1>11. QED
  BY <1>1, <1>2, <1>3, <1>4, <1>5, <1>6, <1>7, <1>8, <1>9, <1>10
     DEF ClientNext, UserCall, UserContinue

(* ClientInv holds in every reachable state.                               *)
LEMMA ClientInvariant == ASSUME ConnectWaits PROVE ClientSpec => []ClientInv
<1>1. ClientInit => ClientInv
  BY ClientAssumption
     DEF ClientInit, ClientInv, FrameWaits, ConnectAlone, LeavingReset, ClearAfterClose,
         ToldAhead, ConnectedMeansOpen, NoSocketLeak, IsOpen, Free, Leaving, Handles, User
<1>2. QED
  BY <1>1, ClientInvStep, ClientTypeCorrect, PTL DEF ClientSpec

----------------------------------------------------------------------------
(* m_isConnect (TcpServer.cpp:536, 563) is true only while m_soClient is a *)
(* socket with a connection.                                               *)
THEOREM Connected == ASSUME ConnectWaits PROVE ClientSpec => []ConnectedMeansOpen
<1>1. ClientInv => ConnectedMeansOpen
  BY DEF ClientInv
<1>2. QED
  BY <1>1, ClientInvariant, PTL

(* No two threads in Disconnect ever lose a socket: what is open is        *)
(* m_soClient.                                                             *)
THEOREM NoLeak == ASSUME ConnectWaits PROVE ClientSpec => []NoSocketLeak
<1>1. ClientInv => NoSocketLeak
  BY DEF ClientInv
<1>2. QED
  BY <1>1, ClientInvariant, PTL

(* When all calls have returned, m_statusCB was told the status last,      *)
(* although Disconnect tells it from two threads.                          *)
THEOREM Truthful == ASSUME ConnectWaits PROVE ClientSpec => []StatusTruthful
<1>1. ClientInv => StatusTruthful
  BY DEF ClientInv, ToldAhead, StatusTruthful, Disconnecting, Leaving
<1>2. QED
  BY <1>1, ClientInvariant, PTL

(* The receive thread of a client does not die unasked, though it calls    *)
(* StopRun on itself: what is proved of CThreadCheck holds of it here.     *)
THEOREM ReceiverAlive == ClientSpec => []RunningMeansAlive
<1>1. ClientInit => RunningMeansAlive
  BY DEF ClientInit, ThreadInit, RunningMeansAlive, Handles, NULL
<1>2. TypeOKClient /\ RunningMeansAlive /\ [ClientNext]_cvars => RunningMeansAlive'
  BY ClientThread, AliveStep DEF TypeOKClient, cvars
<1>3. QED
  BY <1>1, <1>2, ClientTypeCorrect, PTL DEF ClientSpec
============================================================================

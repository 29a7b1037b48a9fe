----------------------------- MODULE TcpClient -----------------------------
(***************************************************************************)
(* CTcpClient (Tcp/TcpServer.h, TcpServer.cpp:466-671): a user connects    *)
(* and disconnects, and the worker of a CThreadCheck (the object Cli) runs *)
(* HandleSocketReceive, which disconnects as well when the peer is gone.   *)
(* No lock protects m_soClient and m_isConnect.                            *)
(*                                                                         *)
(* Composed with ThreadCheck.  Caller User is the user's thread; caller g  *)
(* is worker g, because Disconnect calls StopRun from the worker too.      *)
(* Disconnect is one step per access to shared state, in either thread.    *)
(* Sockets are small numbers that the system reuses once they are closed;  *)
(* the network and the peer are external.  The destructor ends the object: *)
(* a worker that outlives it finds the memory unchanged.                   *)
(***************************************************************************)
EXTENDS ThreadCheck

CONSTANTS
    Cli,            \* m_receiveThread
    MaxSocket,      \* sockets are 1..MaxSocket
    MaxData,        \* bound: messages the peer sends
    MaxFaults,      \* bound: refused connects, closes, resets, urgent data
    ConnectWaits    \* does the user call ConnectServer only while no
                    \* Disconnect is running?

User == 0

ASSUME ClientAssumption ==
    /\ Objects = {Cli}
    /\ Callers = {User} \cup Handles
    /\ MaxSocket \in Nat \ {0} /\ MaxData \in Nat /\ MaxFaults \in Nat
    /\ ConnectWaits \in BOOLEAN

VARIABLES
    sock,           \* per socket: state, bytes to read, urgent data pending
    sentData, faults,   \* what the peer did so far
    m_soClient, m_isConnect, m_receiveCB,
    told,           \* the last status given to m_statusCB
    upc,            \* the user in ConnectServer or the destructor
    dpc,            \* per thread: where it is in Disconnect
    hpc, fdRead, fdExcept, recvOn   \* HandleSocketReceive, per worker

net == <<sock, sentData, faults>>
object == <<m_soClient, m_isConnect, m_receiveCB, told>>
frame == <<hpc, fdRead, fdExcept, recvOn>>
cvars == <<tvars, net, object, upc, dpc, frame>>

SOCKET == 1..MaxSocket
INVALID_SOCKET == 0
Free == [st |-> "none", data |-> 0, oob |-> FALSE]

SockState == {"none", "fresh", "connecting", "refused", "up", "fin", "rst"}
Established == {"up", "fin", "rst"}
IsOpen(s) == s \in SOCKET /\ sock[s].st # "none"

TypeOKClient ==
    /\ TypeOK
    /\ sock \in [SOCKET -> [st : SockState, data : Nat, oob : BOOLEAN]]
    /\ sentData \in 0..MaxData /\ faults \in 0..MaxFaults
    /\ m_soClient \in 0..MaxSocket
    /\ m_isConnect \in BOOLEAN /\ m_receiveCB \in BOOLEAN
    /\ told \in {"none", "Connect", "Disconnect"}
    /\ upc \in {"idle", "connect", "select", "start", "destroy", "stop", "gone"}
    /\ dpc \in [Callers -> {"no", "test", "reset", "stop", "wait", "close", "clear"}]
    /\ hpc \in [Handles -> {"out", "read", "recv", "aborted", "except", "end"}]
    /\ fdRead \in [Handles -> SUBSET SOCKET]
    /\ fdExcept \in [Handles -> SUBSET SOCKET]
    /\ recvOn \in [Handles -> 0..MaxSocket]

ClientInit ==
    /\ ThreadInit
    /\ m_hThreadCB = [o \in Objects |-> TRUE]
    /\ sock = [s \in SOCKET |-> Free]
    /\ sentData = 0 /\ faults = 0
    /\ m_soClient = INVALID_SOCKET
    /\ m_isConnect = FALSE
    /\ m_receiveCB \in BOOLEAN
    /\ told = "none"
    /\ upc = "idle"
    /\ dpc = [c \in Callers |-> "no"]
    /\ hpc = [g \in Handles |-> "out"]
    /\ fdRead = [g \in Handles |-> {}]
    /\ fdExcept = [g \in Handles |-> {}]
    /\ recvOn = [g \in Handles |-> INVALID_SOCKET]

----------------------------------------------------------------------------
(* Network and peer (external). *)

NetEstablish(s) ==
    /\ sock[s].st = "connecting"
    /\ sock' = [sock EXCEPT ![s].st = "up"]
    /\ UNCHANGED <<sentData, faults>>

PeerSend(s) ==
    /\ sock[s].st = "up" /\ sentData < MaxData
    /\ sock' = [sock EXCEPT ![s].data = @ + 1]
    /\ sentData' = sentData + 1
    /\ UNCHANGED faults

NetFault(s) ==
    /\ faults < MaxFaults
    /\ \/ sock[s].st = "connecting" /\ sock' = [sock EXCEPT ![s].st = "refused"]
       \/ sock[s].st = "up" /\ \/ sock' = [sock EXCEPT ![s].st = "fin"]
                               \/ sock' = [sock EXCEPT ![s].st = "rst"]
                               \/ sock' = [sock EXCEPT ![s].oob = TRUE]
    /\ faults' = faults + 1
    /\ UNCHANGED sentData

Net(s) ==
    /\ NetEstablish(s) \/ PeerSend(s) \/ NetFault(s)
    /\ UNCHANGED <<tvars, object, upc, dpc, frame>>

Readable(s) == sock[s].st \in {"fin", "rst"} \/ sock[s].data > 0

(* closesocket: a recv blocked on the socket ends with an error. *)
closesocket(s) ==
    /\ sock' = [t \in SOCKET |-> IF t = s THEN Free ELSE sock[t]]
    /\ hpc' = [g \in Handles |->
                  IF hpc[g] = "recv" /\ recvOn[g] = s THEN "aborted" ELSE hpc[g]]

----------------------------------------------------------------------------
(* ConnectServer, in the user's thread. *)

UserIdle == upc = "idle" /\ dpc[User] = "no"

(* The tests of m_isConnect and m_soClient: the socket of an earlier       *)
(* attempt that was not reported as connected is used again.               *)
ConnectBegin ==
    /\ UserIdle /\ ~m_isConnect
    /\ ConnectWaits => \A c \in Callers : dpc[c] = "no"
    /\ m_hThread[Cli] # NULL \/ created[Cli] < MaxStarts
    /\ \/ m_soClient # INVALID_SOCKET /\ UNCHANGED <<m_soClient, sock>>
       \/ /\ m_soClient = INVALID_SOCKET
          /\ \E s \in SOCKET :
                /\ sock[s].st = "none"
                /\ m_soClient' = s
                /\ sock' = [sock EXCEPT ![s].st = "fresh"]
    /\ upc' = "connect"
    /\ UNCHANGED <<tvars, sentData, faults, m_isConnect, m_receiveCB, told, dpc, frame>>

(* FIONBIO and connect: an attempt under way or done answers with an error *)
(* that is not looked at.                                                  *)
ConnectCall ==
    /\ upc = "connect"
    /\ upc' = "select"
    /\ sock' = [s \in SOCKET |->
                   IF s = m_soClient /\ sock[s].st \in {"fresh", "refused"}
                   THEN [sock[s] EXCEPT !.st = "connecting"] ELSE sock[s]]
    /\ UNCHANGED <<tvars, sentData, faults, object, dpc, frame>>

SelectReadyTimeout == IsOpen(m_soClient)

SelectReadyReadOnly == IsOpen(m_soClient) /\ Readable(m_soClient)

(* Ready for reading or writing.  A refused connect is neither. *)
SelectReady == IsOpen(m_soClient) /\ sock[m_soClient].st \in Established

(* select waits one second; then the attempt goes on unobserved. *)
ConnectSelect ==
    /\ upc = "select"
    /\ upc' = "start"
    /\ \/ /\ SelectReady
          /\ m_isConnect' = TRUE
          /\ told' = "Connect"
       \/ ~SelectReady /\ UNCHANGED <<m_isConnect, told>>
    /\ UNCHANGED <<tvars, net, m_soClient, m_receiveCB, dpc, frame>>

(* The receive thread is started whether or not the connect succeeded. *)
ConnectStart ==
    /\ upc = "start"
    /\ upc' = "idle"
    /\ \/ m_receiveCB /\ StartRun(Cli, User, TRUE)
       \/ m_receiveCB /\ StartRunIgnored(Cli, User, TRUE)
       \/ ~m_receiveCB /\ UNCHANGED tvars
    /\ UNCHANGED <<net, object, dpc, frame>>

(* Blocking mode is off from the ioctlsocket before connect to the one     *)
(* after select.                                                           *)
NonBlocking(s) == s = m_soClient /\ upc \in {"select", "start"}

----------------------------------------------------------------------------
(* Disconnect, in thread c: the user's or a worker's. *)

At(c, here, next) == dpc[c] = here /\ dpc' = [dpc EXCEPT ![c] = next]

DisconnectTest(c) ==
    /\ \/ m_soClient # INVALID_SOCKET /\ m_isConnect /\ At(c, "test", "reset")
       \/ ~(m_soClient # INVALID_SOCKET /\ m_isConnect) /\ At(c, "test", "no")
    /\ UNCHANGED <<tvars, net, object, upc, frame>>

DisconnectResetSkipped(c) ==
    /\ At(c, "reset", "stop")
    /\ UNCHANGED <<tvars, net, object, upc, frame>>

DisconnectReset(c) ==
    /\ At(c, "reset", "stop")
    /\ m_isConnect' = FALSE
    /\ UNCHANGED <<tvars, net, m_soClient, m_receiveCB, told, upc, frame>>

DisconnectStop(c) ==
    /\ At(c, "stop", "wait")
    /\ StopSignal(Cli, c)
    /\ UNCHANGED <<net, object, upc, frame>>

DisconnectStopped(c) ==
    /\ At(c, "wait", "close")
    /\ StopReturn(Cli, c)
    /\ UNCHANGED <<net, object, upc, frame>>

DisconnectCloseForgotten(c) ==
    /\ At(c, "close", "clear")
    /\ UNCHANGED <<tvars, net, object, upc, frame>>

DisconnectClose(c) ==
    /\ At(c, "close", "clear")
    /\ closesocket(m_soClient)
    /\ UNCHANGED <<tvars, sentData, faults, object, upc, fdRead, fdExcept, recvOn>>

(* m_soClient = INVALID_SOCKET and the status callback. *)
DisconnectClear(c) ==
    /\ At(c, "clear", "no")
    /\ m_soClient' = INVALID_SOCKET
    /\ told' = "Disconnect"
    /\ UNCHANGED <<tvars, net, m_isConnect, m_receiveCB, upc, frame>>

Disconnect(c) ==
    \/ DisconnectTest(c)
    \/ DisconnectReset(c)
    \/ DisconnectStop(c)
    \/ DisconnectStopped(c)
    \/ DisconnectClose(c)
    \/ DisconnectClear(c)

UserDisconnect ==
    /\ UserIdle
    /\ dpc' = [dpc EXCEPT ![User] = "test"]
    /\ UNCHANGED <<tvars, net, object, upc, frame>>

(* The destructor: Disconnect, then the destructor of m_receiveThread. *)
Destroy ==
    /\ UserIdle
    /\ upc' = "destroy"
    /\ dpc' = [dpc EXCEPT ![User] = "test"]
    /\ UNCHANGED <<tvars, net, object, frame>>

DestroyThread ==
    /\ upc = "destroy" /\ dpc[User] = "no"
    /\ upc' = "stop"
    /\ StopSignal(Cli, User)
    /\ UNCHANGED <<net, object, dpc, frame>>

DestroyDone ==
    /\ upc = "stop"
    /\ upc' = "gone"
    /\ StopReturn(Cli, User)
    /\ UNCHANGED <<net, object, dpc, frame>>

----------------------------------------------------------------------------
(* HandleSocketReceive, in worker g. *)

HandleReturn(g) ==
    /\ WorkerReturn(Cli, g)
    /\ hpc' = [hpc EXCEPT ![g] = "out"]
    /\ fdRead' = [fdRead EXCEPT ![g] = {}]
    /\ fdExcept' = [fdExcept EXCEPT ![g] = {}]
    /\ UNCHANGED <<recvOn, dpc>>

(* No socket, an error of select, or nothing to do: return. *)
HandleSelect(g) ==
    /\ pc[Cli][g] = "call" /\ hpc[g] = "out"
    /\ LET read == {s \in {m_soClient} : IsOpen(s) /\ Readable(s)}
           except == {s \in {m_soClient} :
                        IsOpen(s) /\ (sock[s].st = "refused" \/ sock[s].oob)}
       IN  \/ read \cup except = {} /\ HandleReturn(g)
           \/ /\ read \cup except # {}
              /\ fdRead' = [fdRead EXCEPT ![g] = read]
              /\ fdExcept' = [fdExcept EXCEPT ![g] = except]
              /\ hpc' = [hpc EXCEPT ![g] = "read"]
              /\ UNCHANGED <<tvars, recvOn, dpc>>
    /\ UNCHANGED <<net, object, upc>>

(* recv has data, which goes to m_receiveCB. *)
RecvData(g, s) ==
    /\ IsOpen(s) /\ sock[s].data > 0 /\ sock[s].st # "rst"
    /\ sock' = [sock EXCEPT ![s].data = 0]
    /\ hpc' = [hpc EXCEPT ![g] = "except"]
    /\ UNCHANGED dpc

RecvFailedIgnored(g) ==
    /\ hpc' = [hpc EXCEPT ![g] = "except"]
    /\ UNCHANGED <<sock, dpc>>

(* recv returned 0 or an error: Disconnect. *)
RecvFailed(g) ==
    /\ hpc' = [hpc EXCEPT ![g] = "except"]
    /\ dpc' = [dpc EXCEPT ![g] = "test"]
    /\ UNCHANGED sock

(* Nothing will come from s any more. *)
Gone(s) ==
    \/ ~IsOpen(s)
    \/ sock[s].st = "rst"
    \/ sock[s].st = "fin" /\ sock[s].data = 0

(* FD_ISSET with the present m_soClient, and recv: the data may be gone,   *)
(* taken by another worker.  Then a blocking socket blocks.                *)
HandleRead(g) ==
    /\ hpc[g] = "read"
    /\ LET s == m_soClient
       IN  \/ /\ s \notin fdRead[g]
              /\ hpc' = [hpc EXCEPT ![g] = "except"]
              /\ UNCHANGED <<sock, recvOn, dpc>>
           \/ /\ s \in fdRead[g]
              /\ \/ RecvData(g, s)
                 \/ Gone(s) /\ RecvFailed(g)
                 \/ ~Gone(s) /\ ~Readable(s) /\ NonBlocking(s) /\ RecvFailed(g)
              /\ UNCHANGED recvOn
           \/ /\ s \in fdRead[g] /\ ~Gone(s) /\ ~Readable(s) /\ ~NonBlocking(s)
              /\ hpc' = [hpc EXCEPT ![g] = "recv"]
              /\ recvOn' = [recvOn EXCEPT ![g] = s]
              /\ UNCHANGED <<sock, dpc>>
    /\ UNCHANGED <<tvars, sentData, faults, object, upc, fdRead, fdExcept>>

(* The end of a recv that blocked. *)
HandleRecv(g) ==
    /\ \/ hpc[g] = "recv" /\ RecvData(g, recvOn[g])
       \/ hpc[g] = "recv" /\ Gone(recvOn[g]) /\ RecvFailed(g)
       \/ hpc[g] = "aborted" /\ RecvFailed(g)
    /\ recvOn' = [recvOn EXCEPT ![g] = INVALID_SOCKET]
    /\ UNCHANGED <<tvars, sentData, faults, object, upc, fdRead, fdExcept>>

HandleExcept(g) ==
    /\ hpc[g] = "except" /\ dpc[g] = "no"
    /\ \/ m_soClient \notin fdExcept[g] /\ HandleReturn(g)
       \/ /\ m_soClient \in fdExcept[g]
          /\ hpc' = [hpc EXCEPT ![g] = "end"]
          /\ dpc' = [dpc EXCEPT ![g] = "test"]
          /\ UNCHANGED <<tvars, fdRead, fdExcept, recvOn>>
    /\ UNCHANGED <<net, object, upc>>

HandleEnd(g) ==
    /\ hpc[g] = "end" /\ dpc[g] = "no"
    /\ HandleReturn(g)
    /\ UNCHANGED <<net, object, upc>>

HandleSocketReceive(g) ==
    \/ HandleSelect(g)
    \/ HandleRead(g)
    \/ HandleRecv(g)
    \/ HandleExcept(g)
    \/ HandleEnd(g)

ThreadProcStep(g) ==
    /\ WorkerBegin(Cli, g) \/ WorkerTest(Cli, g) \/ WorkerWake(Cli, g) \/ WorkerExit(Cli, g)
    /\ UNCHANGED <<net, object, upc, dpc, frame>>

----------------------------------------------------------------------------
UserCall == ConnectBegin \/ UserDisconnect \/ Destroy

UserContinue ==
    \/ ConnectCall
    \/ ConnectSelect
    \/ ConnectStart
    \/ DestroyThread
    \/ DestroyDone

ClientNext ==
    \/ \E s \in SOCKET : Net(s)
    \/ UserCall
    \/ UserContinue
    \/ \E c \in Callers : Disconnect(c)
    \/ \E g \in Handles : ThreadProcStep(g) \/ HandleSocketReceive(g)

ClientSpec == ClientInit /\ [][ClientNext]_cvars

(* Threads run, the waits of select and StopRun are bounded, and the       *)
(* network answers a connect in the end.  The user owes no call.           *)
ClientFairSpec ==
    /\ ClientSpec
    /\ WF_cvars(UserContinue)
    /\ \A s \in SOCKET : WF_cvars(NetEstablish(s) /\ Net(s))
    /\ \A c \in Callers : WF_cvars(Disconnect(c))
    /\ \A g \in Handles : WF_cvars(ThreadProcStep(g) \/ HandleSocketReceive(g))

----------------------------------------------------------------------------
Disconnecting == {c \in Callers : dpc[c] # "no"}

(* A client that answers "connected" has a socket with a connection, in    *)
(* every interleaving of the user and the workers in Disconnect.  Needs    *)
(* ConnectWaits: a ConnectServer that runs while a worker is between       *)
(* m_isConnect = false and closesocket reports the dying socket.           *)
ConnectedMeansOpen ==
    m_isConnect => m_soClient \in SOCKET /\ sock[m_soClient].st \in Established

(* No socket is ever lost: the only socket that exists is m_soClient, so   *)
(* that a connect that succeeded after the second of select, or one that   *)
(* failed, is still in reach of the next ConnectServer.                    *)
NoSocketLeak == \A s \in SOCKET : IsOpen(s) => s = m_soClient

(* Once the calls are over, the status the user was told last is the       *)
(* status, though user and worker may both have disconnected.              *)
StatusTruthful ==
    (upc = "idle" /\ Disconnecting = {}) => (told = "Connect" <=> m_isConnect)

(* With a receive callback, a connection whose peer is gone is not         *)
(* reported as connected for ever, whatever earlier workers do.            *)
DeadDropped ==
    (m_receiveCB /\ m_isConnect /\ sock[m_soClient].st \in {"fin", "rst"})
        ~> ~m_isConnect

(* A timeout does not lose the connection: if ConnectServer is tried again *)
(* and again, then again and again it is connected.                        *)
RetryConnects == []<>(upc = "connect") => []<>m_isConnect

(* After the destructor of a client whose socket is closed every worker    *)
(* ends.  A client whose late connection was never reported keeps its      *)
(* socket open, and there a worker may stay blocked in recv.               *)
DestroyedEnds == (upc = "gone" /\ m_soClient = INVALID_SOCKET) ~> Live(Cli) = {}
============================================================================

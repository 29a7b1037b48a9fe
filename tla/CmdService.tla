---------------------------- MODULE CmdService ----------------------------
(***************************************************************************)
(* CCmdServiceTools (CmdService/CmdServiceTools.cpp) over CSyncSocket      *)
(* (SyncSocket.cpp): the centre publishes tasks and asks for their         *)
(* results, devices fetch tasks and upload states and results, all through *)
(* the command server.  Every call makes a connection of its own: connect  *)
(* with a timeout, send one command, for some commands one recv, close.    *)
(*                                                                         *)
(* A call is a record, and so is its connection, which outlives the call:  *)
(* the server may read a command after the client has closed.  The server  *)
(* is external; it is modelled from what the client sends it and expects   *)
(* of it.  So is the application on a device: it executes what QueryTask   *)
(* gives it.  A message is its head plus its entries; recv may return any  *)
(* prefix.  A task identifier is what GetUniqueID puts into it: the time   *)
(* and the static counter (MD5 is taken as injective, the rest of the text *)
(* is the same for all calls of a process).                                *)
(***************************************************************************)
EXTENDS Integers, Sequences, FiniteSets, SequencesExt

CONSTANTS
    Centres,        \* threads that publish and ask
    Devices,        \* devices; each is also the thread of its calls
    Groups,         \* the sets of devices tasks are addressed to
    MaxCalls,       \* bound: calls made, per thread
    MaxTick,        \* bound: changes of the clock GetUniqueID reads
    BufTasks        \* how many TASK_SETs fit the 4096 bytes of QueryTask

ASSUME CmdAssumption ==
    /\ Centres \cap Devices = {} /\ Devices # {} /\ IsFiniteSet(Devices)
    /\ Groups \subseteq SUBSET Devices
    /\ MaxCalls \in [Centres \cup Devices -> Nat] /\ MaxTick \in Nat /\ BufTasks \in Nat

VARIABLES
    tick, ulIndex,      \* the clock and the static counter of GetUniqueID
    call,               \* the calls made so far, with their connections
    tasks, status,      \* the server: tasks in order of arrival, newest
                        \* state per device (number of the upload, 0 = none)
    executed            \* per device: calls whose tasks it has executed

vars == <<tick, ulIndex, call, tasks, status, executed>>

Calls == DOMAIN call
QueryOps == {"queryStatus", "queryTask", "queryResult"}
UploadOps == {"uploadStatus", "uploadResult"}
NoID == <<-1, -1>>
NoAnswer == [ack |-> FALSE, items |-> <<>>]

(* Fields of a call.  pc: id and index are GetUniqueID before and after it *)
(* has read ulIndex.  net: what has become of the command - none, request  *)
(* (all of it is on its way to the server), served (the answer is on its   *)
(* way back), closed (nothing more comes of it).                           *)
Init ==
    /\ tick = 0 /\ ulIndex = 0
    /\ call = <<>>
    /\ tasks = <<>>
    /\ status = [d \in Devices |-> 0]
    /\ executed = [d \in Devices |-> {}]

----------------------------------------------------------------------------
(* The calls. *)

Busy(t) == \E n \in Calls : call[n].by = t /\ call[n].pc # "done"

Begin(t, op, pc, dev, devs, id, nCount) ==
    /\ ~Busy(t)
    /\ Cardinality({n \in Calls : call[n].by = t}) < MaxCalls[t]
    /\ call' = Append(call,
           [op |-> op, by |-> t, dev |-> dev, devs |-> devs, id |-> id,
            nCount |-> nCount, pc |-> pc, net |-> "none", answer |-> NoAnswer,
            ret |-> "none", out |-> <<>>])
    /\ UNCHANGED <<tick, ulIndex, tasks, status, executed>>

AnyDevice == CHOOSE d \in Devices : TRUE

PublishEmgency(t, devs) == Begin(t, "task", "id", AnyDevice, devs, NoID, 0)

StopEmgency(t, devs) == Begin(t, "task", "id", AnyDevice, devs, NoID, 0)

ExectCommand(t, devs) == Begin(t, "task", "id", AnyDevice, devs, NoID, 0)

QuerySingleStatus(t, d) == Begin(t, "queryStatus", "connect", d, {}, NoID, 0)

(* nCount is the caller's idea of the number of devices. *)
QueryExecuteResult(t, n, nCount) ==
    /\ n \in Calls /\ call[n].op = "task"
    /\ call[n].by = t
    /\ Begin(t, "queryResult", "connect", AnyDevice, {}, call[n].id, nCount)

QueryTask(d) == Begin(d, "queryTask", "connect", d, {}, NoID, 0)

UpLoadDeviceStatus(d) == Begin(d, "uploadStatus", "connect", d, {}, NoID, 0)

UpLoadTASK_RESULT(d, n) ==
    /\ n \in executed[d]
    /\ Begin(d, "uploadResult", "connect", d, {}, call[n].id, 0)

Step(n, rec) == call' = [call EXCEPT ![n] = rec]

Return(rec, ok) == [rec EXCEPT !.pc = "done", !.ret = IF ok THEN "true" ELSE "false"]

(* The call gives up and closes its socket; its locals are gone. *)
Fail(rec) ==
    [Return(rec, FALSE) EXCEPT !.net = "closed", !.answer = NoAnswer, !.nCount = 0,
                               !.id = IF rec.op = "task" THEN rec.id ELSE NoID]

(* GetUniqueID: the clock may have advanced since it was last read, and    *)
(* ulIndex++ reads and writes the counter without a lock.                  *)
GetUniqueID(n) ==
    /\ call[n].pc = "id"
    /\ tick' \in tick..MaxTick
    /\ Step(n, [call[n] EXCEPT !.pc = "index", !.id = <<tick', ulIndex>>])
    /\ UNCHANGED <<ulIndex, tasks, status, executed>>

StoreIndexNot(n) ==
    /\ call[n].pc = "index"
    /\ Step(n, [call[n] EXCEPT !.pc = "connect"])
    /\ UNCHANGED <<tick, ulIndex, tasks, status, executed>>

StoreIndex(n) ==
    /\ call[n].pc = "index"
    /\ Step(n, [call[n] EXCEPT !.pc = "connect"])
    /\ ulIndex' = call[n].id[2] + 1
    /\ UNCHANGED <<tick, tasks, status, executed>>

AfterSendNoWait(rec) ==
    IF rec.op \in QueryOps THEN [rec EXCEPT !.pc = "receive", !.net = "request"]
    ELSE [Return(rec, TRUE) EXCEPT !.net = "request"]

AfterSendFalse(rec) ==
    IF rec.op = "task" THEN [Return(rec, FALSE) EXCEPT !.net = "request"]
    ELSE [rec EXCEPT !.pc = "receive", !.net = "request"]

(* A task has no answer: the call closes and is done.  The others receive. *)
AfterSend(rec) ==
    IF rec.op = "task" THEN [Return(rec, TRUE) EXCEPT !.net = "request"]
    ELSE [rec EXCEPT !.pc = "receive", !.net = "request"]

(* Create, Connect and Send.  They fail, or end by their timeouts, or all  *)
(* of the command is sent; a part of it is of no use to the server.        *)
ConnectAndSend(n) ==
    /\ call[n].pc = "connect"
    /\ Step(n, AfterSend(call[n])) \/ Step(n, Fail(call[n]))
    /\ UNCHANGED <<tick, ulIndex, tasks, status, executed>>

Size(answer) == 1 + Len(answer.items)

(* The buffer, in entries beside the head. *)
Room(rec) ==
    CASE rec.op = "queryStatus" -> 1
      [] rec.op = "queryTask" -> BufTasks
      [] rec.op = "queryResult" -> rec.nCount
      [] OTHER -> 1

AcceptedUnsized(rec, got) ==
    /\ got > 0 /\ rec.answer.ack
    /\ rec.op = "queryStatus" => rec.answer.items # <<>>

(* The tests after recv returned got entries (the head is one; less than   *)
(* the head, 0 and -1 are 0 here).  The answer must be there in full.      *)
Accepted(rec, got) ==
    /\ got = Size(rec.answer) /\ rec.answer.ack
    /\ rec.op = "queryStatus" => rec.answer.items # <<>>
    /\ rec.op = "queryResult" => got = 1 + rec.nCount

(* What the call returns after recv; the uploads do not look at it. *)
Received(rec, got) ==
    IF rec.op \in UploadOps THEN [Fail(rec) EXCEPT !.ret = "true"]
    ELSE IF Accepted(rec, got)
    THEN [Return(rec, TRUE) EXCEPT !.net = "closed",
                                   !.out = SubSeq(rec.answer.items, 1, got - 1)]
    ELSE Fail(rec)

Got(rec) ==
    IF rec.net = "closed" THEN {0}
    ELSE 0..(IF Size(rec.answer) <= 1 + Room(rec) THEN Size(rec.answer) ELSE 1 + Room(rec))

(* The one recv, which has no timeout.  A device executes the tasks it is  *)
(* given.                                                                  *)
Receive(n) ==
    /\ call[n].pc = "receive" /\ call[n].net \in {"served", "closed"}
    /\ \E got \in Got(call[n]) :
          LET rec == Received(call[n], got)
          IN  /\ Step(n, rec)
              /\ executed' = IF rec.op = "queryTask"
                             THEN [executed EXCEPT ![rec.dev] = @ \cup ToSet(rec.out)]
                             ELSE executed
    /\ UNCHANGED <<tick, ulIndex, tasks, status>>

----------------------------------------------------------------------------
(* The server (external). *)

Known(id) == {i \in DOMAIN tasks : tasks[i].id = id}

(* The entries of an answer: the tasks that wait for a device (by the call *)
(* that sent them), the result of each device of a task, or a state.       *)
Waiting(d) ==
    SetToSeq({tasks[i].n : i \in {j \in DOMAIN tasks :
                 d \in tasks[j].devs /\ tasks[j].result[d] = "wait"}})

Results(id) ==
    IF Known(id) = {} THEN <<>>
    ELSE LET k == tasks[CHOOSE i \in Known(id) : TRUE]
         IN  SetToSeq({<<k.n, d, k.result[d]>> : d \in k.devs})

Answer(rec) ==
    CASE rec.op = "queryStatus" ->
            IF status[rec.dev] = 0 THEN <<>> ELSE <<status[rec.dev]>>
      [] rec.op = "queryTask" -> Waiting(rec.dev)
      [] rec.op = "queryResult" -> Results(rec.id)
      [] OTHER -> <<>>

NewTask(n) ==
    [n |-> n, id |-> call[n].id, devs |-> call[n].devs,
     result |-> [d \in call[n].devs |-> "wait"]]

(* A task with a known identifier is a repetition. *)
ServeState(n) ==
    LET rec == call[n] IN
    /\ tasks' = IF rec.op = "task" /\ Known(rec.id) = {} THEN Append(tasks, NewTask(n))
                ELSE IF rec.op = "uploadResult"
                THEN [i \in DOMAIN tasks |->
                         IF i \in Known(rec.id) /\ rec.dev \in tasks[i].devs
                         THEN [tasks[i] EXCEPT !.result[rec.dev] = "ok"] ELSE tasks[i]]
                ELSE tasks
    /\ status' = IF rec.op = "uploadStatus" THEN [status EXCEPT ![rec.dev] = n] ELSE status

Serve(n) ==
    /\ call[n].net = "request"
    /\ Step(n, IF call[n].op = "task" THEN [call[n] EXCEPT !.net = "closed"]
               ELSE [call[n] EXCEPT !.net = "served",
                         !.answer = [ack |-> TRUE, items |-> Answer(call[n])]])
    /\ ServeState(n)
    /\ UNCHANGED <<tick, ulIndex, executed>>

(* The server answers without an acknowledgement and does nothing. *)
Refuse(n) ==
    /\ call[n].net = "request" /\ call[n].pc = "receive"
    /\ Step(n, [call[n] EXCEPT !.net = "served"])
    /\ UNCHANGED <<tick, ulIndex, tasks, status, executed>>

(* The connection breaks before the command is read, or the answer is lost. *)
Lose(n) ==
    /\ \/ call[n].net = "request"
       \/ call[n].net = "served" /\ call[n].pc = "receive"
    /\ Step(n, [call[n] EXCEPT !.net = "closed", !.answer = NoAnswer])
    /\ UNCHANGED <<tick, ulIndex, tasks, status, executed>>

----------------------------------------------------------------------------
CentreCall(t) ==
    \/ \E devs \in Groups :
          PublishEmgency(t, devs) \/ StopEmgency(t, devs) \/ ExectCommand(t, devs)
    \/ \E d \in Devices : QuerySingleStatus(t, d)
    \/ \E n \in Calls, nCount \in 1..Cardinality(Devices) : QueryExecuteResult(t, n, nCount)

DeviceCall(d) ==
    \/ QueryTask(d)
    \/ UpLoadDeviceStatus(d)
    \/ \E n \in executed[d] : UpLoadTASK_RESULT(d, n)

Continue(n) == GetUniqueID(n) \/ StoreIndex(n) \/ ConnectAndSend(n) \/ Receive(n)

Server(n) == Serve(n) \/ Refuse(n) \/ Lose(n)

Next ==
    \/ \E t \in Centres : CentreCall(t)
    \/ \E d \in Devices : DeviceCall(d)
    \/ \E n \in Calls : Continue(n) \/ Server(n)

Spec == Init /\ [][Next]_vars

----------------------------------------------------------------------------
TaskCalls == {n \in Calls : call[n].op = "task"}

(* CmdServiceHeader.h:210 asks the client for task identifiers that are    *)
(* unique: no two calls of GetUniqueID give the same one, even within one  *)
(* tick of the clock.  Holds for one publishing thread.                    *)
UniqueIds ==
    \A m, n \in TaskCalls : call[m].id = call[n].id /\ call[m].id # NoID => m = n

(* A task call that answered false has no effect, now or later, although   *)
(* its connection may live on: it may be repeated safely.                  *)
FalseNotExecuted ==
    \A n \in TaskCalls : call[n].ret = "false" => \A d \in Devices : n \notin executed[d]

(* What QueryExecuteResult reports as done has been done: the device in    *)
(* the entry has executed the very task the caller asked about, through    *)
(* its own QueryTask and UpLoadTASK_RESULT calls and the server.           *)
ResultCausal ==
    \A q \in Calls : call[q].op = "queryResult" /\ call[q].ret = "true" =>
        \A i \in DOMAIN call[q].out :
            LET entry == call[q].out[i]
            IN  entry[3] = "ok" => \A n \in TaskCalls :
                    call[n].id = call[q].id => n \in executed[entry[2]]

(* A query that answers true has the whole answer: QueryExecuteResult one  *)
(* entry for every device of the task, QueryTask every task that the       *)
(* server put into the answer, however recv cut it.                        *)
AnswerWhole ==
    \A q \in Calls : call[q].op \in QueryOps /\ call[q].ret = "true" =>
        /\ call[q].out = call[q].answer.items
        /\ call[q].op = "queryResult" => Len(call[q].out) = call[q].nCount

(* The server's picture of a device never goes back to an older upload:    *)
(* UpLoadDeviceStatus does not look at the answer, but it waits for it, so *)
(* two uploads of a device are not in flight together.                     *)
StatusForward == [][\A d \in Devices : status'[d] >= status[d]]_vars
============================================================================

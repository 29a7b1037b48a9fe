-------------------------- MODULE CmdServiceProofs --------------------------
(***************************************************************************)
(* What holds of the command protocol for every number of devices, calls   *)
(* and clock ticks, and for every way the network and the server behave.   *)
(* Identifiers are unique, and results attributed to the right task, when  *)
(* one thread of the centre publishes (OneCentre); the rest needs no such  *)
(* assumption.                                                             *)
(*                                                                         *)
(* The argument: a thread has one call at a time, so the newest call of a  *)
(* thread is the only one that can still change (ControlInv); then the     *)
(* counter ulIndex is above every identifier given out (IdInv); then what  *)
(* an answer says can be followed back, over the server, to calls that     *)
(* are over and do not change any more (FlowInv).                          *)
(***************************************************************************)
EXTENDS CmdService, TLAPS, FiniteSetTheorems, SequenceTheorems

OneCentre == \A s, t \in Centres : s = t

Threads == Centres \cup Devices
Op == {"task"} \cup QueryOps \cup UploadOps
Result == {"wait", "ok"}
Item == Nat \cup (Nat \X Devices \X Result)

CallRec ==
    [op : Op, by : Threads, dev : Devices, devs : SUBSET Devices, id : Int \X Int,
     nCount : Nat, pc : {"id", "index", "connect", "receive", "done"},
     net : {"none", "request", "served", "closed"},
     answer : [ack : BOOLEAN, items : Seq(Item)],
     ret : {"none", "true", "false"}, out : Seq(Item)]

TaskRec ==
    UNION {[n : Nat, id : Int \X Int, devs : {D}, result : [D -> Result]] :
               D \in SUBSET Devices}

TypeOKCmd ==
    /\ tick \in Nat /\ ulIndex \in Nat
    /\ call \in Seq(CallRec)
    /\ tasks \in Seq(TaskRec)
    /\ status \in [Devices -> Nat]
    /\ executed \in [Devices -> SUBSET Nat]

(* Where a call and its connection can be together, for each operation. *)
Control(c) ==
    /\ c.op = "task" => c.by \in Centres /\ c.pc # "receive"
    /\ c.op # "task" => c.pc \notin {"id", "index"}
    /\ c.op \in {"queryTask", "uploadStatus", "uploadResult"} => c.by = c.dev
    /\ c.ret = "none" <=> c.pc # "done"
    /\ c.pc \in {"id", "index", "connect"} => c.net = "none"
    /\ c.net = "request" => IF c.op = "task" THEN c.ret = "true" ELSE c.pc = "receive"
    /\ c.pc # "done" => c.out = <<>>

(* A thread makes one call at a time. *)
OneAtATime ==
    \A m, n \in Calls : m < n /\ call[m].by = call[n].by => call[m].pc = "done"

ControlInv == OneAtATime /\ \A n \in Calls : Control(call[n])

(* With one publishing thread the counter is above every identifier given  *)
(* out, except the one that has been read and not yet counted.             *)
IdBelow(n) ==
    /\ call[n].pc = "id" => call[n].id = NoID
    /\ call[n].pc # "id" => call[n].id[1] \in Nat /\ call[n].id[2] \in Nat
    /\ OneCentre /\ call[n].pc = "index" => call[n].id[2] = ulIndex
    /\ OneCentre /\ call[n].pc \notin {"id", "index"} => call[n].id[2] < ulIndex

IdInv ==
    /\ \A n \in TaskCalls : IdBelow(n)
    /\ OneCentre => \A m, n \in TaskCalls : m # n /\ call[m].pc # "id" /\ call[n].pc # "id"
                                               => call[m].id[2] # call[n].id[2]

(* The task calls that answered true: the only ones that reach the server. *)
Sent == {n \in TaskCalls : call[n].ret = "true"}

(* What the server knows of tasks and devices comes from their calls. *)
TaskKnown(i) ==
    /\ tasks[i].n \in Sent
    /\ tasks[i].id = call[tasks[i].n].id
    /\ OneCentre =>
           \A d \in tasks[i].devs : tasks[i].result[d] = "ok" => tasks[i].n \in executed[d]

StatusKnown(d) ==
    status[d] # 0 => status[d] \in Calls /\ call[status[d]].by = d

(* What a call carries: the identifier of a task the device has executed,  *)
(* and answers whose entries are true.                                     *)
Carries(n) ==
    LET c == call[n] IN
    /\ c.op = "uploadResult" /\ c.pc # "done" =>
           \E k \in executed[c.dev] : call[k].id = c.id
    /\ c.op = "queryTask" => \A i \in DOMAIN c.answer.items : c.answer.items[i] \in Sent
    /\ c.op = "queryResult" => \A i \in DOMAIN c.answer.items :
           LET entry == c.answer.items[i]
           IN  /\ entry[1] \in Sent /\ call[entry[1]].id = c.id /\ entry[2] \in Devices
               /\ OneCentre /\ entry[3] = "ok" => entry[1] \in executed[entry[2]]

FlowInv ==
    /\ \A i \in DOMAIN tasks : TaskKnown(i)
    /\ \A d \in Devices : StatusKnown(d) /\ executed[d] \subseteq Sent
    /\ \A n \in Calls : Carries(n)
    /\ AnswerWhole

CmdInv == ControlInv /\ IdInv /\ FlowInv

----------------------------------------------------------------------------
(* SetToSeq, in which the server puts its answers, gives a sequence over   *)
(* the set.                                                                *)
LEMMA SetToSeqType ==
    ASSUME NEW S, IsFiniteSet(S)
    PROVE  SetToSeq(S) \in Seq(S)
<1>1. Cardinality(S) \in Nat /\ ExistsBijection(1..Cardinality(S), S)
  BY FS_CardinalityType
<1>2. \E f \in [1..Cardinality(S) -> S] : IsInjective(f)
  BY <1>1 DEF ExistsBijection, Bijection, Injection
<1>3. SetToSeq(S) \in [1..Cardinality(S) -> S]
  BY <1>2 DEF SetToSeq
<1>4. QED
  BY <1>1, <1>3

(* The image of a finite set under a function is finite. *)
LEMMA FiniteImage ==
    ASSUME NEW S, IsFiniteSet(S), NEW f, DOMAIN f = S
    PROVE  IsFiniteSet({f[x] : x \in S})
<1> DEFINE T == {f[x] : x \in S}
           h == [x \in S |-> f[x]]
<1>1. h \in Surjection(S, T)
  BY DEF Surjection
<1> HIDE DEF T, h
<1>2. IsFiniteSet(T)
  BY <1>1, FS_Surjection
<1>3. QED
  BY <1>2 DEF T

(* A step of call n replaces its record and leaves the other calls alone. *)
LEMMA StepFacts ==
    ASSUME call \in Seq(CallRec), NEW n \in Calls, NEW rec, Step(n, rec)
    PROVE  /\ Calls' = Calls /\ call'[n] = rec
           /\ \A m \in Calls : m # n => call'[m] = call[m]
           /\ rec \in CallRec => call' \in Seq(CallRec)
  BY DEF Step, Calls

(* The record of a task at the server. *)
LEMMA TaskFields ==
    ASSUME NEW t \in TaskRec
    PROVE  /\ t.n \in Nat /\ t.id \in Int \X Int /\ t.devs \in SUBSET Devices
           /\ t.result \in [t.devs -> Result]
           /\ t = [n |-> t.n, id |-> t.id, devs |-> t.devs, result |-> t.result]
<1>1. PICK D \in SUBSET Devices :
         t \in [n : Nat, id : Int \X Int, devs : {D}, result : [D -> Result]]
  BY DEF TaskRec
<1>2. QED
  BY <1>1

(* A new call is the last one. *)
LEMMA AppendFacts ==
    ASSUME call \in Seq(CallRec), NEW rec \in CallRec, call' = Append(call, rec)
    PROVE  /\ call' \in Seq(CallRec)
           /\ Calls' = Calls \cup {Len(call) + 1} /\ Calls \subseteq Nat
           /\ call'[Len(call) + 1] = rec
           /\ \A m \in Calls : call'[m] = call[m] /\ m < Len(call) + 1
  BY DEF Calls

----------------------------------------------------------------------------
(* What the ends of a call (CmdServiceTools.cpp) do to its record. *)

(* A call that gives up forgets its locals, but a task keeps its           *)
(* identifier, which the caller has.                                       *)
LEMMA FailFields ==
    ASSUME NEW c \in CallRec
    PROVE  /\ Fail(c) \in CallRec
           /\ Fail(c).op = c.op /\ Fail(c).by = c.by /\ Fail(c).dev = c.dev
           /\ Fail(c).devs = c.devs /\ Fail(c).out = c.out
           /\ Fail(c).pc = "done" /\ Fail(c).ret = "false" /\ Fail(c).net = "closed"
           /\ Fail(c).answer = NoAnswer
           /\ c.op = "task" => Fail(c).id = c.id
<1>1. NoAnswer \in [ack : BOOLEAN, items : Seq(Item)] /\ NoID \in Int \X Int
  BY DEF NoAnswer, NoID
<1>2. QED
  BY <1>1 DEF Fail, Return, CallRec

(* A command that was sent: a task is over with it, the others wait. *)
LEMMA AfterSendFields ==
    ASSUME NEW c \in CallRec
    PROVE  /\ AfterSend(c) \in CallRec
           /\ AfterSend(c).op = c.op /\ AfterSend(c).by = c.by /\ AfterSend(c).dev = c.dev
           /\ AfterSend(c).devs = c.devs /\ AfterSend(c).out = c.out
           /\ AfterSend(c).id = c.id /\ AfterSend(c).answer = c.answer
           /\ AfterSend(c).net = "request"
           /\ c.op = "task" => AfterSend(c).pc = "done" /\ AfterSend(c).ret = "true"
           /\ c.op # "task" => AfterSend(c).pc = "receive" /\ AfterSend(c).ret = c.ret
  BY DEF AfterSend, Return, CallRec

(* A recv: whatever part of the answer it returned, the call is over, and  *)
(* a query that answers true hands out all of the answer.                  *)
LEMMA ReceivedFields ==
    ASSUME NEW c \in CallRec, NEW got \in Nat, c.op # "task", c.out = <<>>
    PROVE  LET r == Received(c, got) IN
           /\ r \in CallRec
           /\ r.op = c.op /\ r.by = c.by /\ r.dev = c.dev
           /\ r.pc = "done" /\ r.ret # "none" /\ r.net = "closed"
           /\ \/ r.answer = NoAnswer /\ r.out = <<>> /\ (c.op \in QueryOps => r.ret = "false")
              \/ /\ c.op \in QueryOps /\ r.ret = "true"
                 /\ r.answer = c.answer /\ r.id = c.id /\ r.out = c.answer.items
                 /\ c.op = "queryResult" => Len(r.out) = r.nCount
<1>0. c.answer.items \in Seq(Item)
  BY DEF CallRec
<1> DEFINE r == Received(c, got)
<1>1. CASE c.op \in UploadOps
  <2>1. r = [Fail(c) EXCEPT !.ret = "true"]
    BY <1>1 DEF Received
  <2>2. /\ r \in CallRec /\ r.op = c.op /\ r.by = c.by /\ r.dev = c.dev
        /\ r.pc = "done" /\ r.ret = "true" /\ r.net = "closed"
        /\ r.answer = NoAnswer /\ r.out = <<>>
    <3>1. PICK f \in CallRec :
             /\ r = [f EXCEPT !.ret = "true"]
             /\ f.op = c.op /\ f.by = c.by /\ f.dev = c.dev /\ f.pc = "done"
             /\ f.net = "closed" /\ f.answer = NoAnswer /\ f.out = <<>>
      BY <2>1, FailFields
    <3> HIDE DEF r
    <3>2. QED
      BY <3>1 DEF CallRec
  <2>3. c.op \notin QueryOps
    BY <1>1 DEF UploadOps, QueryOps
  <2>4. QED
    BY <2>2, <2>3
<1>2. CASE c.op \in QueryOps /\ Accepted(c, got)
  <2>1. c.op \notin UploadOps
    BY <1>2 DEF UploadOps, QueryOps
  <2>2. got - 1 = Len(c.answer.items)
    BY <1>0, <1>2 DEF Accepted, Size
  <2>3. SubSeq(c.answer.items, 1, got - 1) = c.answer.items
    BY <1>0, <2>2, SubSeqFull
  <2>4. r = [c EXCEPT !.pc = "done", !.ret = "true", !.net = "closed",
                      !.out = c.answer.items]
    <3>1. r = [Return(c, TRUE) EXCEPT !.net = "closed",
                                      !.out = SubSeq(c.answer.items, 1, got - 1)]
      BY <1>2, <2>1 DEF Received
    <3>2. QED
      BY <2>3, <3>1 DEF Return, CallRec
  <2>5. c.op = "queryResult" => Len(c.answer.items) = c.nCount
    BY <1>0, <1>2, <2>2 DEF Accepted, CallRec
  <2>6. QED
    BY <1>0, <1>2, <2>4, <2>5 DEF CallRec
<1>3. CASE c.op \in QueryOps /\ ~Accepted(c, got)
  <2>1. r = Fail(c)
    BY <1>3 DEF Received, UploadOps, QueryOps
  <2>2. QED
    BY <2>1, FailFields
<1>4. QED
  BY <1>1, <1>2, <1>3 DEF CallRec, Op

----------------------------------------------------------------------------
(* What a step of one call keeps, for each part of the invariant. *)

(* ControlInv, if the call does not change its thread or come back to life. *)
LEMMA ControlStep ==
    ASSUME call \in Seq(CallRec), ControlInv, NEW n \in Calls, NEW rec, Step(n, rec),
           Control(rec), rec.by = call[n].by, call[n].pc = "done" => rec.pc = "done"
    PROVE  ControlInv'
<1>1. /\ Calls' = Calls /\ call'[n] = rec
      /\ \A m \in Calls : m # n => call'[m] = call[m]
  BY StepFacts
<1>2. OneAtATime'
  BY <1>1 DEF ControlInv, OneAtATime
<1>3. \A m \in Calls' : Control(call'[m])
  BY <1>1 DEF ControlInv
<1>4. QED
  BY <1>2, <1>3 DEF ControlInv

(* IdInv, if the call is past GetUniqueID and keeps its identifier. *)
LEMMA IdStep ==
    ASSUME call \in Seq(CallRec), IdInv, NEW n \in Calls, NEW rec, Step(n, rec),
           UNCHANGED ulIndex, rec.op = call[n].op,
           rec.op = "task" => /\ rec.id = call[n].id
                              /\ call[n].pc \notin {"id", "index"}
                              /\ rec.pc \notin {"id", "index"}
    PROVE  IdInv'
<1>1. /\ Calls' = Calls /\ call'[n] = rec
      /\ \A m \in Calls : m # n => call'[m] = call[m]
  BY StepFacts
<1>2. TaskCalls' = TaskCalls
  BY <1>1 DEF TaskCalls
<1>3. \A m \in TaskCalls : /\ call'[m].id = call[m].id
                           /\ call'[m].pc = "id" <=> call[m].pc = "id"
                           /\ call'[m].pc = "index" <=> call[m].pc = "index"
  BY <1>1 DEF TaskCalls
<1>4. ASSUME NEW m \in TaskCalls PROVE IdBelow(m)'
  BY <1>3, <1>4 DEF IdInv, IdBelow
<1>5. QED
  BY <1>2, <1>3, <1>4 DEF IdInv

(* The calls that are over, and what devices have executed, only grow. *)
Grow ==
    /\ Calls \subseteq Calls'
    /\ \A m \in Sent : m \in Sent' /\ call'[m].id = call[m].id
    /\ \A m \in Calls : call'[m].by = call[m].by
    /\ \A d \in Devices : executed[d] \subseteq executed'[d]

(* A step of one call that leaves who made it and, once it is over, its    *)
(* result alone, takes nothing away.                                       *)
LEMMA StepGrow ==
    ASSUME call \in Seq(CallRec), ControlInv, NEW n \in Calls, NEW rec, Step(n, rec),
           rec.op = call[n].op, rec.by = call[n].by,
           call[n].pc = "done" /\ rec.op = "task" => rec.ret = call[n].ret /\ rec.id = call[n].id,
           \A d \in Devices : executed[d] \subseteq executed'[d]
    PROVE  Grow
<1>1. /\ Calls' = Calls /\ call'[n] = rec
      /\ \A m \in Calls : m # n => call'[m] = call[m]
  BY StepFacts
<1>2. n \in Sent => call[n].pc = "done" /\ call[n].op = "task"
  BY DEF Sent, TaskCalls, ControlInv, Control
<1>3. ASSUME NEW m \in Sent PROVE m \in Sent' /\ call'[m].id = call[m].id
  BY <1>1, <1>2, <1>3 DEF Sent, TaskCalls
<1>4. QED
  BY <1>1, <1>3 DEF Grow

(* What a call carries stays true while calls and executions grow. *)
LEMMA CarriesKept ==
    ASSUME TypeOKCmd, FlowInv, Grow, NEW m \in Calls,
           call'[m].op = call[m].op, call'[m].dev = call[m].dev,
           call'[m].op = "uploadResult" /\ call'[m].pc # "done"
               => call[m].pc # "done" /\ call'[m].id = call[m].id,
           \/ call'[m].answer.items = <<>>
           \/ /\ call'[m].answer = call[m].answer
              /\ call'[m].op = "queryResult" => call'[m].id = call[m].id
    PROVE  Carries(m)'
<1>0. Carries(m) /\ call[m].dev \in Devices
  <2>1. call[m] \in CallRec
    BY DEF TypeOKCmd, Calls
  <2>2. QED
    BY <2>1 DEF FlowInv, CallRec
<1>1. call'[m].op = "uploadResult" /\ call'[m].pc # "done" =>
          \E k \in executed'[call'[m].dev] : call'[k].id = call'[m].id
  <2> SUFFICES ASSUME call'[m].op = "uploadResult", call'[m].pc # "done"
               PROVE  \E k \in executed'[call'[m].dev] : call'[k].id = call'[m].id
    OBVIOUS
  <2>1. PICK k \in executed[call[m].dev] : call[k].id = call[m].id
    BY <1>0 DEF Carries
  <2>2. k \in Sent /\ k \in executed'[call[m].dev]
    BY <1>0, <2>1 DEF Grow, FlowInv
  <2>3. QED
    BY <2>1, <2>2 DEF Grow
<1>2. call'[m].op = "queryTask" =>
          \A i \in DOMAIN call'[m].answer.items : call'[m].answer.items[i] \in Sent'
  BY <1>0 DEF Carries, Grow
<1>3. ASSUME call'[m].op = "queryResult", NEW i \in DOMAIN call'[m].answer.items,
             NEW entry, entry = call'[m].answer.items[i]
      PROVE  /\ entry[1] \in Sent' /\ call'[entry[1]].id = call'[m].id
             /\ entry[2] \in Devices
             /\ OneCentre /\ entry[3] = "ok" => entry[1] \in executed'[entry[2]]
  BY <1>0, <1>3 DEF Carries, Grow
<1>4. QED
  BY <1>1, <1>2, <1>3 DEF Carries

(* What the server knows stays true while it does not change. *)
LEMMA ServerKept ==
    ASSUME TypeOKCmd, FlowInv, Grow
    PROVE  /\ \A i \in DOMAIN tasks : tasks'[i] = tasks[i] => TaskKnown(i)'
           /\ status' = status => \A d \in Devices : StatusKnown(d)'
<1>1. ASSUME NEW i \in DOMAIN tasks, tasks'[i] = tasks[i] PROVE TaskKnown(i)'
  <2>1. TaskKnown(i) /\ tasks[i].devs \subseteq Devices
    <3>1. tasks[i] \in TaskRec
      BY DEF TypeOKCmd
    <3>2. QED
      BY <3>1, TaskFields DEF FlowInv
  <2>2. QED
    BY <1>1, <2>1 DEF TaskKnown, Grow
<1>2. ASSUME status' = status, NEW d \in Devices PROVE StatusKnown(d)'
  BY <1>2 DEF FlowInv, StatusKnown, Grow
<1>3. QED
  BY <1>1, <1>2

(* AnswerWhole, if it holds of the call that moves. *)
LEMMA AnswerStep ==
    ASSUME call \in Seq(CallRec), AnswerWhole, NEW n \in Calls, NEW rec, Step(n, rec),
           rec.op \in QueryOps /\ rec.ret = "true" =>
               /\ rec.out = rec.answer.items
               /\ rec.op = "queryResult" => Len(rec.out) = rec.nCount
    PROVE  AnswerWhole'
<1>1. /\ Calls' = Calls /\ call'[n] = rec
      /\ \A m \in Calls : m # n => call'[m] = call[m]
  BY StepFacts
<1>2. QED
  BY <1>1 DEF AnswerWhole

(* FlowInv, for a step of a call that leaves the server's state alone. *)
LEMMA FlowStep ==
    ASSUME TypeOKCmd, ControlInv, FlowInv, NEW n \in Calls, NEW rec, Step(n, rec),
           rec.op = call[n].op, rec.by = call[n].by, rec.dev = call[n].dev,
           call[n].pc = "done" /\ rec.op = "task" => rec.ret = call[n].ret /\ rec.id = call[n].id,
           rec.op = "uploadResult" /\ rec.pc # "done"
               => call[n].pc # "done" /\ rec.id = call[n].id,
           \/ rec.answer.items = <<>>
           \/ rec.answer = call[n].answer /\ (rec.op = "queryResult" => rec.id = call[n].id),
           rec.op \in QueryOps /\ rec.ret = "true" =>
               /\ rec.out = rec.answer.items
               /\ rec.op = "queryResult" => Len(rec.out) = rec.nCount,
           UNCHANGED <<tasks, status>>,
           \A d \in Devices : executed[d] \subseteq executed'[d] /\ executed'[d] \subseteq Sent
    PROVE  FlowInv'
<1>0. call \in Seq(CallRec)
  BY DEF TypeOKCmd
<1>1. /\ Calls' = Calls /\ call'[n] = rec
      /\ \A m \in Calls : m # n => call'[m] = call[m]
  BY <1>0, StepFacts
<1>2. Grow
  BY <1>0, StepGrow
<1>3. ASSUME NEW m \in Calls PROVE Carries(m)'
  <2>1. CASE m = n
    BY <1>1, <1>2, <2>1, CarriesKept
  <2>2. CASE m # n
    BY <1>1, <1>2, <2>2, CarriesKept
  <2>3. QED
    BY <2>1, <2>2
<1>4. /\ \A i \in DOMAIN tasks' : TaskKnown(i)'
      /\ \A d \in Devices : StatusKnown(d)'
  BY <1>2, ServerKept
<1>5. \A d \in Devices : executed'[d] \subseteq Sent'
  BY <1>2 DEF Grow
<1>6. AnswerWhole'
  BY <1>0, AnswerStep DEF FlowInv
<1>7. QED
  BY <1>1, <1>3, <1>4, <1>5, <1>6 DEF FlowInv

----------------------------------------------------------------------------
(* The steps of a call, one lemma for each. *)

(* GetUniqueID (CmdServiceTools.cpp) reads a counter that is above every   *)
(* identifier given out, because no other call of the centre is running.   *)
LEMMA GetUniqueIDInv ==
    ASSUME TypeOKCmd, CmdInv, NEW n \in Calls, GetUniqueID(n)
    PROVE  TypeOKCmd' /\ CmdInv'
<1> DEFINE rec == [call[n] EXCEPT !.pc = "index", !.id = <<tick', ulIndex>>]
<1>0. /\ call \in Seq(CallRec) /\ call[n] \in CallRec /\ tick' \in Nat /\ ulIndex \in Nat
      /\ Control(call[n]) /\ call[n].pc = "id" /\ Step(n, rec)
  <2>1. tick' \in Nat
    BY CmdAssumption DEF TypeOKCmd, GetUniqueID
  <2>2. call[n] \in CallRec
    BY DEF TypeOKCmd, Calls
  <2>3. QED
    BY <2>1, <2>2 DEF TypeOKCmd, GetUniqueID, CmdInv, ControlInv
<1>1. /\ rec \in CallRec /\ rec.op = call[n].op /\ rec.by = call[n].by /\ rec.dev = call[n].dev
      /\ rec.id = <<tick', ulIndex>> /\ rec.pc = "index" /\ rec.net = call[n].net
      /\ rec.answer = call[n].answer /\ rec.ret = call[n].ret /\ rec.out = call[n].out
  <2>1. <<tick', ulIndex>> \in Int \X Int
    BY <1>0
  <2>2. QED
    BY <1>0, <2>1 DEF CallRec
<1>2. call[n].op = "task" /\ call[n].ret = "none"
  BY <1>0 DEF Control
<1> HIDE DEF rec
<1>3. /\ Calls' = Calls /\ call'[n] = rec /\ call' \in Seq(CallRec)
      /\ \A m \in Calls : m # n => call'[m] = call[m]
  BY <1>0, <1>1, StepFacts
<1>4. UNCHANGED <<ulIndex, tasks, status, executed>>
  BY DEF GetUniqueID
<1>5. TypeOKCmd'
  BY <1>0, <1>3, <1>4 DEF TypeOKCmd
<1>6. ControlInv'
  <2>1. Control(rec)
    BY <1>0, <1>1, <1>2 DEF Control
  <2>2. QED
    BY <1>0, <1>1, <2>1, ControlStep DEF CmdInv
<1>7. IdInv'
  <2>1. TaskCalls' = TaskCalls
    BY <1>1, <1>3 DEF TaskCalls
  <2>2. ASSUME OneCentre, NEW m \in TaskCalls, m # n, call[m].pc # "id"
        PROVE  call[m].pc # "index" /\ call[m].id[2] \in Nat /\ call[m].id[2] < ulIndex
    <3>1. call[m].by = call[n].by /\ m \in Calls
      BY <1>0, <1>2, <2>2 DEF OneCentre, TaskCalls, CmdInv, ControlInv, Control
    <3>2. m \in Nat /\ n \in Nat
      BY <1>0, <3>1 DEF Calls
    <3>3. call[m].pc = "done"
      BY <1>0, <2>2, <3>1, <3>2 DEF CmdInv, ControlInv, OneAtATime
    <3>4. QED
      BY <2>2, <3>3 DEF CmdInv, IdInv, IdBelow
  <2>3. \A m \in TaskCalls : IdBelow(m)'
    <3>1. IdBelow(n)'
      BY <1>0, <1>1, <1>3, <1>4 DEF IdBelow
    <3>2. ASSUME NEW m \in TaskCalls, m # n PROVE IdBelow(m)'
      <4>1. call'[m] = call[m] /\ IdBelow(m)
        BY <1>3, <3>2 DEF TaskCalls, CmdInv, IdInv
      <4>2. QED
        BY <1>4, <4>1 DEF IdBelow
    <3>3. QED
      BY <3>1, <3>2
  <2>4. ASSUME OneCentre, NEW m \in TaskCalls, NEW k \in TaskCalls, m # k,
               call'[m].pc # "id", call'[k].pc # "id"
        PROVE  call'[m].id[2] # call'[k].id[2]
    <3>0. \A j \in TaskCalls : j # n => call'[j] = call[j]
      BY <1>3 DEF TaskCalls
    <3>1. call'[n].id[2] = ulIndex
      BY <1>1, <1>3
    <3>2. CASE m = n
      BY <1>0, <2>2, <2>4, <3>0, <3>1, <3>2
    <3>3. CASE k = n
      BY <1>0, <2>2, <2>4, <3>0, <3>1, <3>3
    <3>4. CASE m # n /\ k # n
      BY <2>4, <3>0, <3>4 DEF CmdInv, IdInv
    <3>5. QED
      BY <3>2, <3>3, <3>4
  <2>5. QED
    BY <2>1, <2>3, <2>4 DEF IdInv
<1>8. FlowInv'
  <2>1. rec.op \notin QueryOps
    BY <1>1, <1>2 DEF QueryOps
  <2>2. \A d \in Devices : executed[d] \subseteq executed'[d] /\ executed'[d] \subseteq Sent
    BY <1>4 DEF CmdInv, FlowInv
  <2>3. QED
    BY <1>0, <1>1, <1>2, <1>4, <2>1, <2>2, FlowStep DEF CmdInv
<1>9. QED
  BY <1>5, <1>6, <1>7, <1>8 DEF CmdInv

(* ulIndex++ is complete before the next call of the centre reads it. *)
LEMMA StoreIndexInv ==
    ASSUME TypeOKCmd, CmdInv, NEW n \in Calls, StoreIndex(n)
    PROVE  TypeOKCmd' /\ CmdInv'
<1> DEFINE rec == [call[n] EXCEPT !.pc = "connect"]
<1>0. /\ call \in Seq(CallRec) /\ call[n] \in CallRec /\ ulIndex \in Nat
      /\ Control(call[n]) /\ call[n].pc = "index" /\ Step(n, rec)
  <2>1. call[n] \in CallRec
    BY DEF TypeOKCmd, Calls
  <2>2. QED
    BY <2>1 DEF TypeOKCmd, StoreIndex, CmdInv, ControlInv
<1>1. /\ rec \in CallRec /\ rec.op = call[n].op /\ rec.by = call[n].by /\ rec.dev = call[n].dev
      /\ rec.id = call[n].id /\ rec.pc = "connect" /\ rec.net = call[n].net
      /\ rec.answer = call[n].answer /\ rec.ret = call[n].ret /\ rec.out = call[n].out
  BY <1>0 DEF CallRec
<1>2. call[n].op = "task" /\ call[n].ret = "none"
  BY <1>0 DEF Control
<1> HIDE DEF rec
<1>3. /\ Calls' = Calls /\ call'[n] = rec /\ call' \in Seq(CallRec)
      /\ \A m \in Calls : m # n => call'[m] = call[m]
  BY <1>0, <1>1, StepFacts
<1>4. UNCHANGED <<tick, tasks, status, executed>>
  BY DEF StoreIndex
<1>5. /\ call[n].id[2] \in Nat /\ ulIndex' = call[n].id[2] + 1
      /\ OneCentre => call[n].id[2] = ulIndex
  <2>1. n \in TaskCalls
    BY <1>2 DEF TaskCalls
  <2>2. QED
    BY <1>0, <2>1 DEF CmdInv, IdInv, IdBelow, StoreIndex
<1>6. TypeOKCmd'
  BY <1>0, <1>3, <1>4, <1>5 DEF TypeOKCmd
<1>7. ControlInv'
  <2>1. Control(rec)
    BY <1>0, <1>1, <1>2 DEF Control
  <2>2. QED
    BY <1>0, <1>1, <2>1, ControlStep DEF CmdInv
<1>8. IdInv'
  <2>1. TaskCalls' = TaskCalls
    BY <1>1, <1>3 DEF TaskCalls
  <2>2. \A m \in TaskCalls : call'[m].id = call[m].id /\ (m # n => call'[m].pc = call[m].pc)
    BY <1>1, <1>3 DEF TaskCalls
  <2>3. ASSUME OneCentre, NEW m \in TaskCalls, m # n PROVE call[m].pc # "index"
    <3>1. call[m].by = call[n].by /\ m \in Calls
      BY <1>0, <1>2, <2>3 DEF OneCentre, TaskCalls, CmdInv, ControlInv, Control
    <3>2. m \in Nat /\ n \in Nat
      BY <1>0, <3>1 DEF Calls
    <3>3. call[m].pc = "done" \/ m > n
      BY <1>0, <2>3, <3>1, <3>2 DEF CmdInv, ControlInv, OneAtATime
    <3>4. QED
      BY <1>0, <3>1, <3>2, <3>3 DEF CmdInv, ControlInv, OneAtATime
  <2>4. ASSUME NEW m \in TaskCalls PROVE IdBelow(m)'
    <3>1. IdBelow(m)
      BY DEF CmdInv, IdInv
    <3>2. CASE m = n
      BY <1>0, <1>1, <1>3, <1>5, <3>1, <3>2 DEF IdBelow
    <3>3. CASE m # n
      BY <1>0, <1>5, <2>2, <2>3, <3>1, <3>3 DEF IdBelow
    <3>4. QED
      BY <3>2, <3>3
  <2>5. \A m \in TaskCalls : call'[m].pc # "id" => call[m].pc # "id"
    BY <1>0, <2>2
  <2>6. QED
    BY <2>1, <2>2, <2>4, <2>5 DEF CmdInv, IdInv
<1>9. FlowInv'
  <2>1. rec.op \notin QueryOps
    BY <1>1, <1>2 DEF QueryOps
  <2>2. \A d \in Devices : executed[d] \subseteq executed'[d] /\ executed'[d] \subseteq Sent
    BY <1>4 DEF CmdInv, FlowInv
  <2>3. QED
    BY <1>0, <1>1, <1>2, <1>4, <2>1, <2>2, FlowStep DEF CmdInv
<1>10. QED
  BY <1>6, <1>7, <1>8, <1>9 DEF CmdInv

(* A step of a call past GetUniqueID that changes nothing but the call. *)
LEMMA QuietStep ==
    ASSUME TypeOKCmd, CmdInv, NEW n \in Calls, NEW rec \in CallRec, Step(n, rec),
           Control(rec), call[n].pc \notin {"id", "index"}, rec.pc \notin {"id", "index"},
           rec.op = call[n].op, rec.by = call[n].by, rec.dev = call[n].dev,
           rec.op = "task" => rec.id = call[n].id,
           call[n].pc = "done" => rec.pc = "done" /\ rec.ret = call[n].ret,
           rec.op = "uploadResult" /\ rec.pc # "done"
               => call[n].pc # "done" /\ rec.id = call[n].id,
           \/ rec.answer.items = <<>>
           \/ rec.answer = call[n].answer /\ (rec.op = "queryResult" => rec.id = call[n].id),
           rec.op \in QueryOps /\ rec.ret = "true" =>
               /\ rec.out = rec.answer.items
               /\ rec.op = "queryResult" => Len(rec.out) = rec.nCount,
           UNCHANGED <<tick, ulIndex, tasks, status, executed>>
    PROVE  TypeOKCmd' /\ CmdInv'
<1>1. call \in Seq(CallRec)
  BY DEF TypeOKCmd
<1>2. TypeOKCmd'
  BY <1>1, StepFacts DEF TypeOKCmd
<1>3. ControlInv' /\ IdInv'
  BY <1>1, ControlStep, IdStep DEF CmdInv
<1>4. \A d \in Devices : executed[d] \subseteq executed'[d] /\ executed'[d] \subseteq Sent
  BY DEF CmdInv, FlowInv
<1>5. FlowInv'
  BY <1>4, FlowStep DEF CmdInv
<1>6. QED
  BY <1>2, <1>3, <1>5 DEF CmdInv

(* Create, Connect and Send: only a task whose command was sent in full    *)
(* answers true.                                                           *)
LEMMA ConnectAndSendInv ==
    ASSUME TypeOKCmd, CmdInv, NEW n \in Calls, ConnectAndSend(n)
    PROVE  TypeOKCmd' /\ CmdInv'
<1> DEFINE c == call[n]
<1>0. c \in CallRec /\ Control(c) /\ c.pc = "connect" /\ c.ret = "none" /\ c.out = <<>>
  <2>1. c \in CallRec
    BY DEF TypeOKCmd, Calls
  <2>2. QED
    BY <2>1 DEF ConnectAndSend, CmdInv, ControlInv, Control
<1>1. UNCHANGED <<tick, ulIndex, tasks, status, executed>>
  BY DEF ConnectAndSend
<1>2. CASE Step(n, AfterSend(c))
  <2> DEFINE rec == AfterSend(c)
  <2>1. /\ rec \in CallRec
        /\ rec.op = c.op /\ rec.by = c.by /\ rec.dev = c.dev
        /\ rec.out = c.out /\ rec.id = c.id /\ rec.answer = c.answer
        /\ rec.net = "request"
        /\ c.op = "task" => rec.pc = "done" /\ rec.ret = "true"
        /\ c.op # "task" => rec.pc = "receive" /\ rec.ret = c.ret
    BY <1>0, AfterSendFields
  <2>2. Step(n, rec)
    BY <1>2
  <2> HIDE DEF rec
  <2>3. Control(rec)
    BY <1>0, <2>1 DEF Control
  <2>4. rec.op \in QueryOps => rec.ret # "true"
    BY <1>0, <2>1 DEF QueryOps
  <2>5. QED
    BY <1>0, <1>1, <2>1, <2>2, <2>3, <2>4, QuietStep
<1>3. CASE Step(n, Fail(c))
  <2> DEFINE rec == Fail(c)
  <2>1. /\ rec \in CallRec
        /\ rec.op = c.op /\ rec.by = c.by /\ rec.dev = c.dev /\ rec.out = c.out
        /\ rec.pc = "done" /\ rec.ret = "false" /\ rec.net = "closed"
        /\ rec.answer.items = <<>>
        /\ c.op = "task" => rec.id = c.id
    BY <1>0, FailFields DEF NoAnswer
  <2>2. Step(n, rec)
    BY <1>3
  <2> HIDE DEF rec
  <2>3. Control(rec)
    BY <1>0, <2>1 DEF Control
  <2>4. QED
    BY <1>0, <1>1, <2>1, <2>2, <2>3, QuietStep
<1>4. QED
  BY <1>2, <1>3 DEF ConnectAndSend

(* The one recv: what a device executes is what the server put into the    *)
(* answer, and that are tasks whose calls answered true.                   *)
LEMMA ReceiveInv ==
    ASSUME TypeOKCmd, CmdInv, NEW n \in Calls, Receive(n)
    PROVE  TypeOKCmd' /\ CmdInv'
<1> DEFINE c == call[n]
<1>0. /\ c \in CallRec /\ Control(c) /\ c.pc = "receive" /\ c.ret = "none"
      /\ c.out = <<>> /\ c.op # "task" /\ c.net # "request"
  <2>1. c \in CallRec
    BY DEF TypeOKCmd, Calls
  <2>2. Control(c) /\ c.pc = "receive" /\ c.net \in {"served", "closed"}
    BY DEF Receive, CmdInv, ControlInv
  <2>3. c.op # "task"
    BY <2>1, <2>2 DEF CmdInv, ControlInv, Control
  <2>4. QED
    BY <2>1, <2>2, <2>3 DEF Control
<1>1. UNCHANGED <<tick, ulIndex, tasks, status>>
  BY DEF Receive
<1>2. PICK got \in Got(c) :
         /\ Step(n, Received(c, got))
         /\ executed' = IF Received(c, got).op = "queryTask"
                        THEN [executed EXCEPT ![Received(c, got).dev] =
                                 @ \cup ToSet(Received(c, got).out)]
                        ELSE executed
  BY DEF Receive
<1>3. got \in Nat
  <2>1. c.answer.items \in Seq(Item) /\ c.nCount \in Nat
    BY <1>0 DEF CallRec
  <2>2. Size(c.answer) \in Nat /\ Room(c) \in Nat
    BY <2>1, CmdAssumption DEF Size, Room
  <2>3. QED
    BY <2>2 DEF Got
<1> DEFINE rec == Received(c, got)
<1>4. /\ rec \in CallRec
      /\ rec.op = c.op /\ rec.by = c.by /\ rec.dev = c.dev
      /\ rec.pc = "done" /\ rec.ret # "none" /\ rec.net = "closed"
      /\ \/ rec.answer = NoAnswer /\ rec.out = <<>> /\ (c.op \in QueryOps => rec.ret = "false")
         \/ /\ c.op \in QueryOps /\ rec.ret = "true"
            /\ rec.answer = c.answer /\ rec.id = c.id /\ rec.out = c.answer.items
            /\ c.op = "queryResult" => Len(rec.out) = rec.nCount
  BY <1>0, <1>3, ReceivedFields
<1>5. /\ Step(n, rec)
      /\ executed' = IF rec.op = "queryTask"
                     THEN [executed EXCEPT ![rec.dev] = @ \cup ToSet(rec.out)] ELSE executed
  BY <1>2
<1> HIDE DEF rec
<1>6. Sent \in SUBSET Nat
  BY DEF Sent, TaskCalls, Calls, TypeOKCmd
<1>7. rec.op = "queryTask" => ToSet(rec.out) \subseteq Sent
  <2>1. rec.op = "queryTask" => \A i \in DOMAIN c.answer.items : c.answer.items[i] \in Sent
    BY <1>4 DEF CmdInv, FlowInv, Carries
  <2>2. QED
    BY <1>4, <2>1 DEF ToSet, NoAnswer
<1>8. /\ \A d \in Devices : executed[d] \subseteq executed'[d] /\ executed'[d] \subseteq Sent
      /\ executed' \in [Devices -> SUBSET Nat]
  <2>1. rec.dev \in Devices /\ executed \in [Devices -> SUBSET Nat]
    BY <1>4 DEF CallRec, TypeOKCmd
  <2>2. \A d \in Devices : executed[d] \subseteq Sent
    BY DEF CmdInv, FlowInv
  <2>3. QED
    BY <1>5, <1>6, <1>7, <2>1, <2>2
<1>9. call \in Seq(CallRec)
  BY DEF TypeOKCmd
<1>10. Control(rec)
  BY <1>0, <1>4 DEF Control
<1>11. TypeOKCmd'
  BY <1>1, <1>4, <1>5, <1>8, <1>9, StepFacts DEF TypeOKCmd
<1>12. ControlInv'
  BY <1>4, <1>5, <1>9, <1>10, ControlStep DEF CmdInv
<1>13. IdInv'
  BY <1>0, <1>1, <1>4, <1>5, <1>9, IdStep DEF CmdInv
<1>14. FlowInv'
  <2>1. \/ rec.answer.items = <<>>
        \/ rec.answer = c.answer /\ (rec.op = "queryResult" => rec.id = c.id)
    BY <1>4 DEF NoAnswer
  <2>2. rec.op \in QueryOps /\ rec.ret = "true" =>
            /\ rec.out = rec.answer.items
            /\ rec.op = "queryResult" => Len(rec.out) = rec.nCount
    BY <1>4
  <2>3. QED
    BY <1>0, <1>1, <1>4, <1>5, <1>8, <2>1, <2>2, FlowStep DEF CmdInv
<1>15. QED
  BY <1>11, <1>12, <1>13, <1>14 DEF CmdInv

(* A refusal and a lost connection change nothing but the call. *)
LEMMA RefuseLoseInv ==
    ASSUME TypeOKCmd, CmdInv, NEW n \in Calls, Refuse(n) \/ Lose(n)
    PROVE  TypeOKCmd' /\ CmdInv'
<1> DEFINE c == call[n]
<1>0. /\ c \in CallRec /\ Control(c) /\ c.net \in {"request", "served"}
      /\ c.pc \notin {"id", "index"}
      /\ c.op # "task" => c.pc = "receive"
  <2>1. c \in CallRec
    BY DEF TypeOKCmd, Calls
  <2>2. Control(c)
    BY DEF CmdInv, ControlInv
  <2>3. QED
    BY <2>1, <2>2 DEF Refuse, Lose, Control
<1>1. UNCHANGED <<tick, ulIndex, tasks, status, executed>>
  BY DEF Refuse, Lose
<1>2. PICK rec \in CallRec :
         /\ Step(n, rec) /\ rec.net \in {"served", "closed"}
         /\ rec.answer = c.answer \/ rec.answer = NoAnswer
         /\ rec.op = c.op /\ rec.by = c.by /\ rec.dev = c.dev /\ rec.out = c.out
         /\ rec.id = c.id /\ rec.pc = c.pc /\ rec.ret = c.ret
  <2>0. NoAnswer \in [ack : BOOLEAN, items : Seq(Item)]
    BY DEF NoAnswer
  <2>1. CASE Refuse(n)
    <3> DEFINE r == [c EXCEPT !.net = "served"]
    <3>1. Step(n, r)
      BY <2>1 DEF Refuse
    <3>2. /\ r \in CallRec /\ r.net = "served" /\ r.answer = c.answer
          /\ r.op = c.op /\ r.by = c.by /\ r.dev = c.dev /\ r.out = c.out
          /\ r.id = c.id /\ r.pc = c.pc /\ r.ret = c.ret
      BY <1>0 DEF CallRec
    <3> HIDE DEF r
    <3>3. QED
      BY <3>1, <3>2
  <2>2. CASE Lose(n)
    <3> DEFINE r == [c EXCEPT !.net = "closed", !.answer = NoAnswer]
    <3>1. Step(n, r)
      BY <2>2 DEF Lose
    <3>2. /\ r \in CallRec /\ r.net = "closed" /\ r.answer = NoAnswer
          /\ r.op = c.op /\ r.by = c.by /\ r.dev = c.dev /\ r.out = c.out
          /\ r.id = c.id /\ r.pc = c.pc /\ r.ret = c.ret
      BY <1>0, <2>0 DEF CallRec
    <3> HIDE DEF r
    <3>3. QED
      BY <3>1, <3>2
  <2>3. QED
    BY <2>1, <2>2
<1>3. Control(rec)
  BY <1>0, <1>2 DEF Control
<1>4. rec.op \in QueryOps => rec.ret # "true"
  BY <1>0, <1>2 DEF QueryOps, Control
<1>5. rec.answer.items = <<>> \/ rec.answer = c.answer
  BY <1>2 DEF NoAnswer
<1>6. QED
  BY <1>0, <1>1, <1>2, <1>3, <1>4, <1>5, QuietStep

----------------------------------------------------------------------------
(* The server. *)

(* What the server puts into an answer is true of calls that are over. *)
LEMMA AnswerTrue ==
    ASSUME TypeOKCmd, CmdInv, NEW n \in Calls
    PROVE  LET items == Answer(call[n]) IN
           /\ items \in Seq(Item)
           /\ call[n].op = "queryTask" => \A i \in DOMAIN items : items[i] \in Sent
           /\ call[n].op = "queryResult" => \A i \in DOMAIN items :
                  /\ items[i][1] \in Sent /\ call[items[i][1]].id = call[n].id
                  /\ items[i][2] \in Devices
                  /\ OneCentre /\ items[i][3] = "ok" => items[i][1] \in executed[items[i][2]]
<1> DEFINE c == call[n]
           items == Answer(c)
<1>0. /\ c \in CallRec /\ c.dev \in Devices
      /\ \A i \in DOMAIN tasks : TaskKnown(i) /\ tasks[i] \in TaskRec
  <2>1. c \in CallRec
    BY DEF TypeOKCmd, Calls
  <2>2. \A i \in DOMAIN tasks : tasks[i] \in TaskRec
    BY DEF TypeOKCmd
  <2>3. QED
    BY <2>1, <2>2 DEF CallRec, CmdInv, FlowInv
<1>1. Sent \subseteq 1..Len(call) /\ Len(call) \in Nat
  BY DEF Sent, TaskCalls, Calls, TypeOKCmd
<1>2. CASE c.op = "queryTask"
  <2> DEFINE S == {tasks[i].n : i \in {j \in DOMAIN tasks :
                       c.dev \in tasks[j].devs /\ tasks[j].result[c.dev] = "wait"}}
  <2>1. S \subseteq Sent
    BY <1>0 DEF TaskKnown
  <2>2. IsFiniteSet(S)
    <3>1. IsFiniteSet(1..Len(call))
      BY <1>1, FS_Interval
    <3>2. S \in SUBSET (1..Len(call))
      BY <1>1, <2>1
    <3> HIDE DEF S
    <3>3. QED
      BY <3>1, <3>2, FS_Subset
  <2>3. items = SetToSeq(S)
    BY <1>2 DEF Answer, Waiting
  <2> HIDE DEF S, items
  <2>4. items \in Seq(S)
    BY <2>2, <2>3, SetToSeqType
  <2>5. \A i \in DOMAIN items : items[i] \in Sent
    BY <2>1, <2>4
  <2>6. S \subseteq Item
    BY <1>1, <2>1 DEF Item
  <2>7. items \in Seq(Item)
    BY <2>4, <2>6, SeqMonotonic
  <2>8. QED
    BY <1>2, <2>5, <2>7 DEF items
<1>3. CASE c.op = "queryResult" /\ Known(c.id) # {}
  <2> DEFINE j == CHOOSE i \in Known(c.id) : TRUE
             k == tasks[j]
             f == [d \in k.devs |-> <<k.n, d, k.result[d]>>]
             S == {f[d] : d \in k.devs}
  <2>1. j \in DOMAIN tasks /\ k.id = c.id
    BY <1>3 DEF Known
  <2>2. TaskKnown(j) /\ k \in TaskRec
    BY <1>0, <2>1
  <2>3. items = SetToSeq(S)
    <3>1. S = {<<k.n, d, k.result[d]>> : d \in k.devs}
      OBVIOUS
    <3>2. items = SetToSeq({<<k.n, d, k.result[d]>> : d \in k.devs})
      BY <1>3 DEF Answer, Results
    <3> HIDE DEF S, items
    <3>3. QED
      BY <3>1, <3>2
  <2>4. \A e \in S : /\ e[1] \in Sent /\ call[e[1]].id = c.id /\ e[2] \in Devices
                     /\ OneCentre /\ e[3] = "ok" => e[1] \in executed[e[2]]
                     /\ e \in Nat \X Devices \X Result
    <3>1. /\ k.devs \subseteq Devices /\ k.n \in Nat
          /\ \A d \in k.devs : k.result[d] \in Result
      BY <2>2, TaskFields
    <3>2. /\ k.n \in Sent /\ call[k.n].id = c.id
          /\ OneCentre => \A d \in k.devs : k.result[d] = "ok" => k.n \in executed[d]
      BY <2>1, <2>2 DEF TaskKnown
    <3> HIDE DEF k
    <3>3. TAKE e \in S
    <3>4. PICK d \in k.devs : e = <<k.n, d, k.result[d]>>
      OBVIOUS
    <3>5. e[1] = k.n /\ e[2] = d /\ e[3] = k.result[d]
      BY <3>4
    <3>6. e \in Nat \X Devices \X Result
      BY <3>1, <3>4
    <3>7. QED
      BY <3>1, <3>2, <3>5, <3>6
  <2>5. IsFiniteSet(k.devs)
    <3>1. k.devs \in SUBSET Devices
      BY <2>2, TaskFields
    <3>2. QED
      BY <3>1, CmdAssumption, FS_Subset
  <2>6. IsFiniteSet(S)
    <3>1. DOMAIN f = k.devs
      OBVIOUS
    <3> HIDE DEF f
    <3>2. QED
      BY <2>5, <3>1, FiniteImage
  <2> HIDE DEF S, items, k
  <2>7. items \in Seq(S)
    BY <2>3, <2>6, SetToSeqType
  <2>8. S \subseteq Item
    BY <2>4 DEF Item
  <2>9. items \in Seq(Item)
    BY <2>7, <2>8, SeqMonotonic
  <2>10. \A i \in DOMAIN items : items[i] \in S
    BY <2>7
  <2>11. QED
    BY <1>3, <2>4, <2>9, <2>10 DEF items
<1>4. CASE c.op = "queryResult" /\ Known(c.id) = {}
  <2>1. items = <<>>
    BY <1>4 DEF Answer, Results
  <2>2. QED
    BY <1>4, <2>1
<1>5. CASE c.op \notin {"queryTask", "queryResult"}
  <2>1. status[c.dev] \in Nat
    BY <1>0 DEF TypeOKCmd
  <2>2. items = <<>> \/ items = <<status[c.dev]>>
    BY <1>5 DEF Answer
  <2>3. <<>> \in Seq(Item) /\ \A x \in Item : <<x>> \in Seq(Item)
    OBVIOUS
  <2>4. status[c.dev] \in Item
    BY <2>1 DEF Item
  <2> HIDE DEF items
  <2>5. items \in Seq(Item)
    BY <2>2, <2>3, <2>4
  <2>6. QED
    BY <1>5, <2>5 DEF items
<1>6. QED
  BY <1>2, <1>3, <1>4, <1>5

(* An upload of a result marks exactly the task that the device executed:  *)
(* identifiers are unique.                                                 *)
LEMMA UploadMarks ==
    ASSUME OneCentre, TypeOKCmd, CmdInv, NEW n \in Calls, call[n].op = "uploadResult",
           call[n].pc # "done", NEW i \in Known(call[n].id)
    PROVE  tasks[i].n \in executed[call[n].dev]
<1>1. call[n].dev \in Devices
  <2>1. call[n] \in CallRec
    BY DEF TypeOKCmd, Calls
  <2>2. QED
    BY <2>1 DEF CallRec
<1>2. PICK k \in executed[call[n].dev] : call[k].id = call[n].id
  BY DEF CmdInv, FlowInv, Carries
<1>3. k \in Sent /\ tasks[i].n \in Sent /\ call[tasks[i].n].id = call[k].id
  BY <1>1, <1>2 DEF CmdInv, FlowInv, TaskKnown, Known
<1>4. \A m \in Sent : m \in TaskCalls /\ call[m].pc # "id"
  BY DEF Sent, TaskCalls, CmdInv, ControlInv, Control
<1>5. k = tasks[i].n
  BY <1>3, <1>4 DEF CmdInv, IdInv
<1>6. QED
  BY <1>2, <1>5

(* What serving a command does to the server's own state. *)
LEMMA ServeStateInv ==
    ASSUME TypeOKCmd, CmdInv, NEW n \in Calls, call[n].net = "request", ServeState(n), Grow
    PROVE  /\ tasks' \in Seq(TaskRec) /\ status' \in [Devices -> Nat]
           /\ \A i \in DOMAIN tasks' : TaskKnown(i)'
           /\ \A d \in Devices : StatusKnown(d)' /\ status'[d] >= status[d]
<1> DEFINE c == call[n]
<1>0. c \in CallRec /\ Control(c) /\ n \in Nat /\ tasks \in Seq(TaskRec)
  BY DEF TypeOKCmd, Calls, CmdInv, ControlInv
<1>1. c.dev \in Devices /\ c.id \in Int \X Int /\ c.devs \in SUBSET Devices
  BY <1>0 DEF CallRec
<1>2. FlowInv
  BY DEF CmdInv
<1>3. tasks' \in Seq(TaskRec) /\ \A i \in DOMAIN tasks' : TaskKnown(i)'
  <2>1. CASE c.op = "task" /\ Known(c.id) = {}
    <3> DEFINE t == NewTask(n)
    <3>1. tasks' = Append(tasks, t)
      BY <2>1 DEF ServeState
    <3>2. t \in TaskRec
      <4>1. t \in [n : Nat, id : Int \X Int, devs : {c.devs}, result : [c.devs -> Result]]
        BY <1>0, <1>1 DEF NewTask, Result
      <4> HIDE DEF t
      <4>2. QED
        BY <1>1, <4>1 DEF TaskRec
    <3>3. t.n = n /\ t.id = c.id /\ \A d \in t.devs : t.result[d] = "wait"
      BY DEF NewTask
    <3> HIDE DEF t
    <3>0. PICK j \in Nat : j = Len(tasks) + 1
      BY <1>0
    <3>4. /\ tasks' \in Seq(TaskRec) /\ DOMAIN tasks' = DOMAIN tasks \cup {j}
          /\ tasks'[j] = t
          /\ \A i \in DOMAIN tasks : tasks'[i] = tasks[i]
      BY <1>0, <3>0, <3>1, <3>2
    <3>5. n \in Sent
      BY <1>0, <2>1 DEF Control, Sent, TaskCalls
    <3>6. n \in Sent' /\ call'[n].id = c.id
      BY <3>5 DEF Grow
    <3>7. TaskKnown(j)'
      BY <3>3, <3>4, <3>6 DEF TaskKnown
    <3>8. ASSUME NEW i \in DOMAIN tasks' PROVE TaskKnown(i)'
      <4>1. CASE i = j
        BY <3>7, <4>1
      <4>2. CASE i \in DOMAIN tasks
        BY <1>2, <3>4, <4>2, ServerKept
      <4>3. QED
        BY <3>4, <4>1, <4>2
    <3>9. QED
      BY <3>4, <3>8
  <2>2. CASE c.op = "uploadResult"
    <3>0. c.pc # "done"
      BY <1>0, <2>2 DEF Control
    <3>1. tasks' = [i \in DOMAIN tasks |->
                       IF i \in Known(c.id) /\ c.dev \in tasks[i].devs
                       THEN [tasks[i] EXCEPT !.result[c.dev] = "ok"] ELSE tasks[i]]
      BY <2>2 DEF ServeState
    <3>2. DOMAIN tasks' = DOMAIN tasks
      BY <3>1
    <3>3. ASSUME NEW i \in DOMAIN tasks PROVE tasks'[i] \in TaskRec /\ TaskKnown(i)'
      <4>0. tasks[i] \in TaskRec
        BY <1>0
      <4>1. CASE i \in Known(c.id) /\ c.dev \in tasks[i].devs
        <5>1. /\ tasks[i].n \in Nat /\ tasks[i].id \in Int \X Int
              /\ tasks[i].devs \in SUBSET Devices
              /\ tasks[i].result \in [tasks[i].devs -> Result]
              /\ tasks[i] = [n |-> tasks[i].n, id |-> tasks[i].id,
                            devs |-> tasks[i].devs, result |-> tasks[i].result]
          BY <4>0, TaskFields
        <5>2. tasks'[i] = [tasks[i] EXCEPT !.result[c.dev] = "ok"]
          BY <3>1, <4>1
        <5>3. tasks'[i] = [n |-> tasks[i].n, id |-> tasks[i].id, devs |-> tasks[i].devs,
                           result |-> [tasks[i].result EXCEPT ![c.dev] = "ok"]]
          BY <5>1, <5>2
        <5>4. [tasks[i].result EXCEPT ![c.dev] = "ok"] \in [tasks[i].devs -> Result]
          BY <5>1 DEF Result
        <5>5. tasks'[i] \in TaskRec
          BY <5>1, <5>3, <5>4 DEF TaskRec
        <5>6. OneCentre => tasks[i].n \in executed[c.dev]
          BY <2>2, <3>0, <4>1, UploadMarks
        <5>7. TaskKnown(i) /\ tasks[i].n \in Sent
          BY <1>2 DEF FlowInv, TaskKnown
        <5>8. /\ tasks[i].n \in Sent' /\ tasks[i].id = call'[tasks[i].n].id
              /\ OneCentre => \A d \in tasks[i].devs :
                     tasks[i].result[d] = "ok" \/ d = c.dev => tasks[i].n \in executed'[d]
          BY <1>1, <5>1, <5>6, <5>7 DEF TaskKnown, Grow
        <5>9. \A d \in tasks[i].devs : tasks'[i].result[d] = "ok" =>
                  tasks[i].result[d] = "ok" \/ d = c.dev
          BY <5>1, <5>3
        <5>10. tasks'[i].n = tasks[i].n /\ tasks'[i].id = tasks[i].id
               /\ tasks'[i].devs = tasks[i].devs
          BY <5>3
        <5>11. TaskKnown(i)'
          BY <5>8, <5>9, <5>10 DEF TaskKnown
        <5>12. QED
          BY <5>5, <5>11
      <4>2. CASE ~(i \in Known(c.id) /\ c.dev \in tasks[i].devs)
        <5>1. tasks'[i] = tasks[i]
          BY <3>1, <4>2
        <5>2. QED
          BY <1>2, <4>0, <5>1, ServerKept
      <4>3. QED
        BY <4>1, <4>2
    <3>4. tasks' \in Seq(TaskRec)
      <4>1. DOMAIN tasks = 1..Len(tasks) /\ Len(tasks) \in Nat
        BY <1>0
      <4>2. tasks' \in [1..Len(tasks) -> TaskRec]
        BY <3>1, <3>2, <3>3, <4>1
      <4>3. QED
        BY <4>1, <4>2, SeqDef
    <3>5. QED
      BY <3>2, <3>3, <3>4
  <2>3. CASE ~(c.op = "task" /\ Known(c.id) = {}) /\ c.op # "uploadResult"
    <3>1. tasks' = tasks
      BY <2>3 DEF ServeState
    <3>2. QED
      BY <1>0, <1>2, <3>1, ServerKept
  <2>4. QED
    BY <2>1, <2>2, <2>3
<1>4. /\ status' \in [Devices -> Nat]
      /\ \A d \in Devices : StatusKnown(d)' /\ status'[d] >= status[d]
  <2>0. status \in [Devices -> Nat]
    BY DEF TypeOKCmd
  <2>1. CASE c.op = "uploadStatus"
    <3>1. status' = [status EXCEPT ![c.dev] = n]
      BY <2>1 DEF ServeState
    <3>2. c.by = c.dev /\ c.pc # "done"
      BY <1>0, <2>1 DEF Control
    <3>3. status[c.dev] <= n
      <4>1. CASE status[c.dev] = 0
        BY <1>0, <4>1
      <4>2. CASE status[c.dev] # 0
        <5>1. status[c.dev] \in Calls /\ call[status[c.dev]].by = c.dev
          BY <1>1, <1>2, <4>2 DEF FlowInv, StatusKnown
        <5>2. status[c.dev] \in Nat
          BY <1>1, <2>0
        <5>3. ~(n < status[c.dev])
          BY <3>2, <5>1 DEF CmdInv, ControlInv, OneAtATime
        <5>4. QED
          BY <1>0, <5>2, <5>3
      <4>3. QED
        BY <4>1, <4>2
    <3>4. n \in Calls' /\ call'[n].by = c.by
      BY DEF Grow
    <3>5. ASSUME NEW d \in Devices PROVE StatusKnown(d)' /\ status'[d] >= status[d]
      <4>1. CASE d = c.dev
        <5>1. status'[d] = n
          BY <2>0, <3>1, <4>1
        <5>2. QED
          BY <1>0, <1>1, <2>0, <3>2, <3>3, <3>4, <4>1, <5>1 DEF StatusKnown
      <4>2. CASE d # c.dev
        <5>1. status'[d] = status[d] /\ StatusKnown(d) /\ status[d] \in Nat
          BY <1>2, <2>0, <3>1, <4>2 DEF FlowInv
        <5>2. QED
          BY <5>1 DEF StatusKnown, Grow
      <4>3. QED
        BY <4>1, <4>2
    <3>6. QED
      BY <1>0, <1>1, <2>0, <3>1, <3>5
  <2>2. CASE c.op # "uploadStatus"
    <3>1. status' = status
      BY <2>2 DEF ServeState
    <3>2. QED
      BY <1>2, <2>0, <3>1, ServerKept
  <2>3. QED
    BY <2>1, <2>2
<1>5. QED
  BY <1>3, <1>4

(* Serving a command, and its answer. *)
LEMMA ServeInv ==
    ASSUME TypeOKCmd, CmdInv, NEW n \in Calls, Serve(n)
    PROVE  TypeOKCmd' /\ CmdInv' /\ \A d \in Devices : status'[d] >= status[d]
<1> DEFINE c == call[n]
<1>0. c \in CallRec /\ Control(c) /\ c.net = "request" /\ call \in Seq(CallRec)
  <2>1. c \in CallRec
    BY DEF TypeOKCmd, Calls
  <2>2. QED
    BY <2>1 DEF TypeOKCmd, Serve, CmdInv, ControlInv
<1>1. UNCHANGED <<tick, ulIndex, executed>> /\ ServeState(n)
  BY DEF Serve
<1>2. PICK rec \in CallRec :
         /\ Step(n, rec) /\ rec.net \in {"served", "closed"}
         /\ rec.op = c.op /\ rec.by = c.by /\ rec.dev = c.dev /\ rec.out = c.out
         /\ rec.id = c.id /\ rec.pc = c.pc /\ rec.ret = c.ret
         /\ c.op = "task" => rec.answer = c.answer
         /\ c.op # "task" => rec.answer.items = Answer(c)
  <2>1. CASE c.op = "task"
    <3> DEFINE r == [c EXCEPT !.net = "closed"]
    <3>1. Step(n, r)
      BY <2>1 DEF Serve
    <3>2. /\ r \in CallRec /\ r.net = "closed" /\ r.answer = c.answer
          /\ r.op = c.op /\ r.by = c.by /\ r.dev = c.dev /\ r.out = c.out
          /\ r.id = c.id /\ r.pc = c.pc /\ r.ret = c.ret
      BY <1>0 DEF CallRec
    <3> HIDE DEF r
    <3>3. QED
      BY <2>1, <3>1, <3>2
  <2>2. CASE c.op # "task"
    <3> DEFINE a == [ack |-> TRUE, items |-> Answer(c)]
               r == [c EXCEPT !.net = "served", !.answer = a]
    <3>1. Step(n, r)
      BY <2>2 DEF Serve
    <3>2. a \in [ack : BOOLEAN, items : Seq(Item)] /\ a.items = Answer(c)
      BY AnswerTrue
    <3> HIDE DEF a
    <3>3. /\ r \in CallRec /\ r.net = "served" /\ r.answer = a
          /\ r.op = c.op /\ r.by = c.by /\ r.dev = c.dev /\ r.out = c.out
          /\ r.id = c.id /\ r.pc = c.pc /\ r.ret = c.ret
      BY <1>0, <3>2 DEF CallRec
    <3> HIDE DEF r
    <3>4. QED
      BY <2>2, <3>1, <3>2, <3>3
  <2>3. QED
    BY <2>1, <2>2
<1>3. c.pc \notin {"id", "index"} /\ (c.op # "task" => c.pc = "receive" /\ c.ret = "none")
  BY <1>0 DEF Control
<1>4. /\ Calls' = Calls /\ call'[n] = rec /\ call' \in Seq(CallRec)
      /\ \A m \in Calls : m # n => call'[m] = call[m]
  BY <1>0, <1>2, StepFacts
<1>5. Control(rec)
  BY <1>0, <1>2 DEF Control
<1>6. ControlInv'
  BY <1>0, <1>2, <1>5, ControlStep DEF CmdInv
<1>7. IdInv'
  BY <1>0, <1>1, <1>2, <1>3, IdStep DEF CmdInv
<1>8. Grow
  BY <1>0, <1>1, <1>2, StepGrow DEF CmdInv
<1>9. /\ tasks' \in Seq(TaskRec) /\ status' \in [Devices -> Nat]
      /\ \A i \in DOMAIN tasks' : TaskKnown(i)'
      /\ \A d \in Devices : StatusKnown(d)' /\ status'[d] >= status[d]
  BY <1>0, <1>1, <1>8, ServeStateInv
<1>10. TypeOKCmd'
  BY <1>1, <1>4, <1>9 DEF TypeOKCmd
<1>11. FlowInv'
  <2>1. ASSUME NEW m \in Calls, m # n PROVE Carries(m)'
    BY <1>4, <1>8, <2>1, CarriesKept DEF CmdInv
  <2>2. Carries(n)'
    <3>1. CASE c.op = "task"
      BY <1>2, <1>4, <3>1 DEF Carries
    <3>2. CASE c.op = "uploadResult"
      <4>1. PICK k \in executed[c.dev] : call[k].id = c.id
        BY <1>3, <3>2 DEF CmdInv, FlowInv, Carries
      <4>2. k \in Sent
        <5>1. c.dev \in Devices
          BY <1>0 DEF CallRec
        <5>2. QED
          BY <4>1, <5>1 DEF CmdInv, FlowInv
      <4>3. call'[k].id = c.id
        BY <4>1, <4>2, <1>8 DEF Grow
      <4>4. QED
        BY <1>1, <1>2, <1>4, <3>2, <4>1, <4>3 DEF Carries
    <3>3. CASE c.op = "queryTask"
      <4>1. \A i \in DOMAIN rec.answer.items : rec.answer.items[i] \in Sent
        BY <1>2, <3>3, AnswerTrue
      <4>2. QED
        BY <1>2, <1>4, <1>8, <3>3, <4>1 DEF Carries, Grow
    <3>4. CASE c.op = "queryResult"
      <4>1. \A i \in DOMAIN rec.answer.items :
               LET entry == rec.answer.items[i]
               IN  /\ entry[1] \in Sent /\ call[entry[1]].id = c.id /\ entry[2] \in Devices
                   /\ OneCentre /\ entry[3] = "ok" => entry[1] \in executed[entry[2]]
        BY <1>2, <3>4, AnswerTrue
      <4>2. QED
        BY <1>1, <1>2, <1>4, <1>8, <3>4, <4>1 DEF Carries, Grow
    <3>5. CASE c.op \notin {"task", "uploadResult", "queryTask", "queryResult"}
      BY <1>2, <1>4, <3>5 DEF Carries
    <3>6. QED
      BY <3>1, <3>2, <3>3, <3>4, <3>5
  <2>3. \A d \in Devices : executed'[d] \subseteq Sent'
    BY <1>1, <1>8 DEF CmdInv, FlowInv, Grow
  <2>4. AnswerWhole'
    <3>1. rec.op \in QueryOps => rec.ret # "true"
      BY <1>2, <1>3 DEF QueryOps
    <3>2. QED
      BY <1>0, <1>2, <3>1, AnswerStep DEF CmdInv, FlowInv
  <2>5. QED
    BY <1>4, <1>9, <2>1, <2>2, <2>3, <2>4 DEF FlowInv
<1>12. QED
  BY <1>6, <1>7, <1>9, <1>10, <1>11 DEF CmdInv

(* The beginning of a call: its thread has no other call under way. *)
LEMMA BeginInv ==
    ASSUME TypeOKCmd, CmdInv, NEW t \in Threads, NEW op \in Op, NEW pc \in {"id", "connect"},
           NEW dev \in Devices, NEW devs \in SUBSET Devices, NEW id \in Int \X Int,
           NEW nCount \in Nat, Begin(t, op, pc, dev, devs, id, nCount),
           op = "task" => t \in Centres /\ pc = "id" /\ id = NoID,
           op # "task" => pc = "connect",
           op \in {"queryTask", "uploadStatus", "uploadResult"} => t = dev,
           op = "uploadResult" => \E k \in executed[dev] : call[k].id = id
    PROVE  TypeOKCmd' /\ CmdInv'
<1> DEFINE r == [op |-> op, by |-> t, dev |-> dev, devs |-> devs, id |-> id,
                 nCount |-> nCount, pc |-> pc, net |-> "none", answer |-> NoAnswer,
                 ret |-> "none", out |-> <<>>]
<1>0. call' = Append(call, r) /\ UNCHANGED <<tick, ulIndex, tasks, status, executed>>
  BY DEF Begin
<1>1. /\ r \in CallRec /\ r.op = op /\ r.by = t /\ r.dev = dev /\ r.id = id /\ r.pc = pc
      /\ r.net = "none" /\ r.answer.items = <<>> /\ r.ret = "none" /\ r.out = <<>>
  <2>1. NoAnswer \in [ack : BOOLEAN, items : Seq(Item)] /\ NoAnswer.items = <<>>
    BY DEF NoAnswer
  <2>2. QED
    BY <2>1 DEF CallRec
<1> HIDE DEF r
<1>2. PICK j \in Nat : j = Len(call) + 1
  BY DEF TypeOKCmd
<1>3. /\ call' \in Seq(CallRec) /\ Calls' = Calls \cup {j} /\ Calls \subseteq Nat
      /\ call'[j] = r
      /\ \A m \in Calls : call'[m] = call[m] /\ m < j
  BY <1>0, <1>1, <1>2, AppendFacts DEF TypeOKCmd
<1>4. TypeOKCmd'
  BY <1>0, <1>3 DEF TypeOKCmd
<1>5. ControlInv'
  <2>1. Control(r)
    BY <1>1 DEF Control
  <2>2. \A m \in Calls : call[m].by = t => call[m].pc = "done"
    BY DEF Begin, Busy
  <2>3. OneAtATime'
    <3>1. ASSUME NEW m \in Calls', NEW k \in Calls', m < k, call'[m].by = call'[k].by
          PROVE  call'[m].pc = "done"
      <4>1. CASE k = j
        <5>1. m \in Calls
          BY <1>2, <1>3, <3>1, <4>1
        <5>2. QED
          BY <1>1, <1>3, <2>2, <3>1, <4>1, <5>1
      <4>2. CASE k \in Calls
        <5>1. k < j /\ k \in Nat
          BY <1>3, <4>2
        <5>2. m \in Calls
          BY <1>2, <1>3, <3>1, <5>1
        <5>3. QED
          BY <1>3, <3>1, <4>2, <5>2 DEF CmdInv, ControlInv, OneAtATime
      <4>3. QED
        BY <1>3, <4>1, <4>2
    <3>2. QED
      BY <3>1 DEF OneAtATime
  <2>4. \A m \in Calls' : Control(call'[m])
    BY <1>3, <2>1 DEF CmdInv, ControlInv
  <2>5. QED
    BY <2>3, <2>4 DEF ControlInv
<1>6. IdInv'
  <2>1. \A m \in TaskCalls' : m \in TaskCalls \/ (m = j /\ op = "task")
    BY <1>1, <1>3 DEF TaskCalls
  <2>2. \A m \in TaskCalls : call'[m] = call[m]
    BY <1>3 DEF TaskCalls
  <2>3. ASSUME NEW m \in TaskCalls' PROVE IdBelow(m)'
    <3>1. CASE m \in TaskCalls
      <4>1. IdBelow(m) /\ call'[m] = call[m]
        BY <2>2, <3>1 DEF CmdInv, IdInv
      <4>2. QED
        BY <1>0, <4>1 DEF IdBelow
    <3>2. CASE m = j /\ op = "task"
      BY <1>1, <1>3, <3>2 DEF IdBelow
    <3>3. QED
      BY <2>1, <3>1, <3>2
  <2>4. ASSUME OneCentre, NEW m \in TaskCalls', NEW k \in TaskCalls', m # k,
               call'[m].pc # "id", call'[k].pc # "id"
        PROVE  call'[m].id[2] # call'[k].id[2]
    <3>1. m \in TaskCalls /\ k \in TaskCalls
      BY <1>1, <1>3, <2>1, <2>4
    <3>2. QED
      BY <2>2, <2>4, <3>1 DEF CmdInv, IdInv
  <2>5. QED
    BY <2>3, <2>4 DEF IdInv
<1>7. FlowInv'
  <2>1. Grow
    <3>1. ASSUME NEW m \in Sent PROVE m \in Sent' /\ call'[m].id = call[m].id
      BY <1>3, <3>1 DEF Sent, TaskCalls
    <3>2. QED
      BY <1>0, <1>3, <3>1 DEF Grow
  <2>2. ASSUME NEW m \in Calls' PROVE Carries(m)'
    <3>1. CASE m \in Calls
      BY <1>3, <2>1, <3>1, CarriesKept DEF CmdInv
    <3>2. CASE m = j
      <4>1. op = "uploadResult" => \E k \in executed'[dev] : call'[k].id = id
        BY <1>0, <2>1 DEF Grow, CmdInv, FlowInv
      <4>2. call'[m].answer.items = <<>>
        BY <1>1, <1>3, <3>2
      <4>3. QED
        BY <1>1, <1>3, <3>2, <4>1, <4>2 DEF Carries
    <3>3. QED
      BY <1>3, <3>1, <3>2
  <2>3. /\ \A i \in DOMAIN tasks' : TaskKnown(i)'
        /\ \A d \in Devices : StatusKnown(d)'
    BY <1>0, <2>1, ServerKept DEF CmdInv
  <2>4. \A d \in Devices : executed'[d] \subseteq Sent'
    BY <1>0, <2>1 DEF CmdInv, FlowInv, Grow
  <2>5. AnswerWhole'
    BY <1>1, <1>3 DEF AnswerWhole, CmdInv, FlowInv
  <2>6. QED
    BY <2>2, <2>3, <2>4, <2>5 DEF FlowInv
<1>8. QED
  BY <1>4, <1>5, <1>6, <1>7 DEF CmdInv

----------------------------------------------------------------------------
(* The calls the centre and the devices can begin. *)
LEMMA BeginCallInv ==
    ASSUME TypeOKCmd, CmdInv,
           \/ \E t \in Centres : CentreCall(t)
           \/ \E d \in Devices : DeviceCall(d)
    PROVE  TypeOKCmd' /\ CmdInv' /\ UNCHANGED status
<1>0. /\ AnyDevice \in Devices /\ NoID \in Int \X Int /\ {} \in SUBSET Devices
      /\ Centres \subseteq Threads /\ Devices \subseteq Threads
      /\ \A n \in Calls : call[n].id \in Int \X Int
      /\ \A op \in {"task", "queryStatus", "queryTask", "queryResult",
                    "uploadStatus", "uploadResult"} : op \in Op
  <2>1. \A n \in Calls : call[n] \in CallRec
    BY DEF TypeOKCmd, Calls
  <2>2. \A n \in Calls : call[n].id \in Int \X Int
    BY <2>1 DEF CallRec
  <2>3. AnyDevice \in Devices
    BY CmdAssumption DEF AnyDevice
  <2>4. QED
    BY <2>2, <2>3 DEF NoID, Threads, Op, QueryOps, UploadOps
<1>1. ASSUME NEW t \in Centres, NEW devs \in Groups, Begin(t, "task", "id", AnyDevice, devs, NoID, 0)
      PROVE  TypeOKCmd' /\ CmdInv'
  <2>1. devs \in SUBSET Devices
    BY CmdAssumption
  <2>2. QED
    BY <1>0, <1>1, <2>1, BeginInv
<1>2. ASSUME NEW t \in Centres, NEW d \in Devices, QuerySingleStatus(t, d)
      PROVE  TypeOKCmd' /\ CmdInv'
  BY <1>0, <1>2, BeginInv DEF QuerySingleStatus
<1>3. ASSUME NEW t \in Centres, NEW n \in Calls, NEW nCount \in 1..Cardinality(Devices),
             QueryExecuteResult(t, n, nCount)
      PROVE  TypeOKCmd' /\ CmdInv'
  <2>1. Begin(t, "queryResult", "connect", AnyDevice, {}, call[n].id, nCount)
    BY <1>3 DEF QueryExecuteResult
  <2>2. nCount \in Nat
    BY CmdAssumption, FS_CardinalityType
  <2>3. QED
    BY <1>0, <2>1, <2>2, BeginInv
<1>4. ASSUME NEW d \in Devices, QueryTask(d) PROVE TypeOKCmd' /\ CmdInv'
  BY <1>0, <1>4, BeginInv DEF QueryTask
<1>5. ASSUME NEW d \in Devices, UpLoadDeviceStatus(d) PROVE TypeOKCmd' /\ CmdInv'
  BY <1>0, <1>5, BeginInv DEF UpLoadDeviceStatus
<1>6. ASSUME NEW d \in Devices, NEW n \in executed[d], UpLoadTASK_RESULT(d, n)
      PROVE  TypeOKCmd' /\ CmdInv'
  <2>1. n \in Calls
    BY DEF CmdInv, FlowInv, Sent, TaskCalls
  <2>2. Begin(d, "uploadResult", "connect", d, {}, call[n].id, 0)
    BY <1>6 DEF UpLoadTASK_RESULT
  <2>3. \E k \in executed[d] : call[k].id = call[n].id
    OBVIOUS
  <2>4. QED
    BY <1>0, <2>1, <2>2, <2>3, BeginInv
<1>7. UNCHANGED status
  BY DEF CentreCall, DeviceCall, PublishEmgency, StopEmgency, ExectCommand, QuerySingleStatus,
         QueryExecuteResult, QueryTask, UpLoadDeviceStatus, UpLoadTASK_RESULT, Begin
<1>8. QED
  BY <1>1, <1>2, <1>3, <1>4, <1>5, <1>6, <1>7
     DEF CentreCall, DeviceCall, PublishEmgency, StopEmgency, ExectCommand

(* The invariant is inductive, and no step takes a device's state back. *)
LEMMA CmdStep ==
    TypeOKCmd /\ CmdInv /\ [Next]_vars =>
        TypeOKCmd' /\ CmdInv' /\ (\A d \in Devices : status'[d] >= status[d])
<1> SUFFICES ASSUME TypeOKCmd, CmdInv, [Next]_vars
             PROVE  TypeOKCmd' /\ CmdInv' /\ \A d \in Devices : status'[d] >= status[d]
  OBVIOUS
<1>0. \A d \in Devices : status[d] \in Nat
  BY DEF TypeOKCmd
<1>1. CASE \/ \E t \in Centres : CentreCall(t)
           \/ \E d \in Devices : DeviceCall(d)
  BY <1>0, <1>1, BeginCallInv
<1>2. ASSUME NEW n \in Calls, Continue(n)
      PROVE  TypeOKCmd' /\ CmdInv' /\ UNCHANGED status
  <2>1. UNCHANGED status
    BY <1>2 DEF Continue, GetUniqueID, StoreIndex, ConnectAndSend, Receive
  <2>2. QED
    BY <1>2, <2>1, GetUniqueIDInv, StoreIndexInv, ConnectAndSendInv, ReceiveInv DEF Continue
<1>3. ASSUME NEW n \in Calls, Refuse(n) \/ Lose(n)
      PROVE  TypeOKCmd' /\ CmdInv' /\ UNCHANGED status
  <2>1. UNCHANGED status
    BY <1>3 DEF Refuse, Lose
  <2>2. QED
    BY <1>3, <2>1, RefuseLoseInv
<1>4. ASSUME NEW n \in Calls, Serve(n)
      PROVE  TypeOKCmd' /\ CmdInv' /\ \A d \in Devices : status'[d] >= status[d]
  BY <1>4, ServeInv
<1>5. CASE UNCHANGED vars
  <2> USE <1>5 DEF vars
  <2>1. TypeOKCmd'
    BY DEF TypeOKCmd
  <2>2. ControlInv'
    BY DEF CmdInv, ControlInv, OneAtATime, Calls
  <2>3. IdInv'
    BY DEF CmdInv, IdInv, IdBelow, TaskCalls, Calls
  <2>4. FlowInv'
    BY DEF CmdInv, FlowInv, TaskKnown, StatusKnown, Carries, AnswerWhole, Sent, TaskCalls, Calls
  <2>5. QED
    BY <1>0, <2>1, <2>2, <2>3, <2>4 DEF CmdInv
<1>6. QED
  BY <1>0, <1>1, <1>2, <1>3, <1>4, <1>5 DEF Next, Server

(* CmdInv holds in every reachable state. *)
LEMMA CmdInvariant == Spec => [](TypeOKCmd /\ CmdInv)
<1>1. Init => TypeOKCmd /\ CmdInv
  <2> SUFFICES ASSUME Init PROVE TypeOKCmd /\ CmdInv
    OBVIOUS
  <2>1. TypeOKCmd
    BY DEF Init, TypeOKCmd
  <2>2. Calls = {} /\ DOMAIN tasks = {}
    BY DEF Init, Calls
  <2>3. CmdInv
    BY <2>2 DEF Init, CmdInv, ControlInv, OneAtATime, IdInv, TaskCalls, FlowInv, StatusKnown,
                AnswerWhole
  <2>4. QED
    BY <2>1, <2>3
<1>2. QED
  BY <1>1, CmdStep, PTL DEF Spec

(* GetUniqueID (CmdServiceTools.cpp:625-643) never gives two calls of the  *)
(* publishing thread the same identifier, however often the clock repeats. *)
THEOREM Unique == ASSUME OneCentre PROVE Spec => []UniqueIds
<1>1. CmdInv => UniqueIds
  <2> SUFFICES ASSUME CmdInv, NEW m \in TaskCalls, NEW n \in TaskCalls,
                      call[m].id = call[n].id, call[m].id # NoID
               PROVE  m = n
    BY DEF UniqueIds
  <2>1. call[m].pc # "id" /\ call[n].pc # "id"
    BY DEF CmdInv, IdInv, IdBelow
  <2>2. QED
    BY <2>1 DEF CmdInv, IdInv
<1>2. QED
  BY <1>1, CmdInvariant, PTL

(* A task call that answered false is never executed by a device, however  *)
(* long its connection outlives it.                                        *)
THEOREM FalseHarmless == Spec => []FalseNotExecuted
<1>1. CmdInv => FalseNotExecuted
  BY DEF CmdInv, FlowInv, Sent, FalseNotExecuted
<1>2. QED
  BY <1>1, CmdInvariant, PTL

(* What QueryExecuteResult reports as done, the device has executed.       *)
THEOREM Causal == ASSUME OneCentre PROVE Spec => []ResultCausal
<1>1. CmdInv => ResultCausal
  <2> SUFFICES ASSUME CmdInv, NEW q \in Calls, call[q].op = "queryResult",
                      call[q].ret = "true", NEW i \in DOMAIN call[q].out,
                      call[q].out[i][3] = "ok",
                      NEW n \in TaskCalls, call[n].id = call[q].id
               PROVE  n \in executed[call[q].out[i][2]]
    BY DEF ResultCausal
  <2> DEFINE entry == call[q].out[i]
  <2>1. call[q].out = call[q].answer.items
    BY DEF CmdInv, FlowInv, AnswerWhole, QueryOps
  <2>2. /\ entry[1] \in Sent /\ call[entry[1]].id = call[q].id
        /\ entry[1] \in executed[entry[2]]
    BY <2>1 DEF CmdInv, FlowInv, Carries
  <2>3. entry[1] \in TaskCalls /\ call[entry[1]].pc = "done"
    BY <2>2 DEF Sent, TaskCalls, CmdInv, ControlInv, Control
  <2>4. call[n].id[2] \in Nat /\ call[n].pc # "id"
    <3>1. call[entry[1]].id[2] \in Nat
      BY <2>3 DEF CmdInv, IdInv, IdBelow
    <3>2. NoID[2] \notin Nat
      BY DEF NoID
    <3>3. QED
      BY <2>2, <3>1, <3>2 DEF CmdInv, IdInv, IdBelow
  <2>5. n = entry[1]
    BY <2>2, <2>3, <2>4 DEF CmdInv, IdInv
  <2>6. QED
    BY <2>2, <2>5
<1>2. QED
  BY <1>1, CmdInvariant, PTL

(* A query that answers true hands out the whole answer, however recv cut  *)
(* it.                                                                     *)
THEOREM Whole == Spec => []AnswerWhole
<1>1. CmdInv => AnswerWhole
  BY DEF CmdInv, FlowInv
<1>2. QED
  BY <1>1, CmdInvariant, PTL

(* The state the server keeps of a device never goes back to an older      *)
(* upload.                                                                 *)
THEOREM Forward == Spec => StatusForward
<1>1. TypeOKCmd /\ CmdInv /\ [Next]_vars => [\A d \in Devices : status'[d] >= status[d]]_vars
  BY CmdStep
<1>2. QED
  BY <1>1, CmdInvariant, PTL DEF Spec, StatusForward
============================================================================

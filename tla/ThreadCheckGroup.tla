-------------------------- MODULE ThreadCheckGroup --------------------------
(***************************************************************************)
(* CThreadCheckGroup (MfcUI/ThreadCheck.h:55-80, ThreadCheck.cpp:102-213): *)
(* splits the indices 0..nCheckTotal-1 into ranges and gives each range to *)
(* a CThreadCheck of its own.  Composed with ThreadCheck: an element of    *)
(* Objects is an address; `new CThreadCheck(i)` takes any free one, so a   *)
(* worker that outlives its deleted object finds at that address either    *)
(* the old contents or the next object constructed there.  (A fault ends   *)
(* the process, and with it a behaviour of this module.)                   *)
(*                                                                         *)
(* SetParam and Stop are run by one caller.  `at` says where the caller is *)
(* in them and `i` is the index of the loop it is in.                      *)
(***************************************************************************)
EXTENDS ThreadCheck, Sequences

CONSTANTS
    MaxThreads, \* bound: values of nMaxThread
    MaxTotal,   \* bound: values of nCheckTotal
    MaxCreated, \* bound: threads created by all calls of SetParam
    Params      \* the <<nMaxThread, nCheckTotal, isLoop>> the user passes

ASSUME GroupBounds ==
    /\ MaxThreads \in Nat /\ MaxTotal \in Nat /\ MaxCreated \in Nat
    /\ Params \subseteq (0..MaxThreads) \X (0..MaxTotal) \X BOOLEAN

VARIABLES
    m_groupCB,          \* has a group callback been registered?
    m_threadRangList,   \* the ranges <<first, end>>
    m_theadList,        \* the addresses of the group's CThreadChecks
    m_tagID,            \* the index an object was constructed with
    param,              \* nMaxThread, nCheckTotal and isLoop of the last SetParam
    at, i, preIndex,    \* the caller's control state
    checking            \* per worker: the range m_groupCB was called with

gvars == <<m_groupCB, m_threadRangList, m_theadList, m_tagID, param,
           at, i, preIndex, checking>>
vars == <<tvars, gvars>>

Indices == 0..MaxTotal - 1
NoRange == <<>>
Wild == <<"unknown">>   \* what an out-of-bounds read of the vector yields

(* idle: in neither call.  stop: the loop of Stop, before tc->StopRun().   *)
(* delete: before `delete tc`.  stopping, deleting: inside the StopRun of  *)
(* each.  range: the loop of CaclueEveryThreadCheckRange.  new, setcb,     *)
(* start: the three calls in the loop of SetParam.                         *)
Stage == {"idle", "stop", "stopping", "delete", "deleting", "range", "new",
          "setcb", "start"}

TypeOKGroup ==
    /\ TypeOK
    /\ m_groupCB \in BOOLEAN
    /\ m_theadList \in Seq(Objects) /\ Len(m_theadList) <= MaxThreads
    /\ Len(m_threadRangList) <= MaxThreads
    /\ \A k \in DOMAIN m_threadRangList :
           m_threadRangList[k] \in (0..MaxTotal) \X (0..MaxTotal)
    /\ m_tagID \in [Objects -> 0..MaxThreads]
    /\ param \in [nMax : 0..MaxThreads, total : 0..MaxTotal,
                  isLoop : BOOLEAN, again : BOOLEAN]
    /\ at \in Stage
    /\ i \in 0..MaxThreads
    /\ preIndex \in 0..MaxTotal

GroupInit ==
    /\ ThreadInit
    /\ m_hThreadCB = [o \in Objects |-> FALSE]
    /\ m_groupCB = FALSE
    /\ m_threadRangList = <<>>
    /\ m_theadList = <<>>
    /\ m_tagID = [o \in Objects |-> 0]
    /\ param = [nMax |-> 0, total |-> 0, isLoop |-> TRUE, again |-> FALSE]
    /\ at = "idle" /\ i = 0 /\ preIndex = 0
    /\ checking = [o \in Objects |-> [g \in Handles |-> NoRange]]

SetGroupThreadExectCallBack ==
    /\ at = "idle"
    /\ m_groupCB' = TRUE
    /\ UNCHANGED <<tvars, m_threadRangList, m_theadList, m_tagID, param, at, i,
                   preIndex, checking>>

----------------------------------------------------------------------------
(* CalcueNum: <<everyNum, revelNum>>. *)
CalcueNum(totalNum, countNum) ==
    IF countNum <= 0 THEN <<0, 0>>
    ELSE <<totalNum \div countNum, totalNum % countNum>>

UseCountEvery(nMax, total) == CalcueNum(total, nMax)[1]

(* The value CaclueEveryThreadCheckRange returns. *)
UseCount(nMax, total) ==
    LET n == CalcueNum(total, nMax) IN IF n[1] = 0 THEN n[2] ELSE nMax

(* SetParam up to its call of Stop; nCheckTotal = 0 returns at once.       *)
(* The two guards on `created` are the bounds MaxStarts and MaxCreated.    *)
SetParam(nMax, total, isLoop) ==
    /\ at = "idle"
    /\ total # 0
    /\ Cardinality({o \in Objects : created[o] < MaxStarts}) >= nMax
    /\ Cardinality({w \in Objects \X Handles : w[2] <= created[w[1]]})
           + UseCount(nMax, total) <= MaxCreated
    /\ param' = [nMax |-> nMax, total |-> total, isLoop |-> isLoop, again |-> TRUE]
    /\ at' = "stop" /\ i' = 0
    /\ UNCHANGED <<tvars, m_groupCB, m_threadRangList, m_theadList, m_tagID,
                   preIndex, checking>>

(* Stop called by the user. *)
Stop ==
    /\ at = "idle"
    /\ param' = [param EXCEPT !.again = FALSE]
    /\ at' = "stop" /\ i' = 0
    /\ UNCHANGED <<tvars, m_groupCB, m_threadRangList, m_theadList, m_tagID,
                   preIndex, checking>>

(* tc->StopRun() and the StopRun of the destructor have the same two       *)
(* steps; the object is gone once the second has returned.                 *)
StopBegin(c) ==
    /\ at \in {"stop", "delete"} /\ i < Len(m_theadList)
    /\ StopSignal(m_theadList[i + 1], c)
    /\ at' = IF at = "stop" THEN "stopping" ELSE "deleting"
    /\ UNCHANGED <<m_groupCB, m_threadRangList, m_theadList, m_tagID, param, i,
                   preIndex, checking>>

StopEnd(c) ==
    /\ at \in {"stopping", "deleting"}
    /\ StopReturn(m_theadList[i + 1], c)
    /\ at' = IF at = "stopping" THEN "delete" ELSE "stop"
    /\ i' = IF at = "stopping" THEN i ELSE i + 1
    /\ UNCHANGED <<m_groupCB, m_threadRangList, m_theadList, m_tagID, param,
                   preIndex, checking>>

(* The end of Stop.  In SetParam, CaclueEveryThreadCheckRange follows. *)
StopDone ==
    /\ at = "stop" /\ i = Len(m_theadList)
    /\ m_theadList' = <<>>
    /\ m_threadRangList' = IF param.again THEN <<>> ELSE m_threadRangList
    /\ at' = IF param.again THEN "range" ELSE "idle"
    /\ i' = 0 /\ preIndex' = 0
    /\ UNCHANGED <<tvars, m_groupCB, m_tagID, param, checking>>

CaclueEveryStepOneMore(n) ==
    LET num == n[1] + (IF i <= n[2] THEN 1 ELSE 0)
    IN  /\ m_threadRangList' = Append(m_threadRangList, <<preIndex, preIndex + num>>)
        /\ preIndex' = preIndex + num

CaclueEveryStepStale(n) ==
    LET num == n[1] + (IF i < n[2] THEN 1 ELSE 0)
    IN  /\ m_threadRangList' = Append(m_threadRangList, <<preIndex, preIndex + num>>)
        /\ preIndex' = preIndex + n[1]

(* One iteration of the loop of CaclueEveryThreadCheckRange. *)
CaclueEveryStep(n) ==
    LET num == n[1] + (IF i < n[2] THEN 1 ELSE 0)
    IN  /\ m_threadRangList' = Append(m_threadRangList, <<preIndex, preIndex + num>>)
        /\ preIndex' = preIndex + num

RangeStep ==
    /\ at = "range" /\ i < param.nMax
    /\ CaclueEveryStep(CalcueNum(param.total, param.nMax))
    /\ i' = i + 1
    /\ UNCHANGED <<tvars, m_groupCB, m_theadList, m_tagID, param, at, checking>>

RangeDone ==
    /\ at = "range" /\ i = param.nMax
    /\ at' = "new" /\ i' = 0
    /\ UNCHANGED <<tvars, m_groupCB, m_threadRangList, m_theadList, m_tagID,
                   param, preIndex, checking>>

(* new CThreadCheck(i): the constructor at a free address o. *)
NewThreadCheck(o) ==
    /\ at = "new" /\ i < UseCount(param.nMax, param.total)
    /\ \A k \in DOMAIN m_theadList : m_theadList[k] # o
    /\ created[o] < MaxStarts
    /\ m_tagID' = [m_tagID EXCEPT ![o] = i]
    /\ m_hEvent' = [m_hEvent EXCEPT ![o] = NULL]
    /\ m_hThread' = [m_hThread EXCEPT ![o] = NULL]
    /\ m_bStopCheck' = [m_bStopCheck EXCEPT ![o] = TRUE]
    /\ m_hThreadCB' = [m_hThreadCB EXCEPT ![o] = FALSE]
    /\ m_theadList' = Append(m_theadList, o)
    /\ at' = "setcb"
    /\ UNCHANGED <<m_isLoop, created, signalled, workerVars, stopOn, m_groupCB,
                   m_threadRangList, param, i, preIndex, checking>>

SetThreadCallBack(o) ==
    /\ at = "setcb" /\ m_theadList[i + 1] = o
    /\ SetThreadExectCallBack(o)
    /\ at' = "start"
    /\ UNCHANGED <<m_groupCB, m_threadRangList, m_theadList, m_tagID, param, i,
                   preIndex, checking>>

StartThread(o, c) ==
    /\ at = "start" /\ m_theadList[i + 1] = o
    /\ StartRun(o, c, param.isLoop)
    /\ at' = "new" /\ i' = i + 1
    /\ UNCHANGED <<m_groupCB, m_threadRangList, m_theadList, m_tagID, param,
                   preIndex, checking>>

SetParamDone ==
    /\ at = "new" /\ i = UseCount(param.nMax, param.total)
    /\ at' = "idle" /\ i' = 0
    /\ UNCHANGED <<tvars, m_groupCB, m_threadRangList, m_theadList, m_tagID,
                   param, preIndex, checking>>

----------------------------------------------------------------------------
(* ThreadExectCallBackFunc and ThreadCheckAction, in worker g of address o. *)

RangeOfFirst(tag) ==
    IF m_threadRangList # <<>> THEN m_threadRangList[1] ELSE Wild

RangeOf(tag) ==
    IF tag + 1 \in DOMAIN m_threadRangList THEN m_threadRangList[tag + 1] ELSE Wild

ThreadCheckAction(o, g) ==
    /\ pc[o][g] = "call" /\ checking[o][g] = NoRange
    /\ m_groupCB
    /\ checking' = [checking EXCEPT ![o][g] = RangeOf(m_tagID[o])]
    /\ UNCHANGED <<tvars, m_groupCB, m_threadRangList, m_theadList, m_tagID,
                   param, at, i, preIndex>>

(* The callback returns: m_groupCB has run, or there is none. *)
ThreadCheckReturn(o, g) ==
    /\ m_groupCB => checking[o][g] # NoRange
    /\ WorkerReturn(o, g)
    /\ checking' = [checking EXCEPT ![o][g] = NoRange]
    /\ UNCHANGED <<m_groupCB, m_threadRangList, m_theadList, m_tagID, param,
                   at, i, preIndex>>

(* The steps of ThreadProc outside the callback. *)
ThreadProcStep(o, g) ==
    /\ \/ WorkerBegin(o, g)
       \/ WorkerTest(o, g)
       \/ WorkerWake(o, g)
       \/ WorkerExit(o, g)
    /\ UNCHANGED gvars

----------------------------------------------------------------------------
GroupCaller(c) ==
    \/ StopBegin(c)
    \/ StopEnd(c)
    \/ StopDone
    \/ RangeStep
    \/ RangeDone
    \/ SetParamDone
    \/ \E o \in Objects :
           NewThreadCheck(o) \/ SetThreadCallBack(o) \/ StartThread(o, c)

GroupWorker(o, g) ==
    \/ ThreadProcStep(o, g)
    \/ ThreadCheckAction(o, g)
    \/ ThreadCheckReturn(o, g)

GroupNext ==
    \/ SetGroupThreadExectCallBack
    \/ \E p \in Params : SetParam(p[1], p[2], p[3])
    \/ Stop
    \/ \E c \in Callers : GroupCaller(c)
    \/ \E o \in Objects, g \in Handles : GroupWorker(o, g)

GroupSpec == GroupInit /\ [][GroupNext]_vars

(* A call that was made runs on (its waits are bounded) and so does every  *)
(* thread; nobody is obliged to call SetParam or Stop.                     *)
GroupFairSpec ==
    /\ GroupSpec
    /\ \A c \in Callers : WF_vars(GroupCaller(c))
    /\ \A o \in Objects, g \in Handles : WF_vars(GroupWorker(o, g))

----------------------------------------------------------------------------
Ranges == {m_threadRangList[k] : k \in DOMAIN m_threadRangList}

Covers(r, x) == r[1] <= x /\ x < r[2]

(* Once CaclueEveryThreadCheckRange has returned, its ranges tile          *)
(* 0..total-1 in order, no two differ by more than one in length, and      *)
(* the value it returned is the number of ranges that are not empty (what  *)
(* ThreadCheck.h:37 calls the number of threads really usable).            *)
RangesTile ==
    LET L == m_threadRangList IN
    at \in {"new", "setcb", "start"} /\ param.nMax > 0 =>
        /\ Len(L) = param.nMax
        /\ L[1][1] = 0 /\ L[Len(L)][2] = param.total
        /\ \A k \in 1..Len(L) - 1 : L[k][2] = L[k + 1][1]
        /\ \A j, k \in 1..Len(L) : L[j][2] - L[j][1] <= L[k][2] - L[k][1] + 1
        /\ \A k \in 1..Len(L) :
               (L[k][1] < L[k][2]) <=> k <= UseCount(param.nMax, param.total)

(* The workers of the group's present threads. *)
Present == {m_theadList[k] : k \in DOMAIN m_theadList}
IsPresent(o, g) == o \in Present /\ g = m_hThread[o]

(* Two present threads never check the same index at the same time,        *)
(* although m_threadRangList is rebuilt while threads of the last SetParam *)
(* may still be inside ThreadCheckAction.                                  *)
NoDoubleCheck ==
    \A o, p \in Objects : \A g, h \in Handles :
        /\ o # p
        /\ IsPresent(o, g) /\ checking[o][g] # NoRange
        /\ IsPresent(p, h) /\ checking[p][h] # NoRange
        => /\ Wild \notin {checking[o][g], checking[p][h]}
           /\ \A x \in Indices :
                  ~(Covers(checking[o][g], x) /\ Covers(checking[p][h], x))

(* While a looping group stays as it is, with a callback and at least one  *)
(* thread, every index is checked again and again, whatever workers of     *)
(* deleted objects do to the objects that took their addresses.            *)
EveryIndexServed ==
    \A x \in Indices :
        <>[](/\ at = "idle" /\ m_theadList # <<>> /\ param.isLoop
             /\ m_groupCB /\ x < param.total)
        => []<>(\E o \in Objects, g \in Handles :
                   checking[o][g] \notin {NoRange, Wild} /\ Covers(checking[o][g], x))

(* After a Stop that no SetParam follows, every thread the group ever      *)
(* started ends, also those whose object was deleted under them: nothing   *)
(* is constructed at their addresses, where m_bStopCheck is still true.    *)
StopEndsThreads ==
    <>[](at = "idle" /\ m_theadList = <<>>)
        => <>[](\A o \in Objects : Live(o) = {})
=============================================================================

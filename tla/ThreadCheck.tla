---------------------------- MODULE ThreadCheck ----------------------------
(***************************************************************************)
(* CThreadCheck (MfcUI/ThreadCheck.h, ThreadCheck.cpp): one background     *)
(* thread that runs a callback, once or at every interval, and that the    *)
(* owner starts with StartRun and stops with StopRun.                      *)
(*                                                                         *)
(* Every field of the class is a variable, a function of the object (of    *)
(* the address it lives at).  The g-th StartRun there that really creates  *)
(* a thread creates event g and worker g: handles are never closed, so     *)
(* they are never reused and the number of the start names both.  An event *)
(* is the auto-reset event of CreateEvent(false, false, ...): a successful *)
(* wait resets it.                                                         *)
(*                                                                         *)
(* StopRun is two steps, because it blocks in WaitForSingleObject between  *)
(* them.  ThreadProc is one step per access to shared state.  Timeouts may *)
(* strike at any moment at which the awaited event is not signalled, so    *)
(* m_interval and the 5000 ms of StopRun need no clock.                    *)
(***************************************************************************)
EXTENDS Integers, FiniteSets

CONSTANTS
    Objects,    \* the (addresses of) CThreadCheck objects of the process
    Callers,    \* the threads that call StartRun and StopRun
    MaxStarts   \* bound: threads created at one address

ASSUME ObjectsAssumption == Objects # {}
ASSUME CallersAssumption == Callers # {}
ASSUME MaxStartsAssumption == MaxStarts \in Nat \ {0}

VARIABLES
    m_isLoop,       \* loop or run once, read by a worker when it begins
    m_bStopCheck,   \* the stop request
    m_hEvent,       \* newest event, 0 = NULL
    m_hThread,      \* the worker the owner believes in, 0 = NULL
    m_hThreadCB,    \* has a callback been registered?
    created,        \* how many threads (and events) were created so far
    signalled,      \* kernel state of each event
    pc,             \* where each worker is in ThreadProc
    mode,           \* the branch of ThreadProc each worker took
    waitOn,         \* the handle each worker passed to its last wait
    stopOn          \* per caller: the handle it waits for in StopRun, or Idle

flags == <<m_isLoop, m_bStopCheck, m_hThreadCB>>
handles == <<m_hEvent, m_hThread, created>>
workerVars == <<pc, mode, waitOn>>
tvars == <<m_isLoop, m_bStopCheck, m_hEvent, m_hThread, m_hThreadCB,
           created, signalled, pc, mode, waitOn, stopOn>>

Handles == 1..MaxStarts
NULL == 0
Idle == -1

(* none: not created.  begin: created, has read nothing.  test: at the     *)
(* while condition.  call: inside the callback.  wait: inside              *)
(* WaitForSingleObject.  exit: left the loop, before the last SetEvent.    *)
PC == {"none", "begin", "test", "call", "wait", "exit", "done"}
Mode == {"none", "loop", "once"}

TypeOK ==
    /\ m_isLoop \in [Objects -> BOOLEAN]
    /\ m_bStopCheck \in [Objects -> BOOLEAN]
    /\ m_hEvent \in [Objects -> 0..MaxStarts]
    /\ m_hThread \in [Objects -> 0..MaxStarts]
    /\ m_hThreadCB \in [Objects -> BOOLEAN]
    /\ created \in [Objects -> 0..MaxStarts]
    /\ signalled \in [Objects -> [Handles -> BOOLEAN]]
    /\ pc \in [Objects -> [Handles -> PC]]
    /\ mode \in [Objects -> [Handles -> Mode]]
    /\ waitOn \in [Objects -> [Handles -> 0..MaxStarts]]
    /\ stopOn \in [Objects -> [Callers -> -1..MaxStarts]]

----------------------------------------------------------------------------
(* The constructor.  It leaves m_isLoop uninitialized; as no worker exists *)
(* before StartRun assigns it, one value stands for both.                  *)
ThreadInit ==
    /\ m_isLoop = [o \in Objects |-> TRUE]
    /\ m_bStopCheck = [o \in Objects |-> TRUE]
    /\ m_hEvent = [o \in Objects |-> NULL]
    /\ m_hThread = [o \in Objects |-> NULL]
    /\ created = [o \in Objects |-> 0]
    /\ signalled = [o \in Objects |-> [h \in Handles |-> FALSE]]
    /\ pc = [o \in Objects |-> [h \in Handles |-> "none"]]
    /\ mode = [o \in Objects |-> [h \in Handles |-> "none"]]
    /\ waitOn = [o \in Objects |-> [h \in Handles |-> NULL]]
    /\ stopOn = [o \in Objects |-> [c \in Callers |-> Idle]]

Init ==
    /\ ThreadInit
    /\ m_hThreadCB = [o \in Objects |-> FALSE]

Goto(o, g, to) == pc' = [pc EXCEPT ![o][g] = to]

(* The value of signalled after SetEvent(h); SetEvent(NULL) fails. *)
SetEvent(o, h) ==
    [signalled EXCEPT ![o] = [e \in Handles |-> e = h \/ signalled[o][e]]]

(* The value of signalled after a wait for h ended, by the signal (which   *)
(* it resets), by the timeout, or at once because h is NULL.               *)
WaitOver(o, h) ==
    [signalled EXCEPT ![o] = [e \in Handles |-> e # h /\ signalled[o][e]]]

SetThreadExectCallBack(o) ==
    /\ m_hThreadCB' = [m_hThreadCB EXCEPT ![o] = TRUE]
    /\ UNCHANGED <<m_isLoop, m_bStopCheck, m_hEvent, m_hThread, signalled,
                   pc, mode, waitOn, stopOn, created>>

(* StartRun while m_hThread is set: only the assignment before the early   *)
(* return happens.                                                         *)
StartRunIgnored(o, c, isLoop) ==
    /\ stopOn[o][c] = Idle
    /\ m_hThread[o] # NULL
    /\ m_isLoop' = [m_isLoop EXCEPT ![o] = isLoop]
    /\ UNCHANGED <<m_bStopCheck, m_hEvent, m_hThread, m_hThreadCB, signalled,
                   pc, mode, waitOn, stopOn, created>>

StartRun(o, c, isLoop) ==
    /\ stopOn[o][c] = Idle
    /\ m_hThread[o] = NULL
    /\ created[o] < MaxStarts
    /\ created' = [created EXCEPT ![o] = @ + 1]
    /\ m_isLoop' = [m_isLoop EXCEPT ![o] = isLoop]
    /\ m_bStopCheck' = [m_bStopCheck EXCEPT ![o] = FALSE]
    /\ m_hEvent' = [m_hEvent EXCEPT ![o] = created[o] + 1]
    /\ m_hThread' = [m_hThread EXCEPT ![o] = created[o] + 1]
    /\ Goto(o, created[o] + 1, "begin")
    /\ UNCHANGED <<m_hThreadCB, signalled, mode, waitOn, stopOn>>

StopSignalOnly(o, c) ==
    /\ stopOn[o][c] = Idle
    /\ signalled' = SetEvent(o, m_hEvent[o])
    /\ stopOn' = [stopOn EXCEPT ![o][c] = m_hEvent[o]]
    /\ UNCHANGED <<flags, handles, workerVars>>

(* StopRun up to its WaitForSingleObject. *)
StopSignal(o, c) ==
    /\ stopOn[o][c] = Idle
    /\ m_bStopCheck' = [m_bStopCheck EXCEPT ![o] = TRUE]
    /\ signalled' = SetEvent(o, m_hEvent[o])
    /\ stopOn' = [stopOn EXCEPT ![o][c] = m_hEvent[o]]
    /\ UNCHANGED <<m_isLoop, m_hEvent, m_hThread, m_hThreadCB, workerVars, created>>

StopReturnInvalidHandle(o, c) ==
    /\ stopOn[o][c] # Idle
    /\ signalled' = WaitOver(o, stopOn[o][c])
    /\ m_hThread' = [m_hThread EXCEPT ![o] = -1]
    /\ stopOn' = [stopOn EXCEPT ![o][c] = Idle]
    /\ UNCHANGED <<m_isLoop, m_bStopCheck, m_hEvent, m_hThreadCB, workerVars, created>>

(* The rest of StopRun: the wait ends (the result is not looked at) and    *)
(* the thread handle is forgotten.                                         *)
StopReturn(o, c) ==
    /\ stopOn[o][c] # Idle
    /\ signalled' = WaitOver(o, stopOn[o][c])
    /\ m_hThread' = [m_hThread EXCEPT ![o] = NULL]
    /\ stopOn' = [stopOn EXCEPT ![o][c] = Idle]
    /\ UNCHANGED <<m_isLoop, m_bStopCheck, m_hEvent, m_hThreadCB, workerVars, created>>

----------------------------------------------------------------------------
(* ThreadProc *)

WorkerBegin(o, g) ==
    /\ pc[o][g] = "begin"
    /\ mode' = [mode EXCEPT ![o][g] = IF m_isLoop[o] THEN "loop" ELSE "once"]
    /\ Goto(o, g, IF m_isLoop[o] THEN "test"
                  ELSE IF m_hThreadCB[o] THEN "call" ELSE "exit")
    /\ UNCHANGED <<flags, handles, signalled, waitOn, stopOn>>

(* The worker's call of WaitForSingleObject on whatever m_hEvent is now. *)
EnterWait(o, g) ==
    /\ Goto(o, g, "wait")
    /\ waitOn' = [waitOn EXCEPT ![o][g] = m_hEvent[o]]

(* The while condition and, if it holds, the test of m_hThreadCB. *)
WorkerTest(o, g) ==
    /\ pc[o][g] = "test"
    /\ \/ /\ m_bStopCheck[o]
          /\ Goto(o, g, "exit")
          /\ UNCHANGED waitOn
       \/ /\ ~m_bStopCheck[o] /\ m_hThreadCB[o]
          /\ Goto(o, g, "call")
          /\ UNCHANGED waitOn
       \/ /\ ~m_bStopCheck[o] /\ ~m_hThreadCB[o]
          /\ EnterWait(o, g)
    /\ UNCHANGED <<flags, handles, signalled, mode, stopOn>>

(* The callback returns. *)
WorkerReturn(o, g) ==
    /\ pc[o][g] = "call"
    /\ \/ mode[o][g] = "loop" /\ EnterWait(o, g)
       \/ mode[o][g] = "once" /\ Goto(o, g, "exit") /\ UNCHANGED waitOn
    /\ UNCHANGED <<flags, handles, signalled, mode, stopOn>>

WorkerWakeNoTimeout(o, g) ==
    /\ pc[o][g] = "wait"
    /\ waitOn[o][g] # NULL => signalled[o][waitOn[o][g]]
    /\ Goto(o, g, "test")
    /\ signalled' = WaitOver(o, waitOn[o][g])
    /\ UNCHANGED <<flags, handles, mode, waitOn, stopOn>>

WorkerWakeSignalEnds(o, g) ==
    /\ pc[o][g] = "wait"
    /\ Goto(o, g, IF waitOn[o][g] # NULL /\ signalled[o][waitOn[o][g]]
                  THEN "exit" ELSE "test")
    /\ signalled' = WaitOver(o, waitOn[o][g])
    /\ UNCHANGED <<flags, handles, mode, waitOn, stopOn>>

(* The wait ends, by the signal or by the timeout m_interval. *)
WorkerWake(o, g) ==
    /\ pc[o][g] = "wait"
    /\ Goto(o, g, "test")
    /\ signalled' = WaitOver(o, waitOn[o][g])
    /\ UNCHANGED <<flags, handles, mode, waitOn, stopOn>>

(* The last SetEvent of ThreadProc signals the newest event of the object. *)
WorkerExit(o, g) ==
    /\ pc[o][g] = "exit"
    /\ Goto(o, g, "done")
    /\ signalled' = SetEvent(o, m_hEvent[o])
    /\ UNCHANGED <<flags, handles, mode, waitOn, stopOn>>

----------------------------------------------------------------------------
Owner(o, c) ==
    \/ \E isLoop \in BOOLEAN : StartRunIgnored(o, c, isLoop)
    \/ \E isLoop \in BOOLEAN : StartRun(o, c, isLoop)
    \/ StopSignal(o, c)
    \/ StopReturn(o, c)

Worker(o, g) ==
    \/ WorkerBegin(o, g)
    \/ WorkerTest(o, g)
    \/ WorkerReturn(o, g)
    \/ WorkerWake(o, g)
    \/ WorkerExit(o, g)

Next ==
    \E o \in Objects :
        \/ SetThreadExectCallBack(o)
        \/ \E c \in Callers : Owner(o, c)
        \/ \E g \in Handles : Worker(o, g)

Spec == Init /\ [][Next]_tvars

(* The scheduler runs every created thread, callbacks return, and the wait *)
(* of StopRun is bounded.  Nothing obliges the owner to call anything.     *)
Fairness ==
    \A o \in Objects :
        /\ \A g \in Handles : WF_tvars(Worker(o, g))
        /\ \A c \in Callers : WF_tvars(StopReturn(o, c))

FairSpec == Spec /\ Fairness

----------------------------------------------------------------------------
Live(o) == {g \in Handles : pc[o][g] \notin {"none", "done"}}

(* The owner's picture is right in one direction: while it holds a thread  *)
(* handle and has not asked for a stop, that very thread has not left the  *)
(* loop of ThreadProc.  A service built on CThreadCheck does not die       *)
(* silently.                                                               *)
RunningMeansAlive ==
    \A o \in Objects :
        LET g == m_hThread[o] IN
        (g \in Handles /\ ~m_bStopCheck[o] /\ mode[o][g] = "loop")
            => pc[o][g] \notin {"exit", "done"}

(* The other direction: a thread the owner has forgotten has been told to  *)
(* stop, so no thread loops on unseen.  It needs StartRun and StopRun to   *)
(* be called by one thread: with two callers the StopRun of one returns    *)
(* after the StartRun of the other and forgets the new thread.             *)
NoOrphan == \A o \in Objects : m_hThread[o] = NULL => m_bStopCheck[o]

(* The facts that make NoOrphan inductive when there is one caller.        *)
OneCaller == \A c, d \in Callers : c = d

StopPending ==
    \A o \in Objects : \A c \in Callers :
        stopOn[o][c] # Idle => m_bStopCheck[o]

(* A stop request that is not taken back by a new StartRun ends every      *)
(* thread the object ever created, although StopRun usually swallows the   *)
(* signal it sets and an old worker may sleep on an event nobody will      *)
(* signal again.                                                           *)
StopTerminates ==
    \A o \in Objects : <>[]m_bStopCheck[o] => <>[](Live(o) = {})

(* A looping thread that stays started with a callback runs the callback   *)
(* again and again, whatever older workers do to the event it sleeps on.   *)
LoopServes ==
    \A o \in Objects : \A g \in Handles :
        <>[](m_hThread[o] = g /\ ~m_bStopCheck[o] /\ m_hThreadCB[o]
                /\ mode[o][g] = "loop")
            => []<>(pc[o][g] = "call")

(* ThreadCheck.h:20 calls the class a single thread: at most one thread of *)
(* an object is alive.                                                     *)
SingleWorker == \A o \in Objects : Cardinality(Live(o)) <= 1
============================================================================

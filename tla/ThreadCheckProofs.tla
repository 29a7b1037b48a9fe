------------------------- MODULE ThreadCheckProofs -------------------------
(***************************************************************************)
(* What holds of CThreadCheck for every number of objects, callers and     *)
(* starts.  The invariants are inductive together with TypeOK; NoOrphan    *)
(* also needs StopPending and the assumption that one thread drives the    *)
(* object.                                                                 *)
(***************************************************************************)
EXTENDS ThreadCheck, TLAPS

(* Every operation of ThreadCheck.cpp:24-100 keeps the types.  Stated for  *)
(* single steps, because the classes that own a CThreadCheck take the same *)
(* steps.                                                                  *)
LEMMA TypeStep == TypeOK /\ [Next]_tvars => TypeOK'
<1> USE MaxStartsAssumption DEF Handles, NULL, Idle, PC, Mode
<1> SUFFICES ASSUME TypeOK, [Next]_tvars
             PROVE  TypeOK'
  OBVIOUS
<1>1. ASSUME NEW o \in Objects, SetThreadExectCallBack(o)
      PROVE  TypeOK'
  BY <1>1 DEF TypeOK, SetThreadExectCallBack
<1>2. ASSUME NEW o \in Objects, NEW c \in Callers, NEW b \in BOOLEAN,
             StartRunIgnored(o, c, b)
      PROVE  TypeOK'
  BY <1>2 DEF TypeOK, StartRunIgnored
<1>3. ASSUME NEW o \in Objects, NEW c \in Callers, NEW b \in BOOLEAN,
             StartRun(o, c, b)
      PROVE  TypeOK'
  BY <1>3 DEF TypeOK, StartRun, Goto
<1>4. ASSUME NEW o \in Objects, NEW c \in Callers, StopSignal(o, c)
      PROVE  TypeOK'
  BY <1>4 DEF TypeOK, StopSignal, SetEvent, workerVars
<1>5. ASSUME NEW o \in Objects, NEW c \in Callers, StopReturn(o, c)
      PROVE  TypeOK'
  BY <1>5 DEF TypeOK, StopReturn, WaitOver, workerVars
<1>6. ASSUME NEW o \in Objects, NEW g \in Handles, WorkerBegin(o, g)
      PROVE  TypeOK'
  BY <1>6 DEF TypeOK, WorkerBegin, Goto, flags, handles
<1>7. ASSUME NEW o \in Objects, NEW g \in Handles, WorkerTest(o, g)
      PROVE  TypeOK'
  <2>1. CASE EnterWait(o, g)
    BY <1>7, <2>1 DEF TypeOK, WorkerTest, EnterWait, Goto, flags, handles
  <2>2. CASE /\ \E to \in {"exit", "call"} : Goto(o, g, to)
             /\ UNCHANGED waitOn
    BY <1>7, <2>2 DEF TypeOK, WorkerTest, Goto, flags, handles
  <2>3. QED
    BY <1>7, <2>1, <2>2 DEF WorkerTest
<1>8. ASSUME NEW o \in Objects, NEW g \in Handles, WorkerReturn(o, g)
      PROVE  TypeOK'
  <2>1. CASE EnterWait(o, g)
    BY <1>8, <2>1 DEF TypeOK, WorkerReturn, EnterWait, Goto, flags, handles
  <2>2. CASE Goto(o, g, "exit") /\ UNCHANGED waitOn
    BY <1>8, <2>2 DEF TypeOK, WorkerReturn, Goto, flags, handles
  <2>3. QED
    BY <1>8, <2>1, <2>2 DEF WorkerReturn
<1>9. ASSUME NEW o \in Objects, NEW g \in Handles, WorkerWake(o, g)
      PROVE  TypeOK'
  BY <1>9 DEF TypeOK, WorkerWake, WaitOver, Goto, flags, handles
<1>10. ASSUME NEW o \in Objects, NEW g \in Handles, WorkerExit(o, g)
       PROVE  TypeOK'
  BY <1>10 DEF TypeOK, WorkerExit, SetEvent, Goto, flags, handles
<1>11. CASE UNCHANGED tvars
  BY <1>11 DEF TypeOK, tvars
<1>12. QED
  BY <1>1, <1>2, <1>3, <1>4, <1>5, <1>6, <1>7, <1>8, <1>9, <1>10, <1>11
     DEF Next, Owner, Worker

(* Every variable keeps its type: in particular m_hThread and m_hEvent are *)
(* NULL or handles that some StartRun of ThreadCheck.cpp:41-52 created.    *)
THEOREM TypeCorrect == Spec => []TypeOK
<1>1. Init => TypeOK
  BY MaxStartsAssumption DEF Init, ThreadInit, TypeOK, Handles, NULL, Idle, PC, Mode
<1>2. QED
  BY <1>1, TypeStep, PTL DEF Spec

----------------------------------------------------------------------------
(* No operation lets the thread whose handle the owner holds leave its     *)
(* loop unasked.                                                           *)
LEMMA AliveStep == TypeOK /\ RunningMeansAlive /\ [Next]_tvars => RunningMeansAlive'
<1> USE MaxStartsAssumption DEF Handles, NULL, Idle
<1> SUFFICES ASSUME TypeOK, RunningMeansAlive, [Next]_tvars
             PROVE  RunningMeansAlive'
  OBVIOUS
<1>1. ASSUME NEW o \in Objects, SetThreadExectCallBack(o)
      PROVE  RunningMeansAlive'
  BY <1>1 DEF RunningMeansAlive, SetThreadExectCallBack
<1>2. ASSUME NEW o \in Objects, NEW c \in Callers, NEW b \in BOOLEAN,
             StartRunIgnored(o, c, b)
      PROVE  RunningMeansAlive'
  BY <1>2 DEF RunningMeansAlive, StartRunIgnored
<1>3. ASSUME NEW o \in Objects, NEW c \in Callers, NEW b \in BOOLEAN,
             StartRun(o, c, b)
      PROVE  RunningMeansAlive'
  BY <1>3 DEF TypeOK, RunningMeansAlive, StartRun, Goto
<1>4. ASSUME NEW o \in Objects, NEW c \in Callers, StopSignal(o, c)
      PROVE  RunningMeansAlive'
  BY <1>4 DEF TypeOK, RunningMeansAlive, StopSignal, workerVars
<1>5. ASSUME NEW o \in Objects, NEW c \in Callers, StopReturn(o, c)
      PROVE  RunningMeansAlive'
  BY <1>5 DEF TypeOK, RunningMeansAlive, StopReturn, workerVars
<1>6. ASSUME NEW o \in Objects, NEW g \in Handles, WorkerBegin(o, g)
      PROVE  RunningMeansAlive'
  BY <1>6 DEF TypeOK, RunningMeansAlive, WorkerBegin, Goto, flags, handles
<1>7. ASSUME NEW o \in Objects, NEW g \in Handles, WorkerTest(o, g)
      PROVE  RunningMeansAlive'
  <2>1. CASE Goto(o, g, "exit") /\ m_bStopCheck[o]
    BY <1>7, <2>1 DEF TypeOK, RunningMeansAlive, WorkerTest, Goto, flags, handles
  <2>2. CASE \E to \in {"call", "wait"} : Goto(o, g, to)
    BY <1>7, <2>2 DEF TypeOK, RunningMeansAlive, WorkerTest, Goto, flags, handles
  <2>3. QED
    BY <1>7, <2>1, <2>2 DEF WorkerTest, EnterWait
<1>8. ASSUME NEW o \in Objects, NEW g \in Handles, WorkerReturn(o, g)
      PROVE  RunningMeansAlive'
  <2>1. CASE Goto(o, g, "exit") /\ mode[o][g] = "once"
    BY <1>8, <2>1 DEF TypeOK, RunningMeansAlive, WorkerReturn, Goto, flags, handles
  <2>2. CASE Goto(o, g, "wait")
    BY <1>8, <2>2 DEF TypeOK, RunningMeansAlive, WorkerReturn, Goto, flags, handles
  <2>3. QED
    BY <1>8, <2>1, <2>2 DEF WorkerReturn, EnterWait
<1>9. ASSUME NEW o \in Objects, NEW g \in Handles, WorkerWake(o, g)
      PROVE  RunningMeansAlive'
  BY <1>9 DEF TypeOK, RunningMeansAlive, WorkerWake, Goto, flags, handles
<1>10. ASSUME NEW o \in Objects, NEW g \in Handles, WorkerExit(o, g)
       PROVE  RunningMeansAlive'
  BY <1>10 DEF TypeOK, RunningMeansAlive, WorkerExit, Goto, flags, handles
<1>11. CASE UNCHANGED tvars
  BY <1>11 DEF RunningMeansAlive, tvars
<1>12. QED
  BY <1>1, <1>2, <1>3, <1>4, <1>5, <1>6, <1>7, <1>8, <1>9, <1>10, <1>11
     DEF Next, Owner, Worker

(* The thread whose handle the owner holds has not left its loop while no  *)
(* stop was requested, for any number of callers: the only step that takes *)
(* the request back (StartRun, ThreadCheck.cpp:49) also replaces the       *)
(* handle by that of a new thread.                                         *)
THEOREM Alive == Spec => []RunningMeansAlive
<1>1. Init => RunningMeansAlive
  BY DEF Init, ThreadInit, RunningMeansAlive, Handles, NULL
<1>2. QED
  BY <1>1, AliveStep, TypeCorrect, PTL DEF Spec

----------------------------------------------------------------------------
(* With one calling thread a forgotten worker has always been told to      *)
(* stop.  StopPending is the strengthening: between the two halves of      *)
(* StopRun (ThreadCheck.cpp:59-66) no StartRun may clear m_bStopCheck,     *)
(* which is where OneCaller is used.                                       *)
THEOREM Orphans == ASSUME OneCaller PROVE Spec => []NoOrphan
<1> DEFINE IInv == StopPending /\ NoOrphan
<1> USE MaxStartsAssumption DEF NULL, Idle
<1>1. Init => IInv
  BY DEF Init, ThreadInit, StopPending, NoOrphan
<1>2. TypeOK /\ IInv /\ [Next]_tvars => IInv'
  <2> SUFFICES ASSUME TypeOK, IInv, [Next]_tvars
               PROVE  IInv'
    OBVIOUS
  <2> USE DEF StopPending, NoOrphan
  <2>1. ASSUME NEW o \in Objects, SetThreadExectCallBack(o)
        PROVE  IInv'
    BY <2>1 DEF SetThreadExectCallBack
  <2>2. ASSUME NEW o \in Objects, NEW c \in Callers, NEW b \in BOOLEAN,
               StartRunIgnored(o, c, b)
        PROVE  IInv'
    BY <2>2 DEF StartRunIgnored
  <2>3. ASSUME NEW o \in Objects, NEW c \in Callers, NEW b \in BOOLEAN,
               StartRun(o, c, b)
        PROVE  IInv'
    <3>1. \A d \in Callers : stopOn[o][d] = Idle
      BY <2>3 DEF OneCaller, StartRun
    <3>2. StopPending'
      BY <2>3, <3>1 DEF TypeOK, StartRun
    <3>3. NoOrphan'
      BY <2>3 DEF TypeOK, StartRun
    <3>4. QED
      BY <3>2, <3>3
  <2>4. ASSUME NEW o \in Objects, NEW c \in Callers, StopSignal(o, c)
        PROVE  IInv'
    BY <2>4 DEF TypeOK, StopSignal
  <2>5. ASSUME NEW o \in Objects, NEW c \in Callers, StopReturn(o, c)
        PROVE  IInv'
    BY <2>5 DEF TypeOK, StopReturn
  <2>6. ASSUME NEW o \in Objects, NEW g \in Handles, Worker(o, g)
        PROVE  IInv'
    <3>1. UNCHANGED <<m_hThread, m_bStopCheck, stopOn>>
      BY <2>6 DEF Worker, WorkerBegin, WorkerTest, WorkerReturn, WorkerWake,
                  WorkerExit, flags, handles
    <3>2. QED
      BY <3>1
  <2>7. CASE UNCHANGED tvars
    BY <2>7 DEF tvars
  <2>8. QED
    BY <2>1, <2>2, <2>3, <2>4, <2>5, <2>6, <2>7 DEF Next, Owner
<1>3. QED
  BY <1>1, <1>2, TypeCorrect, PTL DEF Spec
============================================================================

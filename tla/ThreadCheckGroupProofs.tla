----------------------- MODULE ThreadCheckGroupProofs -----------------------
(***************************************************************************)
(* What holds of CThreadCheckGroup for every number of addresses, threads  *)
(* and indices, and every sequence of SetParam and Stop.                   *)
(*                                                                         *)
(* The argument: CaclueEveryThreadCheckRange puts the k-th boundary at     *)
(* k * everyNum + min(k, revelNum), which is First below; the list of      *)
(* threads is never longer than the list of ranges, and the thread at      *)
(* position k carries the index k - 1; so a thread the group owns reads    *)
(* its own range, and ranges of different threads do not overlap.          *)
(***************************************************************************)
EXTENDS ThreadCheckGroup, ThreadCheckProofs

(* The k-th boundary between ranges, for n = <<everyNum, revelNum>>. *)
First(n, k) == k * n[1] + (IF k < n[2] THEN k ELSE n[2])

Split == CalcueNum(param.total, param.nMax)

(* The first `count` ranges are the ones SetParam asked for. *)
Built(count) ==
    /\ Len(m_threadRangList) = count
    /\ \A k \in 1..count : m_threadRangList[k] = <<First(Split, k - 1), First(Split, k)>>

(* Where the caller is in SetParam and Stop, and how long the lists are. *)
StageInv ==
    /\ at = "stop" => i <= Len(m_theadList)
    /\ at \in {"stopping", "delete", "deleting"} => i < Len(m_theadList)
    /\ at = "range" => /\ m_theadList = <<>> /\ i <= param.nMax
                       /\ Built(i) /\ preIndex = First(Split, i)
    /\ at \in {"new", "setcb", "start"} => Built(param.nMax)
    /\ at = "new" => Len(m_theadList) = i /\ i <= UseCount(param.nMax, param.total)
    /\ at \in {"setcb", "start"} =>
           Len(m_theadList) = i + 1 /\ i < UseCount(param.nMax, param.total)
    /\ Len(m_theadList) <= Len(m_threadRangList)

(* The ranges lie one after the other, also those of an earlier SetParam. *)
RangesOrdered ==
    \A j, k \in DOMAIN m_threadRangList :
        j < k => m_threadRangList[j][2] <= m_threadRangList[k][1]

(* The thread at position k was constructed with the index k - 1. *)
TagsOrdered == \A k \in DOMAIN m_theadList : m_tagID[m_theadList[k]] = k - 1

(* A worker checks a range only inside the callback, and a worker that     *)
(* does not exist does nothing.                                            *)
CheckingCalls ==
    \A o \in Objects : \A g \in Handles :
        /\ checking[o][g] # NoRange => pc[o][g] = "call"
        /\ g > created[o] => pc[o][g] = "none"

(* The thread the group owns at o checks the range of its index. *)
OwnRange ==
    \A k \in DOMAIN m_theadList : \A g \in Handles :
        g = m_hThread[m_theadList[k]] =>
            checking[m_theadList[k]][g] \in {NoRange, m_threadRangList[k]}

(* The types, with those TypeOKGroup leaves open. *)
GroupTypes ==
    /\ TypeOKGroup
    /\ m_threadRangList \in Seq((0..MaxTotal) \X (0..MaxTotal))
    /\ checking \in [Objects -> [Handles -> {NoRange, Wild} \cup ((0..MaxTotal) \X (0..MaxTotal))]]

GroupInv ==
    /\ StageInv
    /\ RangesOrdered
    /\ TagsOrdered
    /\ CheckingCalls
    /\ OwnRange

----------------------------------------------------------------------------
(* CalcueNum (ThreadCheck.cpp) divides with remainder. *)
LEMMA SplitFacts ==
    ASSUME NEW total \in Nat, NEW nMax \in Nat
    PROVE  \E e, r \in Nat :
               /\ CalcueNum(total, nMax) = <<e, r>>
               /\ nMax # 0 => r < nMax /\ total = nMax * e + r
               /\ nMax = 0 => e = 0 /\ r = 0
<1>1. CASE nMax = 0
  BY <1>1 DEF CalcueNum
<1>2. CASE nMax # 0
  <2>1. CalcueNum(total, nMax) = <<total \div nMax, total % nMax>>
    BY <1>2 DEF CalcueNum
  <2>2. nMax > 0
    BY <1>2
  <2>3. total \div nMax \in Nat
    BY <2>2, SMTT(30)
  <2>4. total % nMax \in Nat /\ total % nMax < nMax
    BY <2>2, Z3
  <2>5. total = nMax * (total \div nMax) + (total % nMax)
    BY <2>2, Z3
  <2>6. PICK e \in Nat, r \in Nat : e = total \div nMax /\ r = total % nMax
    BY <2>3, <2>4
  <2>7. CalcueNum(total, nMax) = <<e, r>>
    BY <2>1, <2>6
  <2>8. r < nMax /\ total = nMax * e + r
    BY <2>4, <2>5, <2>6
  <2>9. QED
    BY <1>2, <2>7, <2>8
<1>3. QED
  BY <1>1, <1>2

(* The boundaries begin at 0, grow by everyNum or one more, and do not go  *)
(* back.                                                                   *)
LEMMA FirstFacts ==
    ASSUME NEW e \in Nat, NEW r \in Nat, NEW n, n = <<e, r>>
    PROVE  /\ \A k \in Nat : First(n, k) \in Nat
           /\ First(n, 0) = 0
           /\ \A k \in Nat : First(n, k + 1) = First(n, k) + e + (IF k < r THEN 1 ELSE 0)
           /\ \A j, k \in Nat : j <= k => First(n, j) <= First(n, k)
<1>0. n[1] = e /\ n[2] = r
  OBVIOUS
<1>1. ASSUME NEW k \in Nat PROVE First(n, k) \in Nat
  <2>1. k * e \in Nat
    OBVIOUS
  <2>2. QED
    BY <1>0, <2>1 DEF First
<1>2. First(n, 0) = 0
  BY <1>0 DEF First
<1>3. ASSUME NEW k \in Nat
      PROVE  First(n, k + 1) = First(n, k) + e + (IF k < r THEN 1 ELSE 0)
  <2>1. (k + 1) * e = k * e + e /\ k * e \in Nat
    OBVIOUS
  <2>2. QED
    BY <1>0, <2>1 DEF First
<1>4. ASSUME NEW j \in Nat, NEW k \in Nat, j <= k
      PROVE  First(n, j) <= First(n, k)
  <2>1. j * e <= k * e /\ j * e \in Nat /\ k * e \in Nat
    BY <1>4
  <2>2. QED
    BY <1>0, <1>4, <2>1 DEF First
<1>5. QED
  BY <1>1, <1>2, <1>3, <1>4

(* They end at total. *)
LEMMA FirstEnds ==
    ASSUME NEW total \in Nat, NEW nMax \in Nat, NEW n, n = CalcueNum(total, nMax)
    PROVE  /\ \A k \in 0..nMax : First(n, k) \in 0..total
           /\ nMax # 0 => First(n, nMax) = total
<1>1. PICK e \in Nat, r \in Nat :
          /\ CalcueNum(total, nMax) = <<e, r>>
          /\ nMax # 0 => r < nMax /\ total = nMax * e + r
          /\ nMax = 0 => e = 0 /\ r = 0
  BY SplitFacts, Zenon
<1>0. n = <<e, r>>
  BY <1>1
<1>2. First(n, 0) = 0
  BY <1>0, FirstFacts
<1>3. CASE nMax = 0
  BY <1>2, <1>3
<1>4. CASE nMax # 0
  <2>1. n[1] = e /\ n[2] = r /\ r < nMax
    BY <1>0, <1>1, <1>4
  <2>2. First(n, nMax) = nMax * e + r
    BY <2>1 DEF First
  <2>3. First(n, nMax) = total
    BY <1>1, <1>4, <2>2, Zenon
  <2>4. ASSUME NEW k \in 0..nMax PROVE First(n, k) \in 0..total
    <3>1. k \in Nat /\ k <= nMax
      OBVIOUS
    <3>2. First(n, k) \in Nat /\ First(n, k) <= First(n, nMax)
      BY <1>0, <3>1, FirstFacts, Zenon
    <3>3. QED
      BY <2>3, <3>2
  <2>5. QED
    BY <2>3, <2>4
<1>5. QED
  BY <1>3, <1>4

(* CaclueEveryThreadCheckRange never returns more than nMaxThread. *)
LEMMA UseCountBound ==
    ASSUME NEW total \in Nat, NEW nMax \in Nat
    PROVE  UseCount(nMax, total) \in 0..nMax
<1>1. PICK e \in Nat, r \in Nat :
          /\ CalcueNum(total, nMax) = <<e, r>>
          /\ nMax # 0 => r < nMax /\ total = nMax * e + r
          /\ nMax = 0 => e = 0 /\ r = 0
  BY SplitFacts, Zenon
<1>2. r <= nMax
  BY <1>1
<1>3. QED
  BY <1>1, <1>2 DEF UseCount

(* So SetParam constructs no more threads than there are ranges. *)
LEMMA ThreadsBound ==
    ASSUME TypeOKGroup
    PROVE  /\ param.nMax \in Nat /\ param.nMax <= MaxThreads
           /\ UseCount(param.nMax, param.total) \in Nat
           /\ UseCount(param.nMax, param.total) <= param.nMax
<1>1. PICK N \in Nat, total \in Nat : N = param.nMax /\ total = param.total /\ N <= MaxThreads
  BY GroupBounds DEF TypeOKGroup
<1>2. UseCount(N, total) \in 0..N
  BY UseCountBound
<1>3. QED
  BY <1>1, <1>2

(* The ranges of a finished CaclueEveryThreadCheckRange tile 0..total-1. *)
LEMMA BuiltTiles == TypeOKGroup /\ StageInv => RangesTile
<1> SUFFICES ASSUME TypeOKGroup, StageInv, at \in {"new", "setcb", "start"}, param.nMax > 0
             PROVE  LET L == m_threadRangList IN
                    /\ Len(L) = param.nMax
                    /\ L[1][1] = 0 /\ L[Len(L)][2] = param.total
                    /\ \A k \in 1..Len(L) - 1 : L[k][2] = L[k + 1][1]
                    /\ \A j, k \in 1..Len(L) : L[j][2] - L[j][1] <= L[k][2] - L[k][1] + 1
                    /\ \A k \in 1..Len(L) :
                           (L[k][1] < L[k][2]) <=> k <= UseCount(param.nMax, param.total)
  BY DEF RangesTile
<1> DEFINE L == m_threadRangList
<1>0. PICK N \in Nat, total \in Nat : N = param.nMax /\ total = param.total /\ N > 0
  BY GroupBounds DEF TypeOKGroup
<1>1. PICK e \in Nat, r \in Nat :
          /\ CalcueNum(total, N) = <<e, r>>
          /\ N # 0 => r < N /\ total = N * e + r
          /\ N = 0 => e = 0 /\ r = 0
  BY SplitFacts, Zenon
<1>2. PICK n : n = CalcueNum(total, N)
  OBVIOUS
<1>13. n = Split /\ n = <<e, r>> /\ r < N
  BY <1>0, <1>1, <1>2 DEF Split
<1>3. /\ Len(L) = N
      /\ \A k \in 1..N : L[k][1] = First(n, k - 1) /\ L[k][2] = First(n, k)
  <2>1. Built(N)
    BY <1>0 DEF StageInv
  <2>2. ASSUME NEW k \in 1..N PROVE L[k] = <<First(n, k - 1), First(n, k)>>
    BY <1>13, <2>1, Zenon DEF Built
  <2>3. QED
    BY <2>1, <2>2 DEF Built
<1>4. /\ \A k \in Nat : First(n, k) \in Nat
      /\ First(n, 0) = 0
      /\ \A k \in Nat : First(n, k + 1) = First(n, k) + e + (IF k < r THEN 1 ELSE 0)
  <2>1. \A k \in Nat : First(n, k) \in Nat
    BY <1>13, FirstFacts
  <2>2. First(n, 0) = 0
    BY <1>13, FirstFacts
  <2>3. \A k \in Nat : First(n, k + 1) = First(n, k) + e + (IF k < r THEN 1 ELSE 0)
    BY <1>13, FirstFacts
  <2>4. QED
    BY <2>1, <2>2, <2>3
<1>14. First(n, N) = total
  <2>1. N # 0
    BY <1>0
  <2>2. QED
    BY <1>2, <2>1, FirstEnds, Zenon
<1>5. ASSUME NEW k \in 1..N
      PROVE  /\ L[k][1] \in Nat /\ L[k][2] \in Nat
             /\ L[k][2] = L[k][1] + e + (IF k - 1 < r THEN 1 ELSE 0)
  <2>1. k - 1 \in Nat /\ (k - 1) + 1 = k
    OBVIOUS
  <2>2. First(n, k) = First(n, k - 1) + e + (IF k - 1 < r THEN 1 ELSE 0)
    BY <1>4, <2>1
  <2>3. L[k][1] = First(n, k - 1) /\ L[k][2] = First(n, k)
    BY <1>3
  <2>4. First(n, k - 1) \in Nat /\ First(n, k) \in Nat
    BY <1>4, <2>1
  <2>5. QED
    BY <2>2, <2>3, <2>4
<1>6. UseCount(N, total) = IF e = 0 THEN r ELSE N
  BY <1>1 DEF UseCount
<1> HIDE DEF L
<1>7. L[1][1] = 0 /\ L[N][2] = total
  <2>1. 1 \in 1..N /\ N \in 1..N
    BY <1>0
  <2>2. L[1][1] = First(n, 1 - 1) /\ L[N][2] = First(n, N)
    BY <1>3, <2>1
  <2>3. QED
    BY <1>4, <1>14, <2>2
<1>8. ASSUME NEW k \in 1..N - 1 PROVE L[k][2] = L[k + 1][1]
  BY <1>0, <1>3
<1>9. ASSUME NEW j \in 1..N, NEW k \in 1..N PROVE L[j][2] - L[j][1] <= L[k][2] - L[k][1] + 1
  BY <1>5
<1>10. ASSUME NEW k \in 1..N PROVE (L[k][1] < L[k][2]) <=> k <= UseCount(N, total)
  BY <1>13, <1>5, <1>6
<1>11. QED
  BY <1>0, <1>3, <1>7, <1>8, <1>9, <1>10 DEF L

----------------------------------------------------------------------------
(* The group uses its threads through the operations of CThreadCheck, and  *)
(* constructs them.                                                        *)
LEMMA GroupThread ==
    ASSUME TypeOKGroup, StageInv, GroupNext
    PROVE  [Next]_tvars \/ \E o \in Objects : NewThreadCheck(o)
<1>1. ASSUME NEW k \in DOMAIN m_theadList PROVE m_theadList[k] \in Objects
  BY DEF TypeOKGroup
<1>2. ASSUME NEW c \in Callers, StopBegin(c) \/ StopEnd(c) PROVE [Next]_tvars
  <2>1. i + 1 \in DOMAIN m_theadList
    BY <1>2 DEF StopBegin, StopEnd, StageInv, TypeOKGroup
  <2>2. m_theadList[i + 1] \in Objects
    BY <1>1, <2>1
  <2>3. QED
    BY <1>2, <2>2 DEF StopBegin, StopEnd, Next, Owner
<1>3. ASSUME NEW o \in Objects, NEW c \in Callers, SetThreadCallBack(o) \/ StartThread(o, c)
      PROVE  [Next]_tvars
  <2>1. param.isLoop \in BOOLEAN
    BY DEF TypeOKGroup
  <2>2. QED
    BY <1>3, <2>1 DEF SetThreadCallBack, StartThread, Next, Owner
<1>4. ASSUME NEW o \in Objects, NEW g \in Handles, GroupWorker(o, g) PROVE [Next]_tvars
  BY <1>4 DEF GroupWorker, ThreadProcStep, ThreadCheckAction, ThreadCheckReturn, Next, Worker
<1>5. CASE UNCHANGED tvars
  BY <1>5
<1>6. QED
  BY <1>2, <1>3, <1>4, <1>5
     DEF GroupNext, GroupCaller, SetGroupThreadExectCallBack, SetParam, Stop, StopDone,
         RangeStep, RangeDone, SetParamDone

(* What a worker's step leaves alone. *)
LEMMA WorkerFrame ==
    ASSUME NEW o, NEW g, GroupWorker(o, g)
    PROVE  UNCHANGED <<m_hThread, created, m_groupCB, m_threadRangList, m_theadList,
                       m_tagID, param, at, i, preIndex>>
BY DEF GroupWorker, ThreadProcStep, ThreadCheckAction, ThreadCheckReturn, WorkerBegin,
       WorkerTest, WorkerReturn, WorkerWake, WorkerExit, flags, handles, tvars, gvars

(* One iteration of CaclueEveryThreadCheckRange appends the range between  *)
(* two boundaries.                                                         *)
LEMMA RangeStepFacts ==
    ASSUME TypeOKGroup, StageInv, RangeStep
    PROVE  /\ i \in Nat /\ i + 1 <= param.nMax /\ param.nMax <= MaxThreads
           /\ First(Split, i) \in 0..MaxTotal /\ First(Split, i + 1) \in 0..MaxTotal
           /\ First(Split, i) <= First(Split, i + 1)
           /\ preIndex' = First(Split, i + 1)
           /\ m_threadRangList' =
                  Append(m_threadRangList, <<First(Split, i), First(Split, i + 1)>>)
<1>0. PICK N \in Nat, total \in Nat, k \in Nat :
          N = param.nMax /\ total = param.total /\ k = i /\ N <= MaxThreads /\ total <= MaxTotal
  BY GroupBounds DEF TypeOKGroup
<1>1. PICK e \in Nat, r \in Nat :
          /\ CalcueNum(total, N) = <<e, r>>
          /\ N # 0 => r < N /\ total = N * e + r
          /\ N = 0 => e = 0 /\ r = 0
  BY SplitFacts, Zenon
<1>2. PICK n : n = CalcueNum(total, N)
  OBVIOUS
<1>3. n = Split /\ n = <<e, r>> /\ n[1] = e /\ n[2] = r
  BY <1>0, <1>1, <1>2 DEF Split
<1>4. k + 1 <= N /\ k \in 0..N /\ k + 1 \in 0..N
  BY <1>0 DEF RangeStep
<1>5. First(n, k) \in 0..total /\ First(n, k + 1) \in 0..total
  BY <1>2, <1>4, FirstEnds
<1>6. First(n, k + 1) = First(n, k) + e + (IF k < r THEN 1 ELSE 0)
  BY <1>3, FirstFacts
<1>7. preIndex = First(n, k)
  BY <1>0, <1>3 DEF RangeStep, StageInv
<1>8. CaclueEveryStep(n)
  BY <1>0, <1>2 DEF RangeStep
<1>9. preIndex' = First(n, k + 1)
      /\ m_threadRangList' = Append(m_threadRangList, <<First(n, k), First(n, k + 1)>>)
  <2>1. preIndex + (e + (IF k < r THEN 1 ELSE 0)) = First(n, k + 1)
    BY <1>5, <1>6, <1>7
  <2>2. QED
    BY <1>0, <1>3, <1>7, <1>8, <2>1 DEF CaclueEveryStep
<1>10. First(n, k) \in 0..MaxTotal /\ First(n, k + 1) \in 0..MaxTotal
       /\ First(n, k) <= First(n, k + 1)
  BY <1>0, <1>5, <1>6, GroupBounds
<1>11. QED
  BY <1>0, <1>3, <1>4, <1>9, <1>10

(* The constructor at ThreadCheck.cpp:24-33 keeps the types of the fields. *)
LEMMA NewThreadType ==
    ASSUME TypeOK, NEW o \in Objects, NewThreadCheck(o)
    PROVE  TypeOK'
BY MaxStartsAssumption DEF TypeOK, NewThreadCheck, NULL, workerVars, Handles

(* SetParam and Stop keep the types, the bounds on the two lists included. *)
LEMMA GroupTypeStep == GroupTypes /\ StageInv /\ [GroupNext]_vars => GroupTypes'
<1> DEFINE Pair == (0..MaxTotal) \X (0..MaxTotal)
<1> SUFFICES ASSUME GroupTypes, StageInv, [GroupNext]_vars
             PROVE  GroupTypes'
  OBVIOUS
<1> USE GroupBounds
<1>0. TypeOKGroup
  BY DEF GroupTypes
<1>1. TypeOK'
  <2>1. CASE UNCHANGED vars
    BY <1>0, <2>1, TypeStep DEF vars, TypeOKGroup
  <2>2. CASE GroupNext
    BY <1>0, <2>2, GroupThread, TypeStep, NewThreadType DEF TypeOKGroup
  <2>3. QED
    BY <2>1, <2>2
<1>2. CASE SetGroupThreadExectCallBack
  BY <1>1, <1>2 DEF GroupTypes, TypeOKGroup, SetGroupThreadExectCallBack
<1>3. ASSUME NEW p \in Params, SetParam(p[1], p[2], p[3]) PROVE GroupTypes'
  <2>1. p[1] \in 0..MaxThreads /\ p[2] \in 0..MaxTotal /\ p[3] \in BOOLEAN
    OBVIOUS
  <2>2. param' \in [nMax : 0..MaxThreads, total : 0..MaxTotal, isLoop : BOOLEAN, again : BOOLEAN]
    BY <1>3, <2>1 DEF SetParam
  <2>3. QED
    BY <1>1, <1>3, <2>2 DEF GroupTypes, TypeOKGroup, SetParam, Stage
<1>4. CASE Stop
  <2>1. param' \in [nMax : 0..MaxThreads, total : 0..MaxTotal, isLoop : BOOLEAN, again : BOOLEAN]
    BY <1>0, <1>4 DEF Stop, TypeOKGroup
  <2>2. QED
    BY <1>1, <1>4, <2>1 DEF GroupTypes, TypeOKGroup, Stop, Stage
<1>5. ASSUME NEW c \in Callers, StopBegin(c) PROVE GroupTypes'
  BY <1>1, <1>5 DEF GroupTypes, TypeOKGroup, StopBegin, Stage
<1>6. ASSUME NEW c \in Callers, StopEnd(c) PROVE GroupTypes'
  <2>1. i' \in 0..MaxThreads
    BY <1>0, <1>6 DEF TypeOKGroup, StopEnd, StageInv
  <2>2. QED
    BY <1>1, <1>6, <2>1 DEF GroupTypes, TypeOKGroup, StopEnd, Stage
<1>7. CASE StopDone
  BY <1>1, <1>7 DEF GroupTypes, TypeOKGroup, StopDone, Stage
<1>8. CASE RangeStep
  <2>1. PICK r \in Pair : m_threadRangList' = Append(m_threadRangList, r)
    BY <1>0, <1>8, RangeStepFacts
  <2>2. preIndex' \in 0..MaxTotal /\ i' \in 0..MaxThreads /\ i + 1 <= MaxThreads /\ i \in Nat
    BY <1>0, <1>8, RangeStepFacts DEF RangeStep, TypeOKGroup
  <2>3. m_threadRangList' \in Seq(Pair) /\ Len(m_threadRangList') = i + 1
    <3>1. Len(m_threadRangList) = i
      BY <1>8 DEF RangeStep, StageInv, Built
    <3>2. QED
      BY <2>1, <3>1 DEF GroupTypes
  <2>4. \A k \in DOMAIN m_threadRangList' : m_threadRangList'[k] \in Pair
    BY <2>3
  <2>5. QED
    BY <1>1, <1>8, <2>2, <2>3, <2>4 DEF GroupTypes, TypeOKGroup, RangeStep, Stage
<1>9. CASE RangeDone \/ SetParamDone
  BY <1>1, <1>9 DEF GroupTypes, TypeOKGroup, RangeDone, SetParamDone, Stage
<1>10. ASSUME NEW o \in Objects, NewThreadCheck(o) PROVE GroupTypes'
  <2>3. i \in Nat /\ i + 1 <= MaxThreads /\ Len(m_theadList) = i
    BY <1>0, <1>10, ThreadsBound DEF NewThreadCheck, TypeOKGroup, StageInv
  <2>4. m_theadList' \in Seq(Objects) /\ Len(m_theadList') = i + 1
    BY <1>0, <1>10, <2>3 DEF NewThreadCheck, TypeOKGroup
  <2>5. m_tagID' \in [Objects -> 0..MaxThreads]
    BY <1>0, <1>10, <2>3 DEF NewThreadCheck, TypeOKGroup
  <2>6. QED
    BY <1>1, <1>10, <2>3, <2>4, <2>5 DEF GroupTypes, TypeOKGroup, NewThreadCheck, Stage
<1>11. ASSUME NEW o \in Objects, SetThreadCallBack(o) PROVE GroupTypes'
  BY <1>1, <1>11 DEF GroupTypes, TypeOKGroup, SetThreadCallBack, Stage
<1>12. ASSUME NEW o \in Objects, NEW c \in Callers, StartThread(o, c) PROVE GroupTypes'
  <2>1. i + 1 \in 0..MaxThreads
    BY <1>0, <1>12 DEF StartThread, TypeOKGroup, StageInv
  <2>2. QED
    BY <1>1, <1>12, <2>1 DEF GroupTypes, TypeOKGroup, StartThread, Stage
<1>13. ASSUME NEW o \in Objects, NEW g \in Handles, GroupWorker(o, g) PROVE GroupTypes'
  <2> DEFINE CheckType == [Objects -> [Handles -> {NoRange, Wild} \cup Pair]]
  <2>1. checking' \in CheckType
    <3>0. checking \in CheckType
      BY DEF GroupTypes
    <3>1. ASSUME NEW r \in {NoRange, Wild} \cup Pair,
                 checking' = [checking EXCEPT ![o][g] = r]
          PROVE  checking' \in CheckType
      BY <3>0, <3>1, Zenon
    <3>2. RangeOf(m_tagID[o]) \in {NoRange, Wild} \cup Pair
      BY <1>0 DEF RangeOf, TypeOKGroup
    <3>3. CASE ThreadCheckAction(o, g)
      BY <3>1, <3>2, <3>3 DEF ThreadCheckAction
    <3>4. CASE ThreadCheckReturn(o, g)
      BY <3>1, <3>4 DEF ThreadCheckReturn
    <3>5. CASE ThreadProcStep(o, g)
      BY <3>0, <3>5 DEF ThreadProcStep, gvars
    <3>6. QED
      BY <1>13, <3>3, <3>4, <3>5 DEF GroupWorker
  <2>2. QED
    BY <1>1, <1>13, <2>1, WorkerFrame DEF GroupTypes, TypeOKGroup
<1>14. CASE UNCHANGED vars
  BY <1>1, <1>14 DEF GroupTypes, TypeOKGroup, vars, gvars
<1>15. QED
  BY <1>2, <1>3, <1>4, <1>5, <1>6, <1>7, <1>8, <1>9, <1>10, <1>11, <1>12, <1>13, <1>14
     DEF GroupNext, GroupCaller

(* The caller's place in SetParam and Stop agrees with the two lists. *)
LEMMA StageStep == GroupTypes /\ StageInv /\ [GroupNext]_vars => StageInv'
<1> SUFFICES ASSUME GroupTypes, StageInv, [GroupNext]_vars
             PROVE  StageInv'
  OBVIOUS
<1> USE GroupBounds
<1>0. TypeOKGroup
  BY DEF GroupTypes
<1>1. i \in Nat /\ Len(m_theadList) \in Nat /\ Len(m_threadRangList) \in Nat
  BY <1>0 DEF GroupTypes, TypeOKGroup
<1>2. ASSUME UNCHANGED <<m_threadRangList, m_theadList, param, at, i, preIndex>>
      PROVE  StageInv'
  BY <1>2 DEF StageInv, Built, Split
<1>3. ASSUME NEW p \in Params, SetParam(p[1], p[2], p[3]) PROVE StageInv'
  BY <1>1, <1>3 DEF SetParam, StageInv
<1>4. CASE Stop
  BY <1>1, <1>4 DEF Stop, StageInv
<1>5. ASSUME NEW c \in Callers, StopBegin(c) PROVE StageInv'
  BY <1>1, <1>5 DEF StopBegin, StageInv
<1>6. ASSUME NEW c \in Callers, StopEnd(c) PROVE StageInv'
  BY <1>1, <1>6 DEF StopEnd, StageInv
<1>7. CASE StopDone
  <2>1. First(Split, 0)' = 0
    <3>1. PICK N \in Nat, total \in Nat : N = param'.nMax /\ total = param'.total
      BY <1>0, <1>7 DEF StopDone, TypeOKGroup
    <3>2. PICK e \in Nat, r \in Nat :
              /\ CalcueNum(total, N) = <<e, r>>
              /\ N # 0 => r < N /\ total = N * e + r
              /\ N = 0 => e = 0 /\ r = 0
      BY SplitFacts, Zenon
    <3>3. First(<<e, r>>, 0) = 0
      BY FirstFacts
    <3>4. Split' = <<e, r>>
      BY <3>1, <3>2 DEF Split
    <3>5. QED
      BY <3>3, <3>4
  <2>2. CASE param.again
    <3>1. Built(0)'
      BY <1>7, <2>2 DEF StopDone, Built
    <3>2. at' = "range" /\ i' = 0 /\ m_theadList' = <<>> /\ preIndex' = 0
          /\ Len(m_threadRangList') = 0 /\ param' = param
      BY <1>7, <2>2 DEF StopDone
    <3>3. QED
      BY <1>0, <2>1, <3>1, <3>2, ThreadsBound DEF StageInv
  <2>3. CASE ~param.again
    <3>1. at' = "idle" /\ Len(m_theadList') = 0 /\ m_threadRangList' = m_threadRangList
      BY <1>7, <2>3 DEF StopDone
    <3>2. QED
      BY <1>1, <3>1 DEF StageInv
  <2>4. QED
    BY <2>2, <2>3
<1>8. CASE RangeStep
  <2>1. PICK k \in Nat : k = i
    BY <1>1
  <2>2. PICK n : n = Split
    OBVIOUS
  <2>3. n = Split /\ k = i
    BY <2>1, <2>2
  <2>4. /\ Built(k) /\ at = "range" /\ at' = "range" /\ i' = k + 1 /\ m_theadList' = <<>>
        /\ param' = param
    BY <1>8, <2>3 DEF RangeStep, StageInv
  <2>5. /\ k + 1 <= param.nMax /\ preIndex' = First(n, k + 1)
        /\ m_threadRangList' = Append(m_threadRangList, <<First(n, k), First(n, k + 1)>>)
    BY <1>0, <1>8, <2>3, RangeStepFacts
  <2>6. Split' = n
    BY <2>3, <2>4 DEF Split
  <2>7. Len(m_threadRangList') = k + 1
    BY <2>4, <2>5 DEF Built, GroupTypes
  <2>8. ASSUME NEW j \in 1..k + 1 PROVE m_threadRangList'[j] = <<First(n, j - 1), First(n, j)>>
    <3>1. CASE j = k + 1
      BY <2>4, <2>5, <3>1 DEF Built, GroupTypes
    <3>2. CASE j \in 1..k
      <4>1. m_threadRangList[j] = <<First(n, j - 1), First(n, j)>>
        BY <2>3, <2>4, <3>2, Zenon DEF Built
      <4>2. m_threadRangList'[j] = m_threadRangList[j]
        BY <2>4, <2>5, <3>2 DEF Built, GroupTypes
      <4>3. QED
        BY <4>1, <4>2
    <3>3. QED
      BY <3>1, <3>2
  <2>9. Built(k + 1)'
    BY <2>6, <2>7, <2>8 DEF Built
  <2>30. QED
    BY <2>4, <2>5, <2>6, <2>7, <2>9 DEF StageInv
<1>9. CASE RangeDone
  <2>1. at' = "new" /\ Built(param.nMax)' /\ i' = 0 /\ m_theadList' = <<>> /\ param' = param
    BY <1>9 DEF RangeDone, StageInv, Built, Split
  <2>2. Len(m_theadList') = 0 /\ m_threadRangList' = m_threadRangList
    BY <1>9, <2>1 DEF RangeDone
  <2>3. QED
    BY <1>0, <1>1, <2>1, <2>2, ThreadsBound DEF StageInv
<1>10. ASSUME NEW o \in Objects, NewThreadCheck(o) PROVE StageInv'
  <2>1. at' = "setcb" /\ Built(param.nMax)' /\ i' = i /\ param' = param
        /\ i < UseCount(param.nMax, param.total) /\ Built(param.nMax)
    BY <1>10 DEF NewThreadCheck, StageInv, Built, Split
  <2>2. Len(m_theadList') = i + 1 /\ Len(m_threadRangList') = param.nMax
    BY <1>0, <1>10, <2>1 DEF NewThreadCheck, StageInv, TypeOKGroup, Built
  <2>3. QED
    BY <1>0, <1>1, <2>1, <2>2, ThreadsBound DEF StageInv
<1>11. ASSUME NEW o \in Objects, SetThreadCallBack(o) PROVE StageInv'
  BY <1>11 DEF SetThreadCallBack, StageInv, Built, Split
<1>12. ASSUME NEW o \in Objects, NEW c \in Callers, StartThread(o, c) PROVE StageInv'
  <2>1. at = "start" /\ at' = "new" /\ i' = i + 1 /\ param' = param
        /\ UNCHANGED <<m_threadRangList, m_theadList>>
    BY <1>12 DEF StartThread
  <2>2. Built(param.nMax)'
    BY <2>1 DEF StageInv, Built, Split
  <2>3. QED
    BY <1>0, <1>1, <2>1, <2>2, ThreadsBound DEF StageInv
<1>13. CASE SetParamDone
  BY <1>1, <1>13 DEF SetParamDone, StageInv
<1>14. CASE SetGroupThreadExectCallBack
  BY <1>2, <1>14 DEF SetGroupThreadExectCallBack
<1>15. ASSUME NEW o \in Objects, NEW g \in Handles, GroupWorker(o, g) PROVE StageInv'
  BY <1>2, <1>15, WorkerFrame
<1>16. CASE UNCHANGED vars
  BY <1>2, <1>16 DEF vars, gvars
<1>17. QED
  BY <1>3, <1>4, <1>5, <1>6, <1>7, <1>8, <1>9, <1>10, <1>11, <1>12, <1>13, <1>14, <1>15, <1>16
     DEF GroupNext, GroupCaller

(* The steps that change neither list of the group nor an index. *)
LEMMA ListsKept ==
    ASSUME [GroupNext]_vars, ~StopDone, ~RangeStep, \A o \in Objects : ~NewThreadCheck(o)
    PROVE  UNCHANGED <<m_threadRangList, m_theadList, m_tagID>>
<1>1. ASSUME NEW o \in Objects, NEW g \in Handles, GroupWorker(o, g)
      PROVE  UNCHANGED <<m_threadRangList, m_theadList, m_tagID>>
  BY <1>1, WorkerFrame
<1>2. QED
  BY <1>1 DEF GroupNext, GroupCaller, SetGroupThreadExectCallBack, SetParam, Stop, StopBegin,
              StopEnd, RangeDone, SetThreadCallBack, StartThread, SetParamDone, vars, gvars

(* Every SetParam leaves ranges that lie one after the other. *)
LEMMA OrderedStep ==
    GroupTypes /\ StageInv /\ RangesOrdered /\ [GroupNext]_vars => RangesOrdered'
<1> SUFFICES ASSUME GroupTypes, StageInv, RangesOrdered, [GroupNext]_vars
             PROVE  RangesOrdered'
  OBVIOUS
<1>0. TypeOKGroup
  BY DEF GroupTypes
<1>1. CASE StopDone
  <2>1. m_threadRangList' = <<>> \/ m_threadRangList' = m_threadRangList
    BY <1>1 DEF StopDone
  <2>2. QED
    BY <2>1 DEF RangesOrdered
<1>2. CASE RangeStep
  <2>1. PICK N \in Nat, total \in Nat, q \in Nat : N = param.nMax /\ total = param.total /\ q = i
    BY <1>0, GroupBounds DEF TypeOKGroup
  <2>2. PICK e \in Nat, r \in Nat :
            /\ CalcueNum(total, N) = <<e, r>>
            /\ N # 0 => r < N /\ total = N * e + r
            /\ N = 0 => e = 0 /\ r = 0
    BY SplitFacts, Zenon
  <2>3. PICK n : n = <<e, r>>
    OBVIOUS
  <2>4. Split = n
    BY <2>1, <2>2, <2>3 DEF Split
  <2>5. m_threadRangList' = Append(m_threadRangList, <<First(n, q), First(n, q + 1)>>)
    BY <1>0, <1>2, <2>1, <2>4, RangeStepFacts
  <2>6. Built(q)
    BY <1>2, <2>1 DEF RangeStep, StageInv
  <2>7. Len(m_threadRangList) = q /\ DOMAIN m_threadRangList' = 1..q + 1
        /\ DOMAIN m_threadRangList = 1..q
    BY <2>5, <2>6 DEF Built, GroupTypes
  <2>8. ASSUME NEW j \in 1..q
        PROVE  m_threadRangList'[j] = m_threadRangList[j] /\ m_threadRangList[j][2] <= First(n, q)
    <3>1. m_threadRangList'[j] = m_threadRangList[j]
      BY <2>5, <2>7 DEF GroupTypes
    <3>2. m_threadRangList[j] = <<First(n, j - 1), First(n, j)>>
      BY <2>4, <2>6, Zenon DEF Built
    <3>3. j \in Nat /\ j <= q
      OBVIOUS
    <3>4. First(n, j) <= First(n, q)
      BY <2>3, <3>3, FirstFacts
    <3>5. QED
      BY <3>1, <3>2, <3>4
  <2>9. m_threadRangList'[q + 1][1] = First(n, q)
    BY <2>5, <2>7 DEF GroupTypes
  <2>10. QED
    BY <2>7, <2>8, <2>9 DEF RangesOrdered
<1>3. ASSUME UNCHANGED m_threadRangList PROVE RangesOrdered'
  BY <1>3 DEF RangesOrdered
<1>4. ASSUME NEW o \in Objects, NewThreadCheck(o) PROVE RangesOrdered'
  BY <1>3, <1>4 DEF NewThreadCheck
<1>5. QED
  BY <1>1, <1>2, <1>3, <1>4, ListsKept

(* The vector of threads is filled in the order of their indices, and an   *)
(* address is constructed at again only when the group has let it go.      *)
LEMMA TagsStep == GroupTypes /\ StageInv /\ TagsOrdered /\ [GroupNext]_vars => TagsOrdered'
<1> SUFFICES ASSUME GroupTypes, StageInv, TagsOrdered, [GroupNext]_vars
             PROVE  TagsOrdered'
  OBVIOUS
<1>0. m_theadList \in Seq(Objects) /\ m_tagID \in [Objects -> 0..MaxThreads]
  BY DEF GroupTypes, TypeOKGroup
<1>1. CASE StopDone
  BY <1>1 DEF StopDone, TagsOrdered
<1>2. ASSUME NEW o \in Objects, NewThreadCheck(o) PROVE TagsOrdered'
  <2>1. Len(m_theadList) = i /\ i \in Nat
    BY <1>0, <1>2 DEF NewThreadCheck, StageInv
  <2>2. m_theadList' = Append(m_theadList, o) /\ m_tagID' = [m_tagID EXCEPT ![o] = i]
    BY <1>2 DEF NewThreadCheck
  <2>3. ASSUME NEW k \in DOMAIN m_theadList' PROVE m_tagID'[m_theadList'[k]] = k - 1
    <3>1. CASE k = i + 1
      BY <1>0, <2>1, <2>2, <3>1
    <3>2. CASE k \in 1..i
      <4>1. k \in DOMAIN m_theadList /\ m_theadList'[k] = m_theadList[k]
        BY <1>0, <2>1, <2>2, <3>2
      <4>2. m_theadList[k] # o /\ m_theadList[k] \in Objects
        BY <1>0, <1>2, <4>1 DEF NewThreadCheck
      <4>3. QED
        BY <1>0, <2>2, <4>1, <4>2 DEF TagsOrdered
    <3>3. QED
      BY <1>0, <2>1, <2>2, <3>1, <3>2
  <2>4. QED
    BY <2>3 DEF TagsOrdered
<1>3. ASSUME UNCHANGED <<m_theadList, m_tagID>> PROVE TagsOrdered'
  BY <1>3 DEF TagsOrdered
<1>4. CASE RangeStep
  BY <1>3, <1>4 DEF RangeStep
<1>5. QED
  BY <1>1, <1>2, <1>3, <1>4, ListsKept

(* A step of a worker is a step of one worker, outside the callback or in  *)
(* it; only the group callback gives it a range.                           *)
LEMMA WorkerChecks ==
    ASSUME GroupTypes, CheckingCalls, NEW o \in Objects, NEW g \in Handles, GroupWorker(o, g)
    PROVE  /\ pc[o][g] # "none"
           /\ \A p \in Objects : \A h \in Handles :
                  ~(p = o /\ h = g) => /\ pc'[p][h] = pc[p][h]
                                       /\ checking'[p][h] = checking[p][h]
           /\ \/ checking'[o][g] = NoRange
              \/ pc'[o][g] = "call" /\ checking'[o][g] = RangeOf(m_tagID[o])
<1>0. /\ pc \in [Objects -> [Handles -> PC]]
      /\ \E S : checking \in [Objects -> [Handles -> S]]
  BY DEF GroupTypes, TypeOKGroup, TypeOK
<1>1. ASSUME NEW to, Goto(o, g, to)
      PROVE  /\ \A p \in Objects : \A h \in Handles : ~(p = o /\ h = g) => pc'[p][h] = pc[p][h]
  BY <1>0, <1>1 DEF Goto
<1>2. ASSUME NEW r, checking' = [checking EXCEPT ![o][g] = r]
      PROVE  /\ checking'[o][g] = r
             /\ \A p \in Objects : \A h \in Handles :
                    ~(p = o /\ h = g) => checking'[p][h] = checking[p][h]
  BY <1>0, <1>2
<1>3. CASE ThreadProcStep(o, g)
  <2>1. PICK to : Goto(o, g, to)
    BY <1>3, Zenon DEF ThreadProcStep, WorkerBegin, WorkerTest, WorkerWake, WorkerExit, EnterWait
  <2>2. pc[o][g] \in {"begin", "test", "wait", "exit"} /\ checking' = checking
    BY <1>3 DEF ThreadProcStep, WorkerBegin, WorkerTest, WorkerWake, WorkerExit, gvars
  <2>3. checking[o][g] = NoRange
    BY <2>2 DEF CheckingCalls
  <2>4. QED
    BY <1>1, <2>1, <2>2, <2>3
<1>4. CASE ThreadCheckAction(o, g)
  <2>1. pc' = pc /\ pc[o][g] = "call" /\ checking' = [checking EXCEPT ![o][g] = RangeOf(m_tagID[o])]
    BY <1>4 DEF ThreadCheckAction, tvars
  <2>2. QED
    BY <1>2, <2>1
<1>5. CASE ThreadCheckReturn(o, g)
  <2>1. PICK to : Goto(o, g, to)
    BY <1>5, Zenon DEF ThreadCheckReturn, WorkerReturn, EnterWait
  <2>2. pc[o][g] = "call" /\ checking' = [checking EXCEPT ![o][g] = NoRange]
    BY <1>5 DEF ThreadCheckReturn, WorkerReturn
  <2>3. /\ checking'[o][g] = NoRange
        /\ \A p \in Objects : \A h \in Handles :
               ~(p = o /\ h = g) => checking'[p][h] = checking[p][h]
    BY <1>2, <2>2
  <2>4. \A p \in Objects : \A h \in Handles : ~(p = o /\ h = g) => pc'[p][h] = pc[p][h]
    BY <1>1, <2>1
  <2>5. QED
    BY <2>2, <2>3, <2>4
<1>6. QED
  BY <1>3, <1>4, <1>5 DEF GroupWorker

(* A StartRun of the group is the first step of the newest worker. *)
LEMMA StartChecks ==
    ASSUME GroupTypes, NEW o \in Objects, NEW c \in Callers, StartThread(o, c)
    PROVE  /\ checking' = checking
           /\ m_hThread' = [m_hThread EXCEPT ![o] = created[o] + 1]
           /\ created' = [created EXCEPT ![o] = created[o] + 1]
           /\ created[o] + 1 \in Handles
           /\ \A p \in Objects : \A h \in Handles :
                  ~(p = o /\ h = created[o] + 1) => pc'[p][h] = pc[p][h]
<1>0. pc \in [Objects -> [Handles -> PC]] /\ created \in [Objects -> 0..MaxStarts]
  BY DEF GroupTypes, TypeOKGroup, TypeOK
<1>1. created[o] < MaxStarts /\ Goto(o, created[o] + 1, "begin") /\ checking' = checking
      /\ m_hThread' = [m_hThread EXCEPT ![o] = created[o] + 1]
      /\ created' = [created EXCEPT ![o] = created[o] + 1]
  BY DEF StartThread, StartRun
<1>2. created[o] + 1 \in Handles
  BY <1>0, <1>1, MaxStartsAssumption DEF Handles
<1>3. QED
  BY <1>0, <1>1, <1>2 DEF Goto

(* The steps of the caller that start no thread. *)
LEMMA CallerKeeps ==
    ASSUME [GroupNext]_vars,
           \A o \in Objects : \A c \in Callers : ~StartThread(o, c),
           \A o \in Objects : \A g \in Handles : ~GroupWorker(o, g)
    PROVE  UNCHANGED <<pc, created, checking>>
BY DEF GroupNext, GroupCaller, SetGroupThreadExectCallBack, SetParam, Stop, StopBegin, StopEnd,
       StopDone, RangeStep, RangeDone, NewThreadCheck, SetThreadCallBack, SetParamDone,
       StopSignal, StopReturn, SetThreadExectCallBack, workerVars, vars, tvars, gvars

(* A range is checked only inside the callback. *)
LEMMA CheckingStep ==
    GroupTypes /\ CheckingCalls /\ [GroupNext]_vars => CheckingCalls'
<1> SUFFICES ASSUME GroupTypes, CheckingCalls, [GroupNext]_vars
             PROVE  CheckingCalls'
  OBVIOUS
<1>0. created \in [Objects -> 0..MaxStarts]
  BY DEF GroupTypes, TypeOKGroup, TypeOK
<1>1. ASSUME NEW o \in Objects, NEW c \in Callers, StartThread(o, c) PROVE CheckingCalls'
  <2>1. checking[o][created[o] + 1] = NoRange
    <3>1. created[o] + 1 > created[o] /\ created[o] + 1 \in Handles
      BY <1>0, <1>1, StartChecks, MaxStartsAssumption
    <3>2. pc[o][created[o] + 1] = "none"
      BY <3>1 DEF CheckingCalls
    <3>3. QED
      BY <3>1, <3>2 DEF CheckingCalls
  <2>2. ASSUME NEW p \in Objects, NEW h \in Handles
        PROVE  /\ checking'[p][h] # NoRange => pc'[p][h] = "call"
               /\ h > created'[p] => pc'[p][h] = "none"
    <3>1. CASE p = o /\ h = created[o] + 1
      BY <1>0, <1>1, <2>1, <3>1, StartChecks, MaxStartsAssumption
    <3>2. CASE ~(p = o /\ h = created[o] + 1)
      <4>1. pc'[p][h] = pc[p][h] /\ checking' = checking
        BY <1>1, <3>2, StartChecks
      <4>2. h > created'[p] => h > created[p]
        BY <1>0, <1>1, StartChecks, MaxStartsAssumption DEF Handles
      <4>3. QED
        BY <4>1, <4>2 DEF CheckingCalls
    <3>3. QED
      BY <3>1, <3>2
  <2>3. QED
    BY <2>2 DEF CheckingCalls
<1>2. ASSUME NEW o \in Objects, NEW g \in Handles, GroupWorker(o, g) PROVE CheckingCalls'
  <2>1. created' = created
    BY <1>2, WorkerFrame
  <2>2. ~(g > created[o])
    BY <1>2, WorkerChecks DEF CheckingCalls
  <2>3. ASSUME NEW p \in Objects, NEW h \in Handles
        PROVE  /\ checking'[p][h] # NoRange => pc'[p][h] = "call"
               /\ h > created'[p] => pc'[p][h] = "none"
    <3>1. CASE p = o /\ h = g
      BY <1>2, <2>1, <2>2, <3>1, WorkerChecks
    <3>2. CASE ~(p = o /\ h = g)
      BY <1>2, <2>1, <3>2, WorkerChecks DEF CheckingCalls
    <3>3. QED
      BY <3>1, <3>2
  <2>4. QED
    BY <2>3 DEF CheckingCalls
<1>3. ASSUME UNCHANGED <<pc, created, checking>> PROVE CheckingCalls'
  BY <1>3 DEF CheckingCalls
<1>4. QED
  BY <1>1, <1>2, <1>3, CallerKeeps

(* A thread the group owns checks the range of its index.  The ranges      *)
(* change only while the group owns no thread, and an object that takes an *)
(* address over has a thread of its own, or none yet.                      *)
LEMMA OwnStep ==
    GroupTypes /\ GroupInv /\ [GroupNext]_vars => OwnRange'
<1> SUFFICES ASSUME GroupTypes, GroupInv, [GroupNext]_vars
             PROVE  OwnRange'
  OBVIOUS
<1> USE DEF GroupInv
<1>0. /\ m_theadList \in Seq(Objects) /\ m_hThread \in [Objects -> 0..MaxStarts]
      /\ created \in [Objects -> 0..MaxStarts]
      /\ m_threadRangList \in Seq((0..MaxTotal) \X (0..MaxTotal))
      /\ Len(m_theadList) <= Len(m_threadRangList)
  BY DEF GroupTypes, TypeOKGroup, TypeOK, StageInv
<1>1. CASE StopDone
  BY <1>1 DEF StopDone, OwnRange
<1>2. CASE RangeStep
  <2>1. m_theadList' = <<>>
    BY <1>2 DEF RangeStep, StageInv
  <2>2. QED
    BY <2>1 DEF OwnRange
<1>3. ASSUME NEW o \in Objects, NewThreadCheck(o) PROVE OwnRange'
  <2>1. /\ m_theadList' = Append(m_theadList, o) /\ m_hThread' = [m_hThread EXCEPT ![o] = NULL]
        /\ checking' = checking /\ m_threadRangList' = m_threadRangList
    BY <1>3 DEF NewThreadCheck
  <2>2. ASSUME NEW k \in DOMAIN m_theadList', NEW g \in Handles, g = m_hThread'[m_theadList'[k]]
        PROVE  k \in DOMAIN m_theadList /\ m_theadList'[k] = m_theadList[k]
               /\ g = m_hThread[m_theadList[k]]
    <3>0. PICK L \in Seq(Objects) : L = m_theadList
      BY <1>0
    <3>1. m_theadList' = Append(L, o) /\ k \in DOMAIN Append(L, o) /\ NULL \notin Handles
      BY <2>1, <3>0 DEF Handles, NULL
    <3>2. Append(L, o)[k] # o
      BY <1>0, <2>1, <2>2, <3>1
    <3>5. k \in DOMAIN L /\ Append(L, o)[k] = L[k] /\ L[k] \in Objects
      BY <3>1, <3>2
    <3>3. k \in DOMAIN m_theadList /\ m_theadList'[k] = m_theadList[k]
          /\ m_theadList'[k] \in Objects /\ m_theadList'[k] # o
      BY <3>0, <3>1, <3>2, <3>5
    <3>4. QED
      BY <1>0, <2>1, <2>2, <3>3
  <2>3. QED
    BY <2>1, <2>2 DEF OwnRange
<1>4. ASSUME NEW o \in Objects, NEW c \in Callers, StartThread(o, c) PROVE OwnRange'
  <2>1. UNCHANGED <<m_theadList, m_threadRangList, checking>>
    BY <1>4, StartChecks DEF StartThread
  <2>2. checking[o][created[o] + 1] = NoRange
    <3>1. created[o] + 1 > created[o] /\ created[o] + 1 \in Handles
      BY <1>0, <1>4, StartChecks, MaxStartsAssumption
    <3>2. pc[o][created[o] + 1] = "none"
      BY <3>1 DEF CheckingCalls
    <3>3. QED
      BY <3>1, <3>2 DEF CheckingCalls
  <2>3. ASSUME NEW k \in DOMAIN m_theadList, NEW g \in Handles, g = m_hThread'[m_theadList[k]]
        PROVE  checking[m_theadList[k]][g] \in {NoRange, m_threadRangList[k]}
    <3>1. m_theadList[k] \in Objects
      BY <1>0
    <3>2. CASE m_theadList[k] = o
      BY <1>0, <1>4, <2>2, <2>3, <3>2, StartChecks
    <3>3. CASE m_theadList[k] # o
      <4>1. g = m_hThread[m_theadList[k]]
        BY <1>0, <1>4, <2>3, <3>1, <3>3, StartChecks
      <4>2. QED
        BY <4>1 DEF OwnRange
    <3>4. QED
      BY <3>2, <3>3
  <2>4. QED
    BY <2>1, <2>3 DEF OwnRange
<1>5. ASSUME NEW o \in Objects, NEW g \in Handles, GroupWorker(o, g) PROVE OwnRange'
  <2>1. UNCHANGED <<m_theadList, m_threadRangList, m_hThread>>
    BY <1>5, WorkerFrame
  <2>2. ASSUME NEW k \in DOMAIN m_theadList, NEW h \in Handles, h = m_hThread[m_theadList[k]]
        PROVE  checking'[m_theadList[k]][h] \in {NoRange, m_threadRangList[k]}
    <3>1. m_theadList[k] \in Objects
      BY <1>0
    <3>2. CASE m_theadList[k] = o /\ h = g
      <4>1. m_tagID[o] = k - 1 /\ k \in DOMAIN m_threadRangList
        BY <1>0, <3>2 DEF TagsOrdered
      <4>2. RangeOf(m_tagID[o]) = m_threadRangList[k]
        BY <1>0, <4>1 DEF RangeOf
      <4>3. QED
        BY <1>5, <3>2, <4>2, WorkerChecks
    <3>3. CASE ~(m_theadList[k] = o /\ h = g)
      BY <1>5, <2>2, <3>1, <3>3, WorkerChecks DEF OwnRange
    <3>4. QED
      BY <3>2, <3>3
  <2>3. QED
    BY <2>1, <2>2 DEF OwnRange
<1>6. ASSUME NEW c \in Callers, StopEnd(c) PROVE OwnRange'
  <2>1. UNCHANGED <<m_theadList, m_threadRangList, checking>>
        /\ m_hThread' = [m_hThread EXCEPT ![m_theadList[i + 1]] = NULL]
    BY <1>6 DEF StopEnd, StopReturn
  <2>2. ASSUME NEW k \in DOMAIN m_theadList, NEW g \in Handles, g = m_hThread'[m_theadList[k]]
        PROVE  g = m_hThread[m_theadList[k]]
    <3>1. m_theadList[k] \in Objects /\ g # NULL
      BY <1>0 DEF Handles, NULL
    <3>2. QED
      BY <1>0, <2>1, <2>2, <3>1
  <2>3. QED
    BY <2>1, <2>2 DEF OwnRange
<1>7. ASSUME UNCHANGED <<m_theadList, m_threadRangList, m_hThread, checking>> PROVE OwnRange'
  BY <1>7 DEF OwnRange
<1>8. QED
  BY <1>1, <1>2, <1>3, <1>4, <1>5, <1>6, <1>7
     DEF GroupNext, GroupCaller, SetGroupThreadExectCallBack, SetParam, Stop, StopBegin,
         RangeDone, SetThreadCallBack, SetParamDone, StopSignal, SetThreadExectCallBack,
         vars, tvars, gvars

----------------------------------------------------------------------------
(* The group's inductive invariant. *)
LEMMA GroupInvariant == GroupSpec => [](GroupTypes /\ GroupInv)
<1>1. GroupInit => GroupTypes /\ GroupInv
  <2> SUFFICES ASSUME GroupInit PROVE GroupTypes /\ GroupInv
    OBVIOUS
  <2>1. TypeOK
    BY MaxStartsAssumption
       DEF GroupInit, ThreadInit, TypeOK, Handles, NULL, Idle, PC, Mode
  <2>2. GroupTypes
    <3>1. checking \in [Objects -> [Handles -> {NoRange, Wild}
                                       \cup ((0..MaxTotal) \X (0..MaxTotal))]]
      BY Zenon DEF GroupInit
    <3>2. m_threadRangList \in Seq((0..MaxTotal) \X (0..MaxTotal)) /\ m_theadList \in Seq(Objects)
          /\ Len(m_threadRangList) = 0 /\ Len(m_theadList) = 0
      BY DEF GroupInit
    <3>3. m_tagID \in [Objects -> 0..MaxThreads] /\ i \in 0..MaxThreads /\ preIndex \in 0..MaxTotal
      BY GroupBounds DEF GroupInit
    <3>4. param \in [nMax : 0..MaxThreads, total : 0..MaxTotal, isLoop : BOOLEAN, again : BOOLEAN]
      BY GroupBounds DEF GroupInit
    <3>5. m_groupCB \in BOOLEAN /\ at \in Stage
      BY DEF GroupInit, Stage
    <3>6. \A k \in DOMAIN m_threadRangList :
              m_threadRangList[k] \in (0..MaxTotal) \X (0..MaxTotal)
      BY <3>2
    <3>7. QED
      BY <2>1, <3>1, <3>2, <3>3, <3>4, <3>5, <3>6, GroupBounds DEF GroupTypes, TypeOKGroup
  <2>3. CheckingCalls
    BY DEF GroupInit, ThreadInit, CheckingCalls
  <2>4. StageInv /\ RangesOrdered /\ TagsOrdered /\ OwnRange
    BY DEF GroupInit, StageInv, RangesOrdered, TagsOrdered, OwnRange
  <2>5. QED
    BY <2>2, <2>3, <2>4 DEF GroupInv
<1>2. GroupTypes /\ GroupInv /\ [GroupNext]_vars => GroupTypes' /\ GroupInv'
  BY GroupTypeStep, StageStep, OrderedStep, TagsStep, CheckingStep, OwnStep DEF GroupInv
<1>3. QED
  BY <1>1, <1>2, PTL DEF GroupSpec

(* Every variable keeps its type: the index i of the loops of SetParam and *)
(* Stop (ThreadCheck.cpp:156-213) stays inside the vectors it indexes.     *)
THEOREM GroupTypeCorrect == GroupSpec => []TypeOKGroup
<1>1. GroupTypes => TypeOKGroup
  BY DEF GroupTypes
<1>2. QED
  BY <1>1, GroupInvariant, PTL

(* CaclueEveryThreadCheckRange tiles 0..nCheckTotal-1 for every number of  *)
(* threads and every total: the ranges are contiguous, as equal as they    *)
(* can be, and the ones it returns the number of are exactly the non-empty *)
(* ones.                                                                   *)
THEOREM Tile == GroupSpec => []RangesTile
<1>1. GroupTypes /\ GroupInv => RangesTile
  BY BuiltTiles DEF GroupTypes, GroupInv
<1>2. QED
  BY <1>1, GroupInvariant, PTL

(* Two threads the group owns never check the same index, and none reads   *)
(* outside m_threadRangList, although SetParam rebuilds the ranges while   *)
(* workers it no longer waits for are still in ThreadCheckAction.          *)
THEOREM NoDouble == GroupSpec => []NoDoubleCheck
<1>1. GroupTypes /\ GroupInv => NoDoubleCheck
  <2> SUFFICES ASSUME GroupTypes, GroupInv,
                      NEW o \in Objects, NEW p \in Objects, NEW g \in Handles, NEW h \in Handles,
                      o # p,
                      IsPresent(o, g), checking[o][g] # NoRange,
                      IsPresent(p, h), checking[p][h] # NoRange
               PROVE  /\ Wild \notin {checking[o][g], checking[p][h]}
                      /\ \A x \in Indices :
                             ~(Covers(checking[o][g], x) /\ Covers(checking[p][h], x))
    BY DEF NoDoubleCheck
  <2> USE DEF GroupInv
  <2>0. /\ m_theadList \in Seq(Objects)
        /\ m_threadRangList \in Seq((0..MaxTotal) \X (0..MaxTotal))
        /\ Len(m_theadList) <= Len(m_threadRangList)
    BY DEF GroupTypes, TypeOKGroup, StageInv
  <2>1. PICK j \in DOMAIN m_theadList : m_theadList[j] = o
    BY DEF IsPresent, Present
  <2>2. PICK k \in DOMAIN m_theadList : m_theadList[k] = p
    BY DEF IsPresent, Present
  <2>3. checking[o][g] = m_threadRangList[j] /\ checking[p][h] = m_threadRangList[k]
    BY <2>1, <2>2 DEF IsPresent, OwnRange
  <2>4. j # k /\ j \in DOMAIN m_threadRangList /\ k \in DOMAIN m_threadRangList
        /\ j \in Nat /\ k \in Nat
    BY <2>0, <2>1, <2>2
  <2>5. PICK a \in 0..MaxTotal, b \in 0..MaxTotal, c \in 0..MaxTotal, d \in 0..MaxTotal :
            m_threadRangList[j] = <<a, b>> /\ m_threadRangList[k] = <<c, d>>
    BY <2>0, <2>4
  <2>6. b <= c \/ d <= a
    BY <2>4, <2>5 DEF RangesOrdered
  <2>7. Wild # <<a, b>> /\ Wild # <<c, d>>
    BY DEF Wild
  <2>8. ASSUME NEW x \in Indices PROVE ~(Covers(<<a, b>>, x) /\ Covers(<<c, d>>, x))
    BY <2>6, GroupBounds DEF Covers, Indices
  <2>9. QED
    BY <2>3, <2>5, <2>7, <2>8
<1>2. QED
  BY <1>1, GroupInvariant, PTL

(* In the group too a thread dies only when it is told to: constructing an *)
(* object where workers of a deleted one still run (ThreadCheck.cpp:170)   *)
(* leaves its thread handle NULL until StartRun creates a thread for it.   *)
THEOREM GroupAlive == GroupSpec => []RunningMeansAlive
<1>1. GroupInit => RunningMeansAlive
  BY DEF GroupInit, ThreadInit, RunningMeansAlive, Handles, NULL
<1>2. GroupTypes /\ GroupInv /\ RunningMeansAlive /\ [GroupNext]_vars => RunningMeansAlive'
  <2> SUFFICES ASSUME GroupTypes, GroupInv, RunningMeansAlive, [GroupNext]_vars
               PROVE  RunningMeansAlive'
    OBVIOUS
  <2>1. TypeOK /\ TypeOKGroup /\ StageInv
    BY DEF GroupTypes, GroupInv, TypeOKGroup
  <2>2. ASSUME NEW o \in Objects, NewThreadCheck(o) PROVE RunningMeansAlive'
    BY <2>1, <2>2 DEF NewThreadCheck, RunningMeansAlive, workerVars, TypeOK, Handles, NULL
  <2>3. CASE [Next]_tvars
    BY <2>1, <2>3, AliveStep
  <2>4. QED
    BY <2>1, <2>2, <2>3, GroupThread DEF vars
<1>3. QED
  BY <1>1, <1>2, GroupInvariant, PTL DEF GroupSpec
=============================================================================

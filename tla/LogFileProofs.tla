---------------------------- MODULE LogFileProofs ----------------------------
(***************************************************************************)
(* Proofs about LogFile, for any clock, any record lengths, any directory  *)
(* and any number of records, failures and restarts.                       *)
(*                                                                         *)
(* The inductive invariant LogInv says which file the handle belongs to    *)
(* and where in it the pointer stands, and what the last search of the     *)
(* directory has left.  NewestInv adds, for the only file, where each      *)
(* record that is still new enough lies, ahead of the place of the next    *)
(* round or behind it.                                                     *)
(***************************************************************************)
EXTENDS LogFile, FiniteSetTheorems, TLAPS

(* The names of the files of a day. *)
Dated == Nat \X Nat

ConfRec == [m_bOnlyFile : BOOLEAN, m_bDelFlag : BOOLEAN, m_dwLogFileSize : Nat,
            m_iDayFileCount : 1 .. 24, m_iLogDayCount : 1 .. 365]

ObjRec == [m_hFile : {NULL, Invalid, Single} \cup Dated, pointer : Nat,
           m_strCurFile : {NULL} \cup Dated, m_tmClear : Nat,
           m_dwCurPos : Nat, m_dwFilePos : Nat]

LogRec == [at : Times, len : Lengths, file : {Invalid, Single} \cup Dated]

(* A directory whose files hold records up to number n. *)
DiskOK(d, n) ==
    /\ DOMAIN d \subseteq {Single} \cup Dated
    /\ \A name \in DOMAIN d : d[name] \in Seq(0 .. n)

LogTypes ==
    /\ now \in Times /\ conf \in ConfRec /\ obj \in ObjRec
    /\ log \in Seq(LogRec) /\ DiskOK(disk, Len(log))
    /\ born \in 0 .. Len(log) /\ faults \in 0 .. MaxFaults /\ starts \in 1 .. MaxStarts

(* The handle: none before the first record or where every record closes   *)
(* it; the only file; or the current file of the day, at its end.          *)
HandleOK(o, d) ==
    \/ o.m_hFile \in {NULL, Invalid}
    \/ /\ o.m_hFile \in DOMAIN d
       /\ IF conf.m_bOnlyFile THEN o.m_hFile = Single
          ELSE o.m_hFile = o.m_strCurFile /\ o.m_hFile \in Dated /\ o.pointer = Len(d[o.m_hFile])

(* No dated file is older than the days to keep, counted from time t. *)
NoneOld(d, t, more) ==
    \A n \in DOMAIN d \ {Single} : Day(t) <= n[1] + conf.m_iLogDayCount + more

ClearedOK(o, d) == o.m_tmClear # 0 => ~conf.m_bOnlyFile /\ NoneOld(d, o.m_tmClear, 0)

(* A dated file carries the day of its records in its name. *)
DatedByName == \A r \in DOMAIN log : log[r].file \in Dated => log[r].file[1] = Day(log[r].at)

LogInv ==
    /\ LogTypes
    /\ Fresh => obj.m_hFile = NULL /\ obj.m_tmClear = 0
    /\ conf.m_bDelFlag => obj.m_hFile = NULL
    /\ HandleOK(obj, disk)
    /\ ClearedOK(obj, disk)
    /\ DatedByName

(* Where the only file is written next, whether it is open or not. *)
Place(o, d) == IF o.m_dwCurPos = 0 THEN FileSize(d, Single) ELSE o.m_dwFilePos

(* Members p from which Round starts: those of an open file, or those      *)
(* OpenSingle has put the pointer into.                                    *)
RoundFrom(p) ==
    /\ p \in ObjRec /\ p.m_hFile = Single
    /\ IF obj.m_hFile = NULL
       THEN /\ p.m_dwCurPos = obj.m_dwCurPos /\ p.pointer = Place(obj, disk)
            /\ p.m_dwCurPos # 0 => p.m_dwFilePos = p.pointer
       ELSE p = obj

(* The pointer and the marks after InitSingle. *)
SingleMarks(o) ==
    IF o.m_hFile = Invalid
    THEN /\ o.m_dwCurPos = obj.m_dwCurPos
         /\ obj.m_dwCurPos # 0 => o.m_dwFilePos = obj.m_dwFilePos
    ELSE \E p : RoundFrom(p) /\ o = Round(p, FileSize(disk, Single))

-----------------------------------------------------------------------------
(* Two times less than 24 hours apart are of the same day or of two that   *)
(* follow each other.                                                      *)
LEMMA DayFacts ==
    ASSUME NEW t \in Nat
    PROVE  Day(t) \in Nat /\ 24 * Day(t) <= t /\ t < 24 * Day(t) + 24
BY Z3 DEF Day

LEMMA CloseDays ==
    ASSUME NEW t \in Nat, NEW u \in Nat, GetDays(t, u) = 0
    PROVE  Day(t) <= Day(u) + 1 /\ Day(u) <= Day(t) + 1 /\ t < u + 24
<1> DEFINE apart == IF t >= u THEN t - u ELSE u - t
<1>1. apart \in Nat
  OBVIOUS
<1>2. apart \div 24 = 0
  BY DEF GetDays
<1>3. (t >= u => apart = t - u) /\ (t < u => apart = u - t)
  OBVIOUS
<1> HIDE DEF apart
<1>4. apart < 24
  BY <1>1, <1>2, Z3
<1>5. t < u + 24 /\ u < t + 24
  BY <1>3, <1>4
<1>6. PICK a, b \in Nat : /\ a = Day(t) /\ 24 * a <= t /\ t < 24 * a + 24
                         /\ b = Day(u) /\ 24 * b <= u /\ u < 24 * b + 24
  BY DayFacts
<1>7. a <= b + 1 /\ b <= a + 1
  BY <1>5, <1>6
<1>8. QED
  BY <1>5, <1>6, <1>7

(* The name of the current file has the day of the clock. *)
LEMMA NameFacts ==
    ASSUME LogTypes
    PROVE  GetLogFileName \in Dated /\ GetLogFileName[1] = Day(now)
<1>1. now \in Nat /\ conf.m_iDayFileCount \in 1 .. 24
  BY LogAssumption DEF LogTypes, ConfRec
<1>2. PICK k \in 1 .. 24 : k = conf.m_iDayFileCount
  BY <1>1
<1>3. 24 \div k \in Nat /\ 24 \div k > 0
  BY Z3
<1>4. PICK q \in Nat : q = 24 \div k /\ q > 0
  BY <1>3
<1>5. PICK h \in Nat : h = Hour(now)
  BY <1>1, Z3 DEF Hour
<1>6. h \div q \in Nat
  BY <1>4, Z3
<1>7. GetLogFileName = <<Day(now), h \div q>>
  BY <1>2, <1>4, <1>5 DEF GetLogFileName
<1>8. QED
  BY <1>1, <1>6, <1>7, DayFacts DEF Dated

(* Max({a, b}) is the larger of two numbers. *)
LEMMA MaxFacts ==
    ASSUME NEW a \in Nat, NEW b \in Nat
    PROVE  /\ Max({a, b}) \in {a, b} /\ Max({a, b}) >= a /\ Max({a, b}) >= b
<1>1. \E x \in {a, b} : \A y \in {a, b} : x >= y
  OBVIOUS
<1>2. QED
  BY <1>1, Zenon DEF Max

-----------------------------------------------------------------------------
(* What a file operation works on: the members and the directory. *)
Pair(o, d) == [obj |-> o, disk |-> d]

(* The members CreateFile leaves alone. *)
SameMembers(p, o) ==
    /\ p.m_strCurFile = o.m_strCurFile /\ p.m_tmClear = o.m_tmClear
    /\ p.m_dwCurPos = o.m_dwCurPos /\ p.m_dwFilePos = o.m_dwFilePos

(* Directory e is d with file name in it, empty if it is new. *)
WithFile(e, d, name) ==
    /\ DOMAIN e = DOMAIN d \cup {name}
    /\ \A n \in DOMAIN d : e[n] = d[n]
    /\ name \notin DOMAIN d => e[name] = <<>>

(* The two parts of a pair. *)
LEMMA PairFacts ==
    ASSUME NEW o, NEW d
    PROVE  Pair(o, d).obj = o /\ Pair(o, d).disk = d
BY DEF Pair

(* t is what CreateFile makes of o and d, if it succeeds and if not. *)
Created(t, o, d, name, at) == t = CreateFile(Pair(o, d), name, TRUE, at)
NotCreated(t, o, d, name, at) == t = CreateFile(Pair(o, d), name, FALSE, at)

(* CreateFile with OPEN_ALWAYS. *)
LEMMA CreateFacts ==
    ASSUME NEW o \in ObjRec, NEW d, NEW name \in {Single} \cup Dated, NEW at \in Nat,
           NEW t, Created(t, o, d, name, at)
    PROVE  /\ t = Pair(t.obj, t.disk)
           /\ t.obj \in ObjRec /\ t.obj.m_hFile = name /\ t.obj.pointer = at
           /\ SameMembers(t.obj, o) /\ WithFile(t.disk, d, name)
<1>1. PICK p : p = [[o EXCEPT !.m_hFile = name] EXCEPT !.pointer = at]
  OBVIOUS
<1>2. /\ p \in ObjRec /\ p.m_hFile = name /\ p.pointer = at /\ SameMembers(p, o)
  BY <1>1 DEF ObjRec, SameMembers
<1>3. PICK e : e = [n \in DOMAIN d \cup {name} |-> IF n \in DOMAIN d THEN d[n] ELSE <<>>]
  OBVIOUS
<1>4. WithFile(e, d, name)
  BY <1>3 DEF WithFile
<1>5. t = Pair(p, e)
  BY <1>1, <1>3 DEF Created, CreateFile, Pair
<1>6. t.obj = p /\ t.disk = e
  BY <1>5, PairFacts, Zenon
<1>7. QED
  BY <1>2, <1>4, <1>5, <1>6, Zenon

(* CreateFile that fails. *)
LEMMA CreateFails ==
    ASSUME NEW o \in ObjRec, NEW d, NEW name, NEW at, NEW t, NotCreated(t, o, d, name, at)
    PROVE  /\ t = Pair(t.obj, t.disk)
           /\ t.obj \in ObjRec /\ t.obj.m_hFile = Invalid /\ t.disk = d
           /\ SameMembers(t.obj, o)
<1>1. PICK p : p = [o EXCEPT !.m_hFile = Invalid]
  OBVIOUS
<1>2. /\ p \in ObjRec /\ p.m_hFile = Invalid /\ SameMembers(p, o)
  BY <1>1 DEF ObjRec, SameMembers
<1>3. t = Pair(p, d)
  BY <1>1 DEF NotCreated, CreateFile, Pair
<1>4. t.obj = p /\ t.disk = d
  BY <1>3, PairFacts, Zenon
<1>5. QED
  BY <1>2, <1>3, <1>4, Zenon

(* A directory with one more file in it is as well formed as before. *)
LEMMA WithFileOK ==
    ASSUME NEW d, NEW e, NEW n \in Nat, DiskOK(d, n), NEW name \in {Single} \cup Dated,
           WithFile(e, d, name)
    PROVE  DiskOK(e, n)
<1>1. <<>> \in Seq(0 .. n)
  OBVIOUS
<1>2. QED
  BY <1>1 DEF DiskOK, WithFile

(* FileSize is a number. *)
LEMMA SizeFacts ==
    ASSUME NEW d, NEW n \in Nat, DiskOK(d, n), NEW name
    PROVE  /\ FileSize(d, name) \in Nat
           /\ \A e : WithFile(e, d, name) => Len(e[name]) = FileSize(d, name)
<1>1. CASE name \in DOMAIN d
  <2>1. PICK q \in Seq(0 .. n) : q = d[name]
    BY <1>1 DEF DiskOK
  <2>2. Len(q) \in Nat
    OBVIOUS
  <2>3. QED
    BY <1>1, <2>1, <2>2 DEF FileSize, WithFile
<1>2. CASE name \notin DOMAIN d
  BY <1>2 DEF FileSize, WithFile
<1>3. QED
  BY <1>1, <1>2

-----------------------------------------------------------------------------
(* What InitLogFile makes of the members and the directory, whether or not *)
(* CreateFile succeeds (ok): o and d are what WriteFile works on.          *)
ReadyOK(o, d, ok) ==
    /\ o \in ObjRec /\ DiskOK(d, Len(log))
    /\ o.m_hFile # NULL
    /\ conf.m_bDelFlag /\ o.m_hFile = Invalid => ~ok
    /\ HandleOK(o, d) /\ ClearedOK(o, d)
    /\ o.m_hFile \in Dated => o.m_hFile[1] = Day(now) /\ NoneOld(d, now, 1)
    /\ \A n \in DOMAIN disk \cap DOMAIN d : d[n] = disk[n]
    /\ \A n \in DOMAIN disk \ DOMAIN d : n # Single /\ TooOld(n)
    /\ conf.m_bOnlyFile => SingleMarks(o) /\ FileSize(d, Single) = FileSize(disk, Single)

(* The rounds move only the pointer and the two marks. *)
LEMMA RoundFacts ==
    ASSUME LogTypes, NEW o \in ObjRec, NEW size \in Nat, NEW p, p = Round(o, size)
    PROVE  /\ p \in ObjRec /\ p.m_hFile = o.m_hFile
           /\ p.m_tmClear = o.m_tmClear /\ p.m_strCurFile = o.m_strCurFile
<1>1. PICK n \in Nat : n = o.pointer
  BY DEF ObjRec
<1>2. PICK q : q = [[[o EXCEPT !.m_dwFilePos = 0] EXCEPT !.m_dwCurPos = n] EXCEPT !.pointer = 0]
  OBVIOUS
<1>3. /\ q \in ObjRec /\ q.m_hFile = o.m_hFile
      /\ q.m_tmClear = o.m_tmClear /\ q.m_strCurFile = o.m_strCurFile
  BY <1>2 DEF ObjRec
<1>4. PICK r : r = [o EXCEPT !.m_dwCurPos = 0]
  OBVIOUS
<1>5. /\ r \in ObjRec /\ r.m_hFile = o.m_hFile
      /\ r.m_tmClear = o.m_tmClear /\ r.m_strCurFile = o.m_strCurFile
  BY <1>4 DEF ObjRec
<1>6. q = NextRound(o)
  BY <1>1, <1>2 DEF NextRound
<1>7. p \in {q, r, o}
  BY <1>4, <1>6, Zenon DEF Round
<1>8. QED
  BY <1>3, <1>5, <1>7

(* What InitSingle has after the file is opened, before the rounds. *)
SingleOpen(o, d, ok) ==
    /\ o \in ObjRec /\ DiskOK(d, Len(log))
    /\ o.m_hFile \in {Invalid, Single} /\ (o.m_hFile = Single => Single \in DOMAIN d)
    /\ conf.m_bDelFlag /\ o.m_hFile = Invalid => ~ok
    /\ o.m_tmClear = 0
    /\ \A n \in DOMAIN disk : n \in DOMAIN d /\ d[n] = disk[n]
    /\ FileSize(d, Single) = FileSize(disk, Single)

(* The pointer and the marks then. *)
OpenMarks(o) ==
    IF o.m_hFile = Invalid
    THEN /\ o.m_dwCurPos = obj.m_dwCurPos
         /\ obj.m_dwCurPos # 0 => o.m_dwFilePos = obj.m_dwFilePos
    ELSE RoundFrom(o)

(* InitLogFile opens the only file when it is closed. *)
LEMMA OpenSingleFacts ==
    ASSUME LogInv, conf.m_bOnlyFile, obj.m_hFile = NULL, NEW ok \in BOOLEAN, NEW t,
           t = OpenSingle(Pair(obj, disk), ok)
    PROVE  t = Pair(t.obj, t.disk) /\ SingleOpen(t.obj, t.disk, ok) /\ OpenMarks(t.obj)
<1>1. PICK o, d : o = obj /\ d = disk
  OBVIOUS
<1>2. PICK n \in Nat : n = Len(log)
  BY DEF LogInv, LogTypes
<1>3. o \in ObjRec /\ DiskOK(d, n) /\ o.m_tmClear = 0
  BY <1>1, <1>2 DEF LogInv, LogTypes, ClearedOK
<1>4. PICK q : q = [o EXCEPT !.m_dwFilePos = 0]
  OBVIOUS
<1>5. q \in ObjRec /\ q.m_tmClear = 0 /\ q.m_dwCurPos = o.m_dwCurPos
  BY <1>3, <1>4 DEF ObjRec
<1>6. [Pair(o, d) EXCEPT !.obj.m_dwFilePos = 0] = Pair(q, d)
  BY <1>4 DEF Pair
<1>7. PICK size : size = FileSize(d, Single) /\ size \in Nat
  BY <1>3, SizeFacts
<1>8. PICK at : at = o.m_dwFilePos /\ at \in Nat
  BY <1>3 DEF ObjRec
<1>9. \/ o.m_dwCurPos = 0 /\ t = CreateFile(Pair(q, d), Single, ok, size)
      \/ o.m_dwCurPos # 0 /\ t = CreateFile(Pair(o, d), Single, ok, at)
  <2>1. Pair(o, d).obj = o /\ Pair(o, d).disk = d
    BY PairFacts
  <2>2. QED
    BY <1>1, <1>6, <1>7, <1>8, <2>1, Zenon DEF OpenSingle
<1>10. CASE ok = TRUE
  <2>1. \/ o.m_dwCurPos = 0 /\ Created(t, q, d, Single, size)
        \/ o.m_dwCurPos # 0 /\ Created(t, o, d, Single, at)
    BY <1>9, <1>10, Zenon DEF Created
  <2>2. /\ t = Pair(t.obj, t.disk) /\ t.obj \in ObjRec /\ t.obj.m_hFile = Single
        /\ \/ o.m_dwCurPos = 0 /\ SameMembers(t.obj, q) /\ t.obj.pointer = size
           \/ o.m_dwCurPos # 0 /\ SameMembers(t.obj, o) /\ t.obj.pointer = at
        /\ WithFile(t.disk, d, Single)
    BY <1>3, <1>5, <1>7, <1>8, <2>1, CreateFacts
  <2>3. PICK w, e : w = t.obj /\ e = t.disk
    OBVIOUS
  <2>4. DiskOK(e, n)
    BY <1>3, <2>2, <2>3, WithFileOK
  <2>5. FileSize(e, Single) = FileSize(d, Single)
    <3>1. WithFile(e, d, Single)
      BY <2>2, <2>3
    <3>2. Len(e[Single]) = FileSize(d, Single)
      BY <1>3, <3>1, SizeFacts
    <3>3. Single \in DOMAIN e
      BY <3>1 DEF WithFile
    <3>4. QED
      BY <3>2, <3>3 DEF FileSize
  <2>6. SingleOpen(w, e, ok)
    BY <1>1, <1>2, <1>3, <1>5, <2>2, <2>3, <2>4, <2>5, LogAssumption
       DEF SingleOpen, SameMembers, WithFile
  <2>7. w.m_dwCurPos = o.m_dwCurPos /\ w.pointer = Place(o, d)
        /\ (w.m_dwCurPos # 0 => w.m_dwFilePos = w.pointer)
    BY <1>5, <1>7, <1>8, <2>2, <2>3 DEF SameMembers, Place
  <2>8. OpenMarks(w)
    BY <1>1, <2>2, <2>3, <2>7, LogAssumption DEF OpenMarks, RoundFrom
  <2>9. QED
    BY <2>2, <2>3, <2>6, <2>8, Zenon
<1>11. CASE ok = FALSE
  <2>1. \/ o.m_dwCurPos = 0 /\ NotCreated(t, q, d, Single, size)
        \/ o.m_dwCurPos # 0 /\ NotCreated(t, o, d, Single, at)
    BY <1>9, <1>11, Zenon DEF NotCreated
  <2>2. /\ t = Pair(t.obj, t.disk) /\ t.obj \in ObjRec /\ t.obj.m_hFile = Invalid /\ t.disk = d
        /\ \/ o.m_dwCurPos = 0 /\ SameMembers(t.obj, q)
           \/ o.m_dwCurPos # 0 /\ SameMembers(t.obj, o)
    BY <1>3, <1>5, <2>1, CreateFails
  <2>3. PICK w : w = t.obj
    OBVIOUS
  <2>4. SingleOpen(w, d, ok)
    BY <1>1, <1>2, <1>3, <1>5, <1>11, <2>2, <2>3, LogAssumption
       DEF SingleOpen, SameMembers
  <2>5. OpenMarks(w)
    BY <1>1, <1>5, <2>2, <2>3 DEF OpenMarks, SameMembers
  <2>6. QED
    BY <2>2, <2>3, <2>4, <2>5, Zenon
<1>12. QED
  BY <1>10, <1>11

(* InitLogFile for the only file. *)
LEMMA SingleReady ==
    ASSUME LogInv, conf.m_bOnlyFile, NEW ok \in BOOLEAN, NEW t,
           t = InitSingle(Pair(obj, disk), ok)
    PROVE  t = Pair(t.obj, t.disk) /\ ReadyOK(t.obj, t.disk, ok)
<1>0. Pair(obj, disk).obj = obj /\ Pair(obj, disk).disk = disk
  BY DEF Pair
<1>1. PICK u : u = IF Pair(obj, disk).obj.m_hFile = NULL THEN OpenSingle(Pair(obj, disk), ok)
                   ELSE Pair(obj, disk)
  OBVIOUS
<1>2. u = Pair(u.obj, u.disk) /\ SingleOpen(u.obj, u.disk, ok) /\ OpenMarks(u.obj)
  <2>1. CASE obj.m_hFile = NULL
    BY <1>0, <1>1, <2>1, OpenSingleFacts, Zenon
  <2>2. CASE obj.m_hFile # NULL
    <3>1. u = Pair(obj, disk) /\ u.obj = obj /\ u.disk = disk
      BY <1>0, <1>1, <2>2, Zenon
    <3>2. /\ obj.m_hFile = Invalid \/ (obj.m_hFile = Single /\ Single \in DOMAIN disk)
          /\ ~conf.m_bDelFlag /\ obj.m_tmClear = 0
      BY <2>2, Zenon DEF LogInv, HandleOK, ClearedOK
    <3>3. SingleOpen(obj, disk, ok)
      <4>1. obj \in ObjRec /\ DiskOK(disk, Len(log))
        BY DEF LogInv, LogTypes
      <4>2. Invalid # Single
        BY LogAssumption
      <4>3. QED
        BY <3>2, <4>1, <4>2, Zenon DEF SingleOpen
    <3>4. OpenMarks(obj)
      BY <2>2, <3>2, <3>3, Zenon DEF OpenMarks, RoundFrom, SingleOpen
    <3>5. QED
      BY <3>1, <3>3, <3>4, Zenon
  <2>3. QED
    BY <2>1, <2>2
<1>3. PICK o, d : o = u.obj /\ d = u.disk
  OBVIOUS
<1>4. u = Pair(o, d) /\ SingleOpen(o, d, ok) /\ OpenMarks(o)
  BY <1>2, <1>3, Zenon
<1>5. ASSUME NEW p, SingleOpen(p, d, ok), p.m_hFile = o.m_hFile, SingleMarks(p)
      PROVE  ReadyOK(p, d, ok)
  BY <1>5, LogAssumption
     DEF SingleOpen, ReadyOK, HandleOK, ClearedOK, NoneOld, Dated
<1>6. CASE o.m_hFile = Invalid
  <2>1. t = u
    BY <1>1, <1>3, <1>6, Zenon DEF InitSingle
  <2>2. SingleMarks(o)
    BY <1>4, <1>6, Zenon DEF OpenMarks, SingleMarks
  <2>3. QED
    BY <1>3, <1>4, <1>5, <2>1, <2>2, Zenon
<1>7. CASE o.m_hFile # Invalid
  <2>1. PICK size : size = FileSize(d, Single) /\ size \in Nat
    <3>1. PICK n \in Nat : n = Len(log)
      BY DEF LogInv, LogTypes
    <3>2. QED
      BY <1>4, <3>1, SizeFacts DEF SingleOpen
  <2>2. PICK p : p = Round(o, size)
    OBVIOUS
  <2>3. t = [u EXCEPT !.obj = p]
    BY <1>1, <1>3, <1>7, <2>1, <2>2, Zenon DEF InitSingle
  <2>4. t = Pair(p, d)
    BY <1>4, <2>3 DEF Pair
  <2>5. SingleOpen(p, d, ok) /\ p.m_hFile = o.m_hFile
    BY <1>4, <2>1, <2>2, RoundFacts DEF SingleOpen, LogInv
  <2>6. t.obj = p /\ t.disk = d
    BY <2>4, PairFacts
  <2>7. size = FileSize(disk, Single)
    BY <1>4, <2>1, Zenon DEF SingleOpen
  <2>8. SingleMarks(p)
    BY <1>4, <1>7, <2>2, <2>5, <2>7, Zenon DEF OpenMarks, SingleMarks
  <2>9. QED
    BY <1>5, <2>4, <2>5, <2>6, <2>8, Zenon
<1>8. QED
  BY <1>6, <1>7

-----------------------------------------------------------------------------
(* ClearLogFile leaves no file that is too old, although it passes over    *)
(* the last one; a search that is not due found none less than 24 hours    *)
(* ago.  It spares the current file.                                       *)
LEMMA ClearFacts ==
    ASSUME LogTypes, ~conf.m_bOnlyFile,
           NEW o \in ObjRec, NEW d, DiskOK(d, Len(log)), GetLogFileName \in DOMAIN d,
           o.m_tmClear # 0 => \A n \in DOMAIN d \ {Single, GetLogFileName} :
                                  Day(o.m_tmClear) <= n[1] + conf.m_iLogDayCount,
           NEW t, t = ClearLogFile(Pair(o, d))
    PROVE  /\ t = Pair(t.obj, t.disk)
           /\ t.obj \in ObjRec /\ t.obj.m_hFile = o.m_hFile
           /\ t.obj.m_strCurFile = o.m_strCurFile /\ t.obj.pointer = o.pointer
           /\ GetLogFileName \in DOMAIN t.disk
           /\ DOMAIN t.disk \subseteq DOMAIN d
           /\ \A n \in DOMAIN t.disk : t.disk[n] = d[n]
           /\ \A n \in DOMAIN d \ DOMAIN t.disk : n # Single /\ TooOld(n)
           /\ ClearedOK(t.obj, t.disk) /\ NoneOld(t.disk, now, 1)
<1>1. PICK name, N, D : name = GetLogFileName /\ N = Day(now) /\ D = conf.m_iLogDayCount
  OBVIOUS
<1>2. /\ name \in Dated /\ name[1] = N /\ now \in Nat /\ now >= 24
      /\ N \in Nat /\ N > 0 /\ D \in Nat /\ D >= 1
  <2>1. now \in Nat /\ now >= 24 /\ D \in 1 .. 365
    BY <1>1, LogAssumption DEF LogTypes, ConfRec
  <2>2. N \in Nat /\ now < 24 * N + 24
    BY <1>1, <2>1, DayFacts
  <2>3. N > 0 /\ D \in Nat /\ D >= 1
    BY <2>1, <2>2
  <2>4. name \in Dated /\ name[1] = N
    BY <1>1, NameFacts, Zenon
  <2>5. QED
    BY <2>1, <2>2, <2>3, <2>4
<1>3. /\ \A n \in DOMAIN d : n # Single => n \in Dated /\ n[1] \in Nat
      /\ Single \notin Dated
  BY LogAssumption DEF DiskOK, Dated
<1>4. PICK m \in Nat : m = o.m_tmClear
  BY DEF ObjRec
<1>5. Pair(o, d).obj = o /\ Pair(o, d).disk = d
  BY PairFacts
<1>6. CASE ~ClearDue(o)
  <2>1. t = Pair(o, d) /\ t.obj = o /\ t.disk = d
    BY <1>5, <1>6, Zenon DEF ClearLogFile
  <2>2. GetDays(now, m) = 0
    BY <1>4, <1>6 DEF ClearDue
  <2>3. N <= Day(m) + 1 /\ Day(m) <= N + 1 /\ m # 0 /\ Day(m) \in Nat
    BY <1>1, <1>2, <2>2, CloseDays, DayFacts
  <2>4. \A n \in DOMAIN d \ {Single} : Day(m) <= n[1] + D
    BY <1>1, <1>2, <1>3, <1>4, <2>3
  <2>5. \A n \in DOMAIN d \ {Single} : N <= n[1] + D + 1
    BY <1>2, <1>3, <2>3, <2>4
  <2>6. ClearedOK(o, d) /\ NoneOld(d, now, 1)
    BY <1>1, <1>2, <1>3, <1>4, <2>3, <2>4, <2>5 DEF ClearedOK, NoneOld
  <2>7. QED
    BY <2>1, <2>6
<1>7. CASE ClearDue(o)
  <2>1. PICK kept : kept = {n \in DOMAIN d : ~(n \in Visited(d) /\ TooOld(n))}
    OBVIOUS
  <2>2. PICK p, e : p = [o EXCEPT !.m_tmClear = now] /\ e = [n \in kept |-> d[n]]
    OBVIOUS
  <2>3. t = Pair(p, e)
    BY <1>5, <1>7, <2>1, <2>2, Zenon DEF ClearLogFile, Pair
  <2>4. t.obj = p /\ t.disk = e
    BY <2>3, PairFacts
  <2>5. /\ p \in ObjRec /\ p.m_hFile = o.m_hFile /\ p.m_strCurFile = o.m_strCurFile
        /\ p.pointer = o.pointer /\ p.m_tmClear = now
    BY <1>2, <2>2 DEF ObjRec
  <2>6. DOMAIN e = kept /\ \A n \in kept : e[n] = d[n]
    BY <2>2
  <2>7. \A n \in DOMAIN d : TooOld(n) <=> N > n[1] + D
    BY <1>1 DEF TooOld
  <2>8. name \in kept
    BY <1>1, <1>2, <2>1, <2>7
  <2>9. \A n \in kept \ {Single} : N <= n[1] + D
    <3> SUFFICES ASSUME NEW n \in kept, n # Single, N > n[1] + D PROVE FALSE
      BY <1>2, <1>3, <2>1
    <3>1. n \in DOMAIN d /\ n \notin Visited(d) /\ n[1] \in Nat
      BY <1>3, <2>1, <2>7
    <3>2. ~Earlier(n, name)
      BY <1>1, <3>1 DEF Visited
    <3>3. QED
      BY <1>2, <3>1, <3>2 DEF Earlier
  <2>10. \A n \in DOMAIN d \ kept : n # Single /\ TooOld(n)
    BY <2>1 DEF Visited
  <2>11. NoneOld(e, now, 0) /\ NoneOld(e, now, 1)
    BY <1>1, <1>2, <1>3, <2>1, <2>6, <2>9 DEF NoneOld
  <2>12. ClearedOK(p, e)
    BY <2>5, <2>11 DEF ClearedOK
  <2>13. kept \subseteq DOMAIN d
    BY <2>1
  <2>14. /\ t.obj \in ObjRec /\ t.obj.m_hFile = o.m_hFile
         /\ t.obj.m_strCurFile = o.m_strCurFile /\ t.obj.pointer = o.pointer
    BY <2>4, <2>5
  <2>15. /\ t = Pair(t.obj, t.disk) /\ ClearedOK(t.obj, t.disk) /\ NoneOld(t.disk, now, 1)
    BY <2>3, <2>4, <2>11, <2>12, Zenon
  <2>16. QED
    BY <1>1, <2>4, <2>6, <2>8, <2>10, <2>13, <2>14, <2>15
<1>8. QED
  BY <1>6, <1>7

(* What InitMulti has after the file is opened, before the search. *)
MultiOpen(o, d, ok) ==
    /\ o \in ObjRec /\ DiskOK(d, Len(log)) /\ o.m_strCurFile = GetLogFileName
    /\ \/ o.m_hFile = Invalid /\ d = disk
       \/ /\ o.m_hFile = GetLogFileName /\ GetLogFileName \in DOMAIN d
          /\ o.pointer = Len(d[GetLogFileName])
    /\ conf.m_bDelFlag /\ o.m_hFile = Invalid => ~ok
    /\ o.m_tmClear = obj.m_tmClear
    /\ DOMAIN d \subseteq DOMAIN disk \cup {GetLogFileName}
    /\ \A n \in DOMAIN disk : n \in DOMAIN d /\ d[n] = disk[n]

(* InitLogFile opens the file of the hour. *)
LEMMA OpenMultiFacts ==
    ASSUME LogInv, ~conf.m_bOnlyFile, NEW ok \in BOOLEAN, NEW t,
           t = CreateFile([Pair(obj, disk) EXCEPT !.obj.m_strCurFile = GetLogFileName],
                          GetLogFileName, ok, FileSize(disk, GetLogFileName))
    PROVE  t = Pair(t.obj, t.disk) /\ MultiOpen(t.obj, t.disk, ok)
<1>1. PICK o, d, name : o = obj /\ d = disk /\ name = GetLogFileName
  OBVIOUS
<1>2. PICK n \in Nat : n = Len(log)
  BY DEF LogInv, LogTypes
<1>3. o \in ObjRec /\ DiskOK(d, n) /\ name \in Dated
  BY <1>1, <1>2, NameFacts DEF LogInv, LogTypes
<1>4. PICK q : q = [o EXCEPT !.m_strCurFile = name]
  OBVIOUS
<1>5. q \in ObjRec /\ q.m_tmClear = o.m_tmClear /\ q.m_strCurFile = name
  BY <1>3, <1>4 DEF ObjRec
<1>6. [Pair(o, d) EXCEPT !.obj.m_strCurFile = name] = Pair(q, d)
  BY <1>4 DEF Pair
<1>7. PICK size : size = FileSize(d, name) /\ size \in Nat
  BY <1>3, SizeFacts
<1>8. t = CreateFile(Pair(q, d), name, ok, size)
  BY <1>1, <1>6, <1>7, Zenon
<1>9. CASE ok = TRUE
  <2>1. Created(t, q, d, name, size)
    BY <1>8, <1>9, Zenon DEF Created
  <2>2. /\ t = Pair(t.obj, t.disk) /\ t.obj \in ObjRec /\ t.obj.m_hFile = name
        /\ t.obj.pointer = size /\ SameMembers(t.obj, q) /\ WithFile(t.disk, d, name)
    BY <1>3, <1>5, <1>7, <2>1, CreateFacts
  <2>3. PICK w, e : w = t.obj /\ e = t.disk
    OBVIOUS
  <2>4. DiskOK(e, n)
    BY <1>3, <2>2, <2>3, WithFileOK
  <2>5. Len(e[name]) = size
    BY <1>3, <1>7, <2>2, <2>3, SizeFacts
  <2>6. name # Invalid
    BY <1>3, LogAssumption DEF Dated
  <2>7. MultiOpen(w, e, ok)
    BY <1>1, <1>2, <1>5, <2>2, <2>3, <2>4, <2>5, <2>6
       DEF MultiOpen, SameMembers, WithFile
  <2>8. QED
    BY <2>2, <2>3, <2>7, Zenon
<1>10. CASE ok = FALSE
  <2>1. NotCreated(t, q, d, name, size)
    BY <1>8, <1>10, Zenon DEF NotCreated
  <2>2. /\ t = Pair(t.obj, t.disk) /\ t.obj \in ObjRec /\ t.obj.m_hFile = Invalid /\ t.disk = d
        /\ SameMembers(t.obj, q)
    BY <1>5, <2>1, CreateFails
  <2>3. PICK w : w = t.obj
    OBVIOUS
  <2>4. MultiOpen(w, d, ok)
    BY <1>1, <1>2, <1>3, <1>5, <1>10, <2>2, <2>3 DEF MultiOpen, SameMembers
  <2>5. QED
    BY <2>2, <2>3, <2>4, Zenon
<1>11. QED
  BY <1>9, <1>10

(* InitLogFile for several files a day. *)
LEMMA MultiReady ==
    ASSUME LogInv, ~conf.m_bOnlyFile, NEW ok \in BOOLEAN, NEW t,
           t = InitMulti(Pair(obj, disk), ok)
    PROVE  t = Pair(t.obj, t.disk) /\ ReadyOK(t.obj, t.disk, ok)
<1>1. Pair(obj, disk).obj = obj /\ Pair(obj, disk).disk = disk
  BY DEF Pair
<1>2. PICK u : u = IF Renamed(Pair(obj, disk).obj) \/ Pair(obj, disk).obj.m_hFile = NULL
                   THEN CreateFile([Pair(obj, disk) EXCEPT !.obj.m_strCurFile = GetLogFileName],
                                   GetLogFileName, ok, FileSize(Pair(obj, disk).disk, GetLogFileName))
                   ELSE Pair(obj, disk)
  OBVIOUS
<1>3. u = Pair(u.obj, u.disk) /\ MultiOpen(u.obj, u.disk, ok)
  <2>1. CASE Renamed(obj) \/ obj.m_hFile = NULL
    BY <1>1, <1>2, <2>1, OpenMultiFacts, Zenon
  <2>2. CASE ~(Renamed(obj) \/ obj.m_hFile = NULL)
    <3>1. u = Pair(obj, disk) /\ u.obj = obj /\ u.disk = disk
      BY <1>1, <1>2, <2>2, Zenon
    <3>2. obj \in ObjRec /\ DiskOK(disk, Len(log))
      BY DEF LogInv, LogTypes
    <3>3. obj.m_strCurFile = GetLogFileName /\ obj.m_hFile # NULL /\ ~conf.m_bDelFlag
      BY <2>2, Zenon DEF LogInv, Renamed
    <3>4. \/ obj.m_hFile = Invalid
          \/ /\ obj.m_hFile = GetLogFileName /\ GetLogFileName \in DOMAIN disk
             /\ obj.pointer = Len(disk[GetLogFileName])
      BY <3>3, Zenon DEF LogInv, HandleOK
    <3>5. MultiOpen(obj, disk, ok)
      BY <3>2, <3>3, <3>4, Zenon DEF MultiOpen
    <3>6. QED
      BY <3>1, <3>5, Zenon
  <2>3. QED
    BY <2>1, <2>2
<1>4. PICK o, d : o = u.obj /\ d = u.disk
  OBVIOUS
<1>5. u = Pair(o, d) /\ MultiOpen(o, d, ok)
  BY <1>3, <1>4, Zenon
<1>6. PICK name : name = GetLogFileName
  OBVIOUS
<1>7. /\ name \in Dated /\ name[1] = Day(now) /\ Single \notin Dated /\ Invalid \notin Dated
      /\ NULL \notin Dated /\ NULL # Invalid
  BY <1>6, NameFacts, LogAssumption DEF LogInv, Dated
<1>8. CASE o.m_hFile = Invalid
  <2>1. t = u
    BY <1>2, <1>4, <1>8, Zenon DEF InitMulti
  <2>2. d = disk
    BY <1>5, <1>6, <1>7, <1>8 DEF MultiOpen
  <2>3. ClearedOK(o, d)
    BY <1>5, <2>2 DEF LogInv, ClearedOK, MultiOpen
  <2>4. ReadyOK(o, d, ok)
    BY <1>5, <1>7, <1>8, <2>2, <2>3 DEF ReadyOK, MultiOpen, HandleOK
  <2>5. QED
    BY <1>4, <1>5, <2>1, <2>4, Zenon
<1>9. CASE o.m_hFile # Invalid
  <2>1. t = ClearLogFile(Pair(o, d))
    BY <1>2, <1>4, <1>5, <1>9, Zenon DEF InitMulti
  <2>2. /\ o \in ObjRec /\ DiskOK(d, Len(log)) /\ o.m_strCurFile = name
        /\ o.m_hFile = name /\ name \in DOMAIN d /\ o.pointer = Len(d[name])
        /\ o.m_tmClear = obj.m_tmClear /\ DOMAIN d \subseteq DOMAIN disk \cup {name}
        /\ \A n \in DOMAIN disk : n \in DOMAIN d /\ d[n] = disk[n]
    BY <1>5, <1>6, <1>9 DEF MultiOpen
  <2>3. o.m_tmClear # 0 => \A n \in DOMAIN d \ {Single, name} :
                               Day(o.m_tmClear) <= n[1] + conf.m_iLogDayCount
    <3> SUFFICES ASSUME o.m_tmClear # 0, NEW n \in DOMAIN d, n # Single, n # name
                 PROVE  Day(o.m_tmClear) <= n[1] + conf.m_iLogDayCount
      OBVIOUS
    <3>1. NoneOld(disk, obj.m_tmClear, 0) /\ n \in DOMAIN disk
      BY <2>2 DEF LogInv, ClearedOK
    <3>2. n[1] \in Nat /\ conf.m_iLogDayCount \in Nat
      <4>1. DOMAIN disk \subseteq {Single} \cup Dated /\ conf \in ConfRec
        BY DEF LogInv, LogTypes, DiskOK
      <4>2. n \in Nat \X Nat
        BY <3>1, <4>1 DEF Dated
      <4>3. QED
        BY <4>1, <4>2 DEF ConfRec
    <3>3. Day(o.m_tmClear) <= n[1] + conf.m_iLogDayCount + 0
      BY <2>2, <3>1, Zenon DEF NoneOld
    <3>4. QED
      BY <3>2, <3>3
  <2>4. /\ t = Pair(t.obj, t.disk)
        /\ t.obj \in ObjRec /\ t.obj.m_hFile = name
        /\ t.obj.m_strCurFile = name /\ t.obj.pointer = o.pointer
        /\ name \in DOMAIN t.disk
        /\ DOMAIN t.disk \subseteq DOMAIN d
        /\ \A n \in DOMAIN t.disk : t.disk[n] = d[n]
        /\ \A n \in DOMAIN d \ DOMAIN t.disk : n # Single /\ TooOld(n)
        /\ ClearedOK(t.obj, t.disk) /\ NoneOld(t.disk, now, 1)
    <3>1. LogTypes
      BY DEF LogInv
    <3>2. QED
      BY <1>6, <2>1, <2>2, <2>3, <3>1, ClearFacts
  <2>5. PICK w, e : w = t.obj /\ e = t.disk
    OBVIOUS
  <2>6. DiskOK(e, Len(log))
    BY <2>2, <2>4, <2>5 DEF DiskOK
  <2>7. HandleOK(w, e)
    BY <1>7, <2>2, <2>4, <2>5 DEF HandleOK
  <2>8. w.m_hFile # NULL /\ w.m_hFile # Invalid
    BY <1>7, <2>4, <2>5
  <2>9. ReadyOK(w, e, ok)
    BY <1>7, <2>2, <2>4, <2>5, <2>6, <2>7, <2>8 DEF ReadyOK
  <2>10. QED
    BY <2>4, <2>5, <2>9, Zenon
<1>10. QED
  BY <1>8, <1>9

(* InitLogFile, in either mode. *)
LEMMA Ready ==
    ASSUME LogInv, NEW ok \in BOOLEAN, NEW t, t = InitLogFile(Pair(obj, disk), ok)
    PROVE  t = Pair(t.obj, t.disk) /\ ReadyOK(t.obj, t.disk, ok)
<1>1. CASE conf.m_bOnlyFile
  BY <1>1, SingleReady, Zenon DEF InitLogFile
<1>2. CASE ~conf.m_bOnlyFile
  BY <1>2, MultiReady, Zenon DEF InitLogFile
<1>3. QED
  BY <1>1, <1>2

-----------------------------------------------------------------------------
(* What WriteFile leaves in directory e of directory d, with the file      *)
(* handle and the pointer in o.                                            *)
Over(e, d, o, len) ==
    /\ DOMAIN e = DOMAIN d
    /\ \A n \in DOMAIN d : n # o.m_hFile => e[n] = d[n]
    /\ o.m_hFile # Invalid /\ o.pointer = Len(d[o.m_hFile]) =>
          /\ Len(e[o.m_hFile]) = o.pointer + len
          /\ \A i \in 1 .. o.pointer : e[o.m_hFile][i] = d[o.m_hFile][i]

(* The cells of the file that was written: record n + 1 at the pointer.    *)
Cellwise(e, d, o, n, len) ==
    o.m_hFile # Invalid =>
        LET q == d[o.m_hFile]
            w == e[o.m_hFile]
        IN  /\ Len(w) \in {Len(q), o.pointer + len}
            /\ Len(w) >= Len(q) /\ Len(w) >= o.pointer + len
            /\ \A i \in 1 .. Len(w) :
                  w[i] = IF i > o.pointer /\ i <= o.pointer + len THEN n + 1
                         ELSE IF i <= Len(q) THEN q[i] ELSE 0

(* The two marks of the rounds. *)
SameMarks(p, o) == p.m_dwCurPos = o.m_dwCurPos /\ p.m_dwFilePos = o.m_dwFilePos

(* SetFilePointer and WriteFile move the pointer alone. *)
LEMMA MovePointer ==
    ASSUME NEW o \in ObjRec, NEW k \in Nat
    PROVE  /\ [o EXCEPT !.pointer = k] \in ObjRec
           /\ [o EXCEPT !.pointer = k].m_hFile = o.m_hFile
           /\ [o EXCEPT !.pointer = k].m_strCurFile = o.m_strCurFile
           /\ [o EXCEPT !.pointer = k].m_tmClear = o.m_tmClear
           /\ [o EXCEPT !.pointer = k].pointer = k
           /\ SameMarks([o EXCEPT !.pointer = k], o)
BY DEF ObjRec, SameMarks

(* t is what WriteFile makes of o and d. *)
Wrote(t, o, d, n, len) == t = WriteFile(Pair(o, d), n + 1, len)

(* WriteFile. *)
LEMMA WriteFileFacts ==
    ASSUME NEW o \in ObjRec, NEW d, NEW n \in Nat, DiskOK(d, n), NEW len \in Nat,
           o.m_hFile = Invalid \/ o.m_hFile \in DOMAIN d,
           NEW t, Wrote(t, o, d, n, len)
    PROVE  /\ t = Pair(t.obj, t.disk) /\ DiskOK(t.disk, n + 1) /\ Over(t.disk, d, o, len)
           /\ Cellwise(t.disk, d, o, n, len) /\ SameMarks(t.obj, o)
           /\ t.obj \in ObjRec /\ t.obj.m_hFile = o.m_hFile
           /\ t.obj.m_strCurFile = o.m_strCurFile /\ t.obj.m_tmClear = o.m_tmClear
           /\ t.obj.pointer = IF o.m_hFile = Invalid THEN o.pointer ELSE o.pointer + len
<1>1. Pair(o, d).obj = o /\ Pair(o, d).disk = d
  BY PairFacts
<1>2. PICK h : h = o.m_hFile
  OBVIOUS
<1>3. PICK p \in Nat : p = o.pointer
  BY DEF ObjRec
<1>4. \A x \in Seq(0 .. n) : x \in Seq(0 .. n + 1)
  <2> SUFFICES ASSUME NEW x \in Seq(0 .. n) PROVE x \in Seq(0 .. n + 1)
    OBVIOUS
  <2>1. Len(x) \in Nat /\ x \in [1 .. Len(x) -> 0 .. n]
    OBVIOUS
  <2>2. x \in [1 .. Len(x) -> 0 .. n + 1]
    BY <2>1
  <2>3. QED
    BY <2>1, <2>2
<1>5. CASE h = Invalid
  <2>1. t = Pair(o, d)
    BY <1>1, <1>2, <1>5, Zenon DEF Wrote, WriteFile
  <2>2. t.obj = o /\ t.disk = d
    BY <2>1, PairFacts
  <2>3. DiskOK(d, n + 1) /\ Over(d, d, o, len) /\ Cellwise(d, d, o, n, len) /\ SameMarks(o, o)
    BY <1>2, <1>4, <1>5 DEF DiskOK, Over, Cellwise, SameMarks
  <2>4. QED
    BY <1>2, <1>5, <2>1, <2>2, <2>3
<1>6. CASE h # Invalid
  <2>1. PICK q \in Seq(0 .. n) : q = d[h]
    BY <1>2, <1>6 DEF DiskOK
  <2>2. PICK size \in Nat : size = FileSize(d, h) /\ size = Len(q)
    BY <1>2, <1>6, <2>1 DEF FileSize
  <2>3. PICK m \in Nat : m = Max({size, p + len}) /\ m >= size /\ m >= p + len
                         /\ m \in {size, p + len}
    <3>1. p + len \in Nat
      OBVIOUS
    <3>2. QED
      BY <3>1, MaxFacts
  <2>4. PICK w : w = [i \in 1 .. m |-> IF i > p /\ i <= p + len THEN n + 1
                                       ELSE IF i <= size THEN q[i] ELSE 0]
    OBVIOUS
  <2>5. w \in [1 .. m -> 0 .. n + 1]
    <3>1. \A i \in 1 .. size : q[i] \in 0 .. n
      BY <2>2
    <3>2. QED
      BY <2>4, <3>1
  <2>6. w \in Seq(0 .. n + 1) /\ Len(w) = m
    BY <2>5
  <2>7. PICK e : e = [d EXCEPT ![h] = w]
    OBVIOUS
  <2>8. PICK r : r = [o EXCEPT !.pointer = p + len]
    OBVIOUS
  <2>9. t = Pair(r, e)
    <3> DEFINE s == Pair(o, d)
               over == [i \in 1 .. Max({FileSize(s.disk, s.obj.m_hFile), s.obj.pointer + len}) |->
                          IF i > s.obj.pointer /\ i <= s.obj.pointer + len THEN n + 1
                          ELSE IF i <= FileSize(s.disk, s.obj.m_hFile)
                               THEN s.disk[s.obj.m_hFile][i] ELSE 0]
    <3>1. s.obj.m_hFile = h /\ s.obj.pointer = p /\ s.disk = d
      BY <1>1, <1>2, <1>3, Zenon
    <3>2. t = [s EXCEPT !.disk[s.obj.m_hFile] = over, !.obj.pointer = s.obj.pointer + len]
      BY <1>6, <3>1, Zenon DEF Wrote, WriteFile
    <3>3. over = w
      BY <2>1, <2>2, <2>3, <2>4, <3>1
    <3> HIDE DEF over
    <3>4. t = [s EXCEPT !.disk[h] = w, !.obj.pointer = p + len]
      BY <3>1, <3>2, <3>3, Zenon
    <3>5. QED
      BY <2>7, <2>8, <3>4 DEF Pair
  <2>10. t.obj = r /\ t.disk = e
    BY <2>9, PairFacts
  <2>11. /\ r \in ObjRec /\ r.m_hFile = o.m_hFile /\ r.m_strCurFile = o.m_strCurFile
         /\ r.m_tmClear = o.m_tmClear /\ r.pointer = p + len /\ SameMarks(r, o)
    <3>1. p + len \in Nat
      OBVIOUS
    <3>2. QED
      BY <2>8, <3>1, MovePointer, Zenon
  <2>12. /\ DOMAIN e = DOMAIN d /\ e[h] = w /\ \A k \in DOMAIN d : k # h => e[k] = d[k]
    BY <1>2, <1>6, <2>7
  <2>13. DiskOK(e, n + 1)
    BY <1>4, <2>6, <2>12 DEF DiskOK
  <2>14. p = Len(q) => Len(w) = p + len /\ \A i \in 1 .. p : w[i] = q[i]
    <3> SUFFICES ASSUME p = Len(q)
                 PROVE  Len(w) = p + len /\ \A i \in 1 .. p : w[i] = q[i]
      OBVIOUS
    <3>1. m = p + len
      BY <2>2, <2>3
    <3>2. ASSUME NEW i \in 1 .. p PROVE w[i] = q[i]
      <4>1. i \in 1 .. m /\ ~(i > p) /\ i <= size
        BY <2>2, <3>1
      <4>2. QED
        BY <2>4, <4>1, Zenon
    <3>3. QED
      BY <2>6, <3>1, <3>2
  <2>15. Over(e, d, o, len)
    BY <1>2, <1>3, <2>1, <2>12, <2>14 DEF Over
  <2>16. Cellwise(e, d, o, n, len)
    BY <1>2, <1>3, <2>1, <2>2, <2>3, <2>4, <2>6, <2>12 DEF Cellwise
  <2>17. QED
    BY <1>2, <1>3, <1>6, <2>9, <2>10, <2>11, <2>13, <2>15, <2>16
<1>7. QED
  BY <1>5, <1>6

-----------------------------------------------------------------------------
(* One record: o and d are the members and the directory between           *)
(* InitLogFile and WriteFile.                                              *)
Recorded(o, d, len, ok) ==
    /\ ReadyOK(o, d, ok) /\ Over(disk', d, o, len) /\ DiskOK(disk', Len(log) + 1)
    /\ Cellwise(disk', d, o, Len(log), len)
    /\ obj'.m_dwCurPos = o.m_dwCurPos /\ obj'.m_dwFilePos = o.m_dwFilePos + len
    /\ log' = Append(log, [at |-> now, len |-> len, file |-> o.m_hFile])
    /\ obj' \in ObjRec
    /\ obj'.m_hFile = IF conf.m_bDelFlag THEN NULL ELSE o.m_hFile
    /\ obj'.m_strCurFile = o.m_strCurFile /\ obj'.m_tmClear = o.m_tmClear
    /\ obj'.pointer = IF o.m_hFile = Invalid THEN o.pointer ELSE o.pointer + len
    /\ UNCHANGED <<now, conf, born, starts>>

(* WriteLog opens, writes and closes. *)
LEMMA WriteStep ==
    ASSUME LogInv, NEW len \in Lengths, NEW ok \in BOOLEAN, WriteLog(len, ok)
    PROVE  \E o, d : Recorded(o, d, len, ok)
<1>1. PICK n \in Nat : n = Len(log)
  BY DEF LogInv, LogTypes
<1>2. PICK ready : ready = InitLogFile(Pair(obj, disk), ok)
  OBVIOUS
<1>3. ready = Pair(ready.obj, ready.disk) /\ ReadyOK(ready.obj, ready.disk, ok)
  BY <1>2, Ready
<1>4. PICK o, d : o = ready.obj /\ d = ready.disk
  OBVIOUS
<1>5. ready = Pair(o, d) /\ ReadyOK(o, d, ok)
  BY <1>3, <1>4, Zenon
<1>6. PICK t : t = WriteFile(Pair(o, d), n + 1, len) /\ Wrote(t, o, d, n, len)
  BY Zenon DEF Wrote
<1>7. /\ o \in ObjRec /\ DiskOK(d, n) /\ len \in Nat
      /\ o.m_hFile = Invalid \/ o.m_hFile \in DOMAIN d
  BY <1>1, <1>5, LogAssumption DEF ReadyOK, HandleOK
<1>8. /\ t = Pair(t.obj, t.disk) /\ DiskOK(t.disk, n + 1) /\ Over(t.disk, d, o, len)
      /\ Cellwise(t.disk, d, o, n, len) /\ SameMarks(t.obj, o)
      /\ t.obj \in ObjRec /\ t.obj.m_hFile = o.m_hFile
      /\ t.obj.m_strCurFile = o.m_strCurFile /\ t.obj.m_tmClear = o.m_tmClear
      /\ t.obj.pointer = IF o.m_hFile = Invalid THEN o.pointer ELSE o.pointer + len
  BY <1>6, <1>7, WriteFileFacts
<1>9. /\ disk' = t.disk
      /\ obj' = CloseAfter([t.obj EXCEPT !.m_dwFilePos = t.obj.m_dwFilePos + len])
      /\ log' = Append(log, [at |-> now, len |-> len, file |-> o.m_hFile])
      /\ UNCHANGED <<now, conf, born, starts>>
  <2>1. ready = InitLogFile([obj |-> obj, disk |-> disk], ok)
    BY <1>2, Zenon DEF Pair
  <2>2. t = WriteFile(ready, Len(log) + 1, len)
    BY <1>1, <1>5, <1>6, Zenon
  <2>3. QED
    BY <1>4, <2>1, <2>2, Zenon DEF WriteLog
<1>10. PICK a : a = t.obj
  OBVIOUS
<1>11. PICK k \in Nat : k = a.m_dwFilePos + len
  BY <1>7, <1>8, <1>10 DEF ObjRec
<1>12. PICK b : b = [a EXCEPT !.m_dwFilePos = k]
  OBVIOUS
<1>13. /\ b \in ObjRec /\ b.m_hFile = a.m_hFile /\ b.m_strCurFile = a.m_strCurFile
       /\ b.m_tmClear = a.m_tmClear /\ b.pointer = a.pointer
       /\ b.m_dwCurPos = a.m_dwCurPos /\ b.m_dwFilePos = k
  BY <1>8, <1>10, <1>12 DEF ObjRec
<1>14. PICK c : c = [b EXCEPT !.m_hFile = NULL]
  OBVIOUS
<1>15. /\ c \in ObjRec /\ c.m_hFile = NULL /\ c.m_strCurFile = a.m_strCurFile
       /\ c.m_tmClear = a.m_tmClear /\ c.pointer = a.pointer
       /\ c.m_dwCurPos = a.m_dwCurPos /\ c.m_dwFilePos = k
  BY <1>13, <1>14 DEF ObjRec
<1>16. obj' = IF conf.m_bDelFlag THEN c ELSE b
  BY <1>9, <1>10, <1>11, <1>12, <1>14, Zenon DEF CloseAfter
<1>17. /\ obj' \in ObjRec
       /\ obj'.m_hFile = IF conf.m_bDelFlag THEN NULL ELSE o.m_hFile
       /\ obj'.m_strCurFile = o.m_strCurFile /\ obj'.m_tmClear = o.m_tmClear
       /\ obj'.pointer = IF o.m_hFile = Invalid THEN o.pointer ELSE o.pointer + len
  <2>1. CASE conf.m_bDelFlag
    BY <1>8, <1>10, <1>15, <1>16, <2>1
  <2>2. CASE ~conf.m_bDelFlag
    BY <1>8, <1>10, <1>13, <1>16, <2>2
  <2>3. QED
    BY <2>1, <2>2
<1>18. /\ DiskOK(disk', Len(log) + 1) /\ Over(disk', d, o, len)
       /\ Cellwise(disk', d, o, Len(log), len)
  BY <1>1, <1>8, <1>9, Zenon
<1>19. obj'.m_dwCurPos = o.m_dwCurPos /\ obj'.m_dwFilePos = o.m_dwFilePos + len
  <2>1. a.m_dwCurPos = o.m_dwCurPos /\ k = o.m_dwFilePos + len
    BY <1>8, <1>10, <1>11 DEF SameMarks
  <2>2. QED
    BY <1>13, <1>15, <1>16, <2>1
<1>20. Recorded(o, d, len, ok)
  BY <1>5, <1>9, <1>17, <1>18, <1>19, Zenon DEF Recorded
<1>21. QED
  BY <1>20

(* A record keeps the invariant. *)
LEMMA RecordedInv ==
    ASSUME LogInv, NEW len \in Lengths, NEW ok \in BOOLEAN, NEW o, NEW d,
           Recorded(o, d, len, ok), faults' \in 0 .. MaxFaults
    PROVE  LogInv'
<1>1. PICK r : r = [at |-> now, len |-> len, file |-> o.m_hFile]
  OBVIOUS
<1>2. /\ o \in ObjRec /\ o.m_hFile # NULL /\ HandleOK(o, d) /\ ClearedOK(o, d)
      /\ o.m_hFile \in Dated => o.m_hFile[1] = Day(now)
  BY DEF Recorded, ReadyOK
<1>3. r \in LogRec /\ r.at = now /\ r.file = o.m_hFile
  BY <1>1, <1>2 DEF LogRec, ObjRec, LogInv, LogTypes
<1>4. /\ log' = Append(log, r) /\ UNCHANGED <<now, conf, born, starts>>
      /\ obj' \in ObjRec /\ DiskOK(disk', Len(log) + 1) /\ Over(disk', d, o, len)
      /\ obj'.m_hFile = IF conf.m_bDelFlag THEN NULL ELSE o.m_hFile
      /\ obj'.m_strCurFile = o.m_strCurFile /\ obj'.m_tmClear = o.m_tmClear
      /\ obj'.pointer = IF o.m_hFile = Invalid THEN o.pointer ELSE o.pointer + len
  BY <1>1, Zenon DEF Recorded
<1>5. PICK l, m : l = log /\ m = log'
  OBVIOUS
<1>6. /\ m \in Seq(LogRec) /\ Len(m) = Len(l) + 1 /\ m[Len(l) + 1] = r
      /\ DOMAIN m = DOMAIN l \cup {Len(l) + 1} /\ \A i \in DOMAIN l : m[i] = l[i]
  <2>1. l \in Seq(LogRec)
    BY <1>5 DEF LogInv, LogTypes
  <2>2. m = Append(l, r)
    BY <1>4, <1>5
  <2>3. QED
    BY <1>3, <2>1, <2>2
<1>7. LogTypes'
  <2>1. DiskOK(disk', Len(log'))
    BY <1>4, <1>5, <1>6
  <2>2. born \in 0 .. Len(log')
    BY <1>5, <1>6 DEF LogInv, LogTypes
  <2>3. QED
    BY <1>4, <1>5, <1>6, <2>1, <2>2 DEF LogInv, LogTypes, DiskOK
<1>8. ~Fresh'
  BY <1>4, <1>5, <1>6 DEF LogInv, LogTypes, Fresh
<1>9. conf'.m_bDelFlag => obj'.m_hFile = NULL
  BY <1>4
<1>10. HandleOK(obj, disk)'
  <2>1. CASE conf.m_bDelFlag \/ o.m_hFile = Invalid
    BY <1>4, <2>1 DEF HandleOK
  <2>2. CASE ~conf.m_bDelFlag /\ o.m_hFile # Invalid
    <3>1. o.m_hFile \in DOMAIN disk' /\ obj'.m_hFile = o.m_hFile
      BY <1>2, <1>4, <2>2 DEF HandleOK, Over
    <3>2. CASE conf.m_bOnlyFile
      BY <1>2, <1>4, <2>2, <3>1, <3>2, Zenon DEF HandleOK
    <3>3. CASE ~conf.m_bOnlyFile
      <4>1. o.m_hFile = o.m_strCurFile /\ o.m_hFile \in Dated /\ o.pointer = Len(d[o.m_hFile])
        BY <1>2, <2>2, <3>3, Zenon DEF HandleOK
      <4>2. obj'.pointer = Len(disk'[o.m_hFile])
        BY <1>4, <2>2, <4>1 DEF Over
      <4>3. QED
        BY <1>4, <3>1, <3>3, <4>1, <4>2, Zenon DEF HandleOK
    <3>4. QED
      BY <3>2, <3>3
  <2>3. QED
    BY <2>1, <2>2
<1>11. ClearedOK(obj, disk)'
  BY <1>2, <1>4 DEF ClearedOK, NoneOld, Over
<1>12. DatedByName'
  BY <1>2, <1>3, <1>5, <1>6 DEF LogInv, DatedByName
<1>13. QED
  BY <1>7, <1>8, <1>9, <1>10, <1>11, <1>12 DEF LogInv

-----------------------------------------------------------------------------
(* The constructor makes an object that has no file yet. *)
LEMMA ConstructedFacts ==
    ASSUME NEW c, NEW o, Constructed(c, o)
    PROVE  c \in ConfRec /\ o \in ObjRec /\ o.m_hFile = NULL /\ o.m_tmClear = 0
BY LogAssumption DEF Constructed, ConfRec, ObjRec

(* The first process begins with an empty directory. *)
LEMMA LogInit == Init => LogInv
<1> SUFFICES ASSUME Init PROVE LogInv
  OBVIOUS
<1>1. Constructed(conf, obj) /\ log = <<>> /\ disk = <<>> /\ born = 0 /\ starts = 1
      /\ faults = 0 /\ now \in Times
  BY DEF Init
<1>2. PICK c, o : c = conf /\ o = obj
  OBVIOUS
<1>3. conf \in ConfRec /\ obj \in ObjRec /\ obj.m_hFile = NULL /\ obj.m_tmClear = 0
  <2>1. Constructed(c, o)
    BY <1>1, <1>2, Zenon
  <2>2. QED
    BY <1>2, <2>1, ConstructedFacts
<1>4. log \in Seq(LogRec) /\ Len(log) = 0 /\ DOMAIN log = {} /\ DOMAIN disk = {}
  BY <1>1
<1>5. QED
  BY <1>1, <1>3, <1>4, LogAssumption
     DEF LogInv, LogTypes, DiskOK, HandleOK, ClearedOK, DatedByName

(* The setters, called before the first record, keep the invariant. *)
LEMMA ConfigureInv ==
    ASSUME LogInv, NEW c \in ConfRec, Configure(c)
    PROVE  LogInv'
BY DEF Configure, LogInv, LogTypes, Fresh, HandleOK, ClearedOK, DatedByName, DiskOK

(* A member of the settings can be replaced by a value of its type. *)
LEMMA ConfWith ==
    ASSUME NEW c \in ConfRec
    PROVE  /\ \A flag \in BOOLEAN : [c EXCEPT !.m_bDelFlag = flag] \in ConfRec
           /\ \A a \in 1 .. 24 : [c EXCEPT !.m_iDayFileCount = a] \in ConfRec
           /\ \A b \in 1 .. 365 : [c EXCEPT !.m_iLogDayCount = b] \in ConfRec
<1>1. PICK S, T : S = 1 .. 24 /\ T = 1 .. 365
  OBVIOUS
<1>2. ConfRec = [m_bOnlyFile : BOOLEAN, m_bDelFlag : BOOLEAN, m_dwLogFileSize : Nat,
                 m_iDayFileCount : S, m_iLogDayCount : T]
  BY <1>1 DEF ConfRec
<1>3. \A flag \in BOOLEAN : [c EXCEPT !.m_bDelFlag = flag] \in ConfRec
  BY <1>2
<1>4. \A a \in S : [c EXCEPT !.m_iDayFileCount = a] \in ConfRec
  BY <1>2
<1>5. \A b \in T : [c EXCEPT !.m_iLogDayCount = b] \in ConfRec
  BY <1>2
<1>6. QED
  BY <1>1, <1>3, <1>4, <1>5

(* So does each of them. *)
LEMMA SettersInv ==
    ASSUME LogInv,
           \/ \E single \in BOOLEAN : InitLogType(single)
           \/ SetSavePath
           \/ \E kb \in SizesKB : SetFileSizeForSingle(kb)
           \/ \E count \in Counts, days \in Days : SetLogFileCountForMulit(count, days)
    PROVE  LogInv'
<1>1. PICK c : c = conf
  OBVIOUS
<1>2. c \in ConfRec
  BY <1>1 DEF LogInv, LogTypes
<1>3. CASE \E single \in BOOLEAN : InitLogType(single)
  <2>1. PICK single \in BOOLEAN : InitLogType(single)
    BY <1>3
  <2>2. PICK e : e = [c EXCEPT !.m_bOnlyFile = single]
    OBVIOUS
  <2>3. e \in ConfRec
    BY <1>2, <2>2 DEF ConfRec
  <2>4. Configure(e)
    BY <1>1, <2>1, <2>2, Zenon DEF InitLogType
  <2>5. QED
    BY <2>3, <2>4, ConfigureInv
<1>4. CASE SetSavePath
  <2>1. PICK e : e = [c EXCEPT !.m_bDelFlag = TRUE]
    OBVIOUS
  <2>2. e \in ConfRec
    BY <1>2, <2>1, ConfWith
  <2>3. Configure(e)
    BY <1>1, <1>4, <2>1, Zenon DEF SetSavePath
  <2>4. QED
    BY <2>2, <2>3, ConfigureInv
<1>5. CASE \E kb \in SizesKB : SetFileSizeForSingle(kb)
  <2>1. PICK kb \in SizesKB : SetFileSizeForSingle(kb)
    BY <1>5
  <2>2. PICK e : e = [c EXCEPT !.m_dwLogFileSize = kb]
    OBVIOUS
  <2>3. kb \in Nat
    BY LogAssumption
  <2>4. e \in ConfRec
    BY <1>2, <2>2, <2>3 DEF ConfRec
  <2>5. Configure(e)
    BY <1>1, <2>1, <2>2, Zenon DEF SetFileSizeForSingle
  <2>6. QED
    BY <2>4, <2>5, ConfigureInv
<1>6. CASE \E count \in Counts, days \in Days : SetLogFileCountForMulit(count, days)
  <2>1. PICK count \in Counts, days \in Days : SetLogFileCountForMulit(count, days)
    BY <1>6
  <2>2. count \in Nat /\ days \in Nat
    BY LogAssumption
  <2>3. PICK a, b : /\ a = IF CountAccepted(count) THEN count ELSE c.m_iDayFileCount
                    /\ b = IF days > 0 /\ days < 366 THEN days ELSE c.m_iLogDayCount
    OBVIOUS
  <2>4. a \in 1 .. 24 /\ b \in 1 .. 365
    BY <1>2, <2>2, <2>3 DEF ConfRec, CountAccepted
  <2>5. PICK e : e = [[c EXCEPT !.m_iDayFileCount = a] EXCEPT !.m_iLogDayCount = b]
    OBVIOUS
  <2>6. e \in ConfRec
    BY <1>2, <2>4, <2>5, ConfWith
  <2>7. e = [conf EXCEPT
                !.m_iDayFileCount = IF CountAccepted(count) THEN count ELSE @,
                !.m_iLogDayCount = IF days > 0 /\ days < 366 THEN days ELSE @]
    BY <1>1, <1>2, <2>3, <2>5 DEF ConfRec
  <2>8. Configure(e)
    BY <2>1, <2>7, Zenon DEF SetLogFileCountForMulit
  <2>9. QED
    BY <2>6, <2>8, ConfigureInv
<1>7. QED
  BY <1>3, <1>4, <1>5, <1>6

(* A new process begins without a file, whatever the old one left. *)
LEMMA RestartInv == ASSUME LogInv, Restart PROVE LogInv'
<1>1. PICK c, o : c = conf' /\ o = obj'
  OBVIOUS
<1>2. conf' \in ConfRec /\ obj' \in ObjRec /\ obj'.m_hFile = NULL /\ obj'.m_tmClear = 0
  <2>1. Constructed(c, o)
    BY <1>1, Zenon DEF Restart
  <2>2. QED
    BY <1>1, <2>1, ConstructedFacts
<1>3. /\ UNCHANGED <<now, disk, log, faults>>
      /\ born' = Len(log) /\ starts' = starts + 1 /\ starts < MaxStarts
  BY DEF Restart
<1>4. born' \in 0 .. Len(log') /\ starts' \in 1 .. MaxStarts
  BY <1>3, LogAssumption DEF LogInv, LogTypes
<1>5. QED
  BY <1>2, <1>3, <1>4 DEF LogInv, LogTypes, HandleOK, ClearedOK, DatedByName, DiskOK

(* A step is a record, or leaves the directory and the log alone. *)
LEMMA StepKinds ==
    ASSUME LogInv, [Next]_logvars
    PROVE  \/ /\ \E len \in Lengths, ok \in BOOLEAN : \E o, d : Recorded(o, d, len, ok)
                     /\ faults' = IF ok THEN faults ELSE faults + 1
              /\ LogInv'
           \/ UNCHANGED <<disk, log>> /\ LogInv'
<1>1. CASE \E len \in Lengths : WritLog(len)
  <2>1. PICK len \in Lengths : WriteLog(len, TRUE) /\ faults' = faults
    BY <1>1, Zenon DEF WritLog
  <2>2. PICK o, d : Recorded(o, d, len, TRUE)
    BY <2>1, WriteStep
  <2>3. LogInv'
    BY <2>1, <2>2, RecordedInv DEF LogInv, LogTypes
  <2>4. QED
    BY <2>1, <2>2, <2>3, Zenon
<1>2. CASE \E len \in Lengths : WritLogFails(len)
  <2>1. PICK len \in Lengths : /\ WriteLog(len, FALSE) /\ faults < MaxFaults
                               /\ faults' = faults + 1
    BY <1>2, Zenon DEF WritLogFails
  <2>2. PICK o, d : Recorded(o, d, len, FALSE)
    BY <2>1, WriteStep
  <2>3. faults' \in 0 .. MaxFaults
    BY <2>1, LogAssumption DEF LogInv, LogTypes
  <2>4. LogInv'
    BY <2>2, <2>3, RecordedInv
  <2>5. QED
    BY <2>1, <2>2, <2>4, Zenon
<1>3. CASE \/ \E single \in BOOLEAN : InitLogType(single)
           \/ SetSavePath
           \/ \E kb \in SizesKB : SetFileSizeForSingle(kb)
           \/ \E count \in Counts, days \in Days : SetLogFileCountForMulit(count, days)
  <2>1. LogInv'
    BY <1>3, SettersInv
  <2>2. UNCHANGED <<disk, log>>
    BY <1>3 DEF InitLogType, SetSavePath, SetFileSizeForSingle, SetLogFileCountForMulit,
                Configure
  <2>3. QED
    BY <2>1, <2>2
<1>4. CASE Restart
  BY <1>4, RestartInv DEF Restart
<1>5. CASE \E t \in Times : SetClock(t)
  BY <1>5 DEF SetClock, LogInv, LogTypes, Fresh, HandleOK, ClearedOK, NoneOld, DatedByName, DiskOK
<1>6. CASE UNCHANGED logvars
  BY <1>6 DEF logvars, LogInv, LogTypes, Fresh, HandleOK, ClearedOK, NoneOld, DatedByName, DiskOK
<1>7. QED
  BY <1>1, <1>2, <1>3, <1>4, <1>5, <1>6 DEF Next

(* LogInv is an invariant. *)
LEMMA LogInvariant == Spec => []LogInv
<1>1. LogInv /\ [Next]_logvars => LogInv'
  BY StepKinds
<1>2. QED
  BY <1>1, LogInit, PTL DEF Spec

-----------------------------------------------------------------------------
(* Induction over the numbers, for a set: the number that is smallest       *)
(* outside S contradicts the step.                                         *)
LEMMA NatSetInduction ==
    ASSUME NEW S, 0 \in S, \A n \in Nat : n \in S => n + 1 \in S
    PROVE  Nat \subseteq S
<1>1. SUFFICES ASSUME Nat \ S # {} PROVE FALSE
  OBVIOUS
<1>2. PICK R : R = OpToRel(<, Nat)
  OBVIOUS
<1>3. IsWellFoundedOn(R, Nat)
  BY <1>2, NatLessThanWellFounded
<1>4. PICK x \in Nat \ S : \A y \in Nat \ S : ~ (<<y, x>> \in R)
  BY <1>1, <1>3, WFMin
<1>5. x # 0 /\ x - 1 \in Nat
  BY <1>4
<1>6. <<x - 1, x>> \in R
  BY <1>2, <1>5 DEF OpToRel
<1>7. QED
  BY <1>4, <1>5, <1>6

(* Induction over the subsets of a finite set, likewise.                   *)
LEMMA SubsetInduction ==
    ASSUME NEW S, IsFiniteSet(S), NEW P,
           \A s \in SUBSET S : (\A t \in SUBSET s : t # s => t \in P) => s \in P
    PROVE  SUBSET S \subseteq P
<1>1. SUFFICES ASSUME (SUBSET S) \ P # {} PROVE FALSE
  OBVIOUS
<1>2. PICK R, F : R = StrictSubsetOrdering(S) /\ F = FiniteSubsetsOf(S)
  OBVIOUS
<1>3. IsWellFoundedOn(R, F)
  BY <1>2, FS_StrictSubsetOrderingWellFounded
<1>4. F = SUBSET S
  BY <1>2, FS_FiniteSubsetsOfFinite
<1>5. PICK s \in (SUBSET S) \ P : \A t \in (SUBSET S) \ P : ~ (<<t, s>> \in R)
  <2>1. PICK T : T = (SUBSET S) \ P
    OBVIOUS
  <2>2. T \subseteq F /\ T # {}
    BY <1>1, <1>4, <2>1
  <2>3. \E x \in T : \A y \in T : ~ (<<y, x>> \in R)
    BY <1>3, <2>2, WFMin
  <2>4. QED
    BY <2>1, <2>3
<1>6. PICK t \in SUBSET s : t # s /\ t \notin P
  BY <1>5
<1>7. <<t, s>> \in R
  BY <1>2, <1>6 DEF StrictSubsetOrdering
<1>8. QED
  BY <1>5, <1>6, <1>7

(* MapThenSumSet takes the numbers of a set one by one: g says what is      *)
(* left after each.                                                        *)
SumStep(g, l, s) ==
    IF s = {} THEN 0 ELSE l[CHOOSE x \in s : TRUE].len + g[s \ {CHOOSE x \in s : TRUE}]

(* g is the function MapThenSumSet chooses for the set S. *)
IsSum(g, l, S) == g = [s \in SUBSET S |-> SumStep(g, l, s)]

(* There is such a function. *)
LEMMA SumExists ==
    ASSUME NEW l, NEW S, IsFiniteSet(S)
    PROVE  \E g : IsSum(g, l, S)
<1> DEFINE Upto(g, n) == \A s \in SUBSET S : Cardinality(s) <= n => g[s] = SumStep(g, l, s)
           N == {n \in Nat : \E g : Upto(g, n)}
<1>1. \A s \in SUBSET S : IsFiniteSet(s) /\ Cardinality(s) \in Nat
                            /\ (Cardinality(s) = 0 <=> s = {})
  BY FS_Subset, FS_CardinalityType, FS_EmptySet
<1>2. 0 \in N
  <2>1. PICK g : g = [s \in SUBSET S |-> 0]
    OBVIOUS
  <2>2. Upto(g, 0)
    BY <1>1, <2>1 DEF SumStep
  <2>3. QED
    BY <2>2
<1>3. ASSUME NEW n \in Nat, n \in N PROVE n + 1 \in N
  <2>1. PICK g : Upto(g, n)
    BY <1>3
  <2>2. PICK h : h = [s \in SUBSET S |-> SumStep(g, l, s)]
    OBVIOUS
  <2>3. ASSUME NEW s \in SUBSET S, Cardinality(s) <= n + 1 PROVE h[s] = SumStep(h, l, s)
    <3>1. CASE s = {}
      BY <2>2, <3>1 DEF SumStep
    <3>2. CASE s # {}
      <4>1. PICK x \in s : x = CHOOSE y \in s : TRUE
        BY <3>2
      <4>2. s \ {x} \in SUBSET S /\ Cardinality(s \ {x}) <= n
        BY <1>1, <2>3, <4>1, FS_RemoveElement
      <4>3. h[s \ {x}] = SumStep(g, l, s \ {x}) /\ g[s \ {x}] = SumStep(g, l, s \ {x})
        BY <2>1, <2>2, <4>2
      <4>4. h[s] = l[x].len + g[s \ {x}]
        BY <2>2, <3>2, <4>1 DEF SumStep
      <4>5. SumStep(h, l, s) = l[x].len + h[s \ {x}]
        BY <3>2, <4>1 DEF SumStep
      <4>6. QED
        BY <4>3, <4>4, <4>5
    <3>3. QED
      BY <3>1, <3>2
  <2>4. Upto(h, n + 1)
    BY <2>3
  <2>5. QED
    BY <2>4
<1>4. Nat \subseteq N
  <2> HIDE DEF N
  <2>1. QED
    BY <1>2, <1>3, NatSetInduction
<1>5. PICK g : Upto(g, Cardinality(S))
  BY <1>1, <1>4
<1>6. PICK h : h = [s \in SUBSET S |-> g[s]]
  OBVIOUS
<1>7. \A s \in SUBSET S : g[s] = SumStep(g, l, s)
  BY <1>1, <1>5, FS_Subset
<1>8. ASSUME NEW s \in SUBSET S PROVE SumStep(g, l, s) = SumStep(h, l, s)
  BY <1>6 DEF SumStep
<1>9. h = [s \in SUBSET S |-> SumStep(h, l, s)]
  BY <1>6, <1>7, <1>8
<1>10. QED
  BY <1>9 DEF IsSum

(* The cells of the records numbered in S. *)
SumOver(l, S) == MapThenSumSet(LAMBDA k : l[k].len, S)

(* SumOver is the value of such a function. *)
LEMMA SumByDef ==
    ASSUME NEW l, NEW S, IsFiniteSet(S)
    PROVE  \E g : IsSum(g, l, S) /\ SumOver(l, S) = g[S]
<1>1. PICK h : h = CHOOSE g : IsSum(g, l, S)
  OBVIOUS
<1>2. IsSum(h, l, S)
  BY <1>1, SumExists
<1>3. SumOver(l, S) = (CHOOSE g : IsSum(g, l, S))[S]
  BY DEF SumOver, MapThenSumSet, MapThenFoldSet, IsSum, SumStep
<1>4. QED
  BY <1>1, <1>2, <1>3

(* Any record may be taken first. *)
AnyFirst(g, l, s) == g[s] \in Nat /\ \A x \in s : g[s] = l[x].len + g[s \ {x}]

(* The order in which the numbers are added does not matter. *)
LEMMA SumChoice ==
    ASSUME NEW l, NEW S, IsFiniteSet(S), \A x \in S : l[x].len \in Nat, NEW g, IsSum(g, l, S)
    PROVE  \A s \in SUBSET S : AnyFirst(g, l, s)
<1> DEFINE Good(s) == g[s] \in Nat /\ \A x \in s : g[s] = l[x].len + g[s \ {x}]
           P == {s \in SUBSET S : Good(s)}
<1>1. \A s \in SUBSET S : g[s] = SumStep(g, l, s)
  BY DEF IsSum
<1>2. ASSUME NEW s \in SUBSET S, \A t \in SUBSET s : t # s => t \in P PROVE s \in P
  <2>1. CASE s = {}
    <3>1. SumStep(g, l, s) = 0
      BY <2>1 DEF SumStep
    <3>2. g[s] = 0
      BY <1>1, <3>1
    <3>3. QED
      BY <2>1, <3>2
  <2>2. CASE s # {}
    <3>1. PICK y \in s : y = CHOOSE x \in s : TRUE
      BY <2>2
    <3>2. g[s] = l[y].len + g[s \ {y}]
      BY <1>1, <2>2, <3>1 DEF SumStep
    <3>3. \A x \in s : Good(s \ {x}) /\ l[x].len \in Nat
      BY <1>2
    <3>4. ASSUME NEW x \in s, x # y PROVE g[s] = l[x].len + g[s \ {x}]
      <4>1. PICK u : u = (s \ {y}) \ {x}
        OBVIOUS
      <4>2. u = (s \ {x}) \ {y} /\ u \in P
        BY <1>2, <4>1, <3>4
      <4>3. g[s \ {y}] = l[x].len + g[u] /\ g[s \ {x}] = l[y].len + g[u]
        BY <3>3, <3>4, <4>1, <4>2
      <4>4. g[u] \in Nat
        BY <4>2
      <4>5. QED
        BY <3>2, <3>3, <4>3, <4>4
    <3>5. g[s] \in Nat
      BY <3>2, <3>3
    <3>6. QED
      BY <3>2, <3>4, <3>5
  <2>3. QED
    BY <2>1, <2>2
<1>3. SUBSET S \subseteq P
  <2> HIDE DEF P
  <2>1. QED
    BY <1>2, SubsetInduction
<1>4. QED
  BY <1>3 DEF AnyFirst

(* Two sums of the same numbers are equal. *)
LEMMA SumAgrees ==
    ASSUME NEW l, NEW S, NEW g, IsSum(g, l, S), NEW m, NEW T, NEW h, IsSum(h, m, T),
           IsFiniteSet(T), T \subseteq S, \A x \in T : l[x].len = m[x].len
    PROVE  g[T] = h[T]
<1> DEFINE P == {s \in SUBSET T : g[s] = h[s]}
<1>1. \A s \in SUBSET T : g[s] = SumStep(g, l, s) /\ h[s] = SumStep(h, m, s)
  BY DEF IsSum
<1>2. ASSUME NEW s \in SUBSET T, \A t \in SUBSET s : t # s => t \in P PROVE s \in P
  <2>1. CASE s = {}
    BY <1>1, <2>1 DEF SumStep
  <2>2. CASE s # {}
    <3>1. PICK x \in s : x = CHOOSE y \in s : TRUE
      BY <2>2
    <3>2. g[s] = l[x].len + g[s \ {x}] /\ h[s] = m[x].len + h[s \ {x}]
      BY <1>1, <2>2, <3>1 DEF SumStep
    <3>3. g[s \ {x}] = h[s \ {x}]
      BY <1>2
    <3>4. QED
      BY <3>2, <3>3
  <2>3. QED
    BY <2>1, <2>2
<1>3. SUBSET T \subseteq P
  <2> HIDE DEF P
  <2>1. QED
    BY <1>2, SubsetInduction
<1>4. QED
  BY <1>3

(* m is the log l of n records and one more. *)
OneMore(l, m, n) ==
    /\ \A k \in 1 .. n : l[k].len \in Nat /\ m[k] = l[k]
    /\ m[n + 1].len \in Nat

(* What a record more adds to the cells written since record r. *)
LEMMA SumFacts ==
    ASSUME NEW l, NEW m, NEW n \in Nat, OneMore(l, m, n), NEW r \in 1 .. n + 1
    PROVE  /\ SumOver(l, r .. n) \in Nat
           /\ SumOver(m, r .. n + 1) = SumOver(l, r .. n) + m[n + 1].len
           /\ r = n + 1 => SumOver(l, r .. n) = 0
<1>1. PICK S, T : S = r .. n + 1 /\ T = r .. n
  OBVIOUS
<1>2. IsFiniteSet(S) /\ IsFiniteSet(T)
  <2>1. r \in Int /\ n \in Int /\ n + 1 \in Int
    OBVIOUS
  <2>2. QED
    BY <1>1, <2>1, FS_Interval
<1>3. T = S \ {n + 1} /\ n + 1 \in S /\ T \subseteq S /\ T \in SUBSET S
  BY <1>1
<1>4. PICK g : IsSum(g, m, S) /\ SumOver(m, S) = g[S]
  BY <1>2, SumByDef
<1>5. PICK h : IsSum(h, l, T) /\ SumOver(l, T) = h[T]
  BY <1>2, SumByDef
<1>6. \A k \in S : m[k].len \in Nat
  BY <1>1 DEF OneMore
<1>7. \A k \in T : m[k].len = l[k].len
  BY <1>1 DEF OneMore
<1>8. g[T] = h[T]
  BY <1>2, <1>3, <1>4, <1>5, <1>7, SumAgrees
<1>9. AnyFirst(g, m, S) /\ AnyFirst(g, m, T)
  <2>1. \A s \in SUBSET S : AnyFirst(g, m, s)
    BY <1>2, <1>4, <1>6, SumChoice
  <2>2. QED
    BY <1>3, <2>1
<1>10. g[S] = m[n + 1].len + g[T] /\ g[T] \in Nat
  BY <1>3, <1>9 DEF AnyFirst
<1>11. r = n + 1 => h[T] = 0
  BY <1>1, <1>5 DEF IsSum, SumStep
<1>12. m[n + 1].len \in Nat
  BY DEF OneMore
<1>13. QED
  BY <1>1, <1>4, <1>5, <1>8, <1>10, <1>11, <1>12

-----------------------------------------------------------------------------
(* Record r is whole in the only file, behind cell s, and nowhere else.    *)
At(d, r, s, len) ==
    /\ Single \in DOMAIN d /\ s + len <= Len(d[Single])
    /\ \A i \in 1 .. Len(d[Single]) : d[Single][i] = r <=> i > s /\ i <= s + len

(* The cells behind s are spared by the next total cells that are written  *)
(* at place: they were written in this round, or they lie in the part of   *)
(* the last round that this one, which goes up to mark, has not reached.   *)
Spared(s, len, total, place, mark) ==
    \/ s + len <= place /\ place <= s + total
    \/ mark # 0 /\ place <= s /\ s + len <= mark /\ mark + place <= s + total

(* The mark of a round is beyond the size that was set, and an open file   *)
(* is written at its place.                                                *)
MarksOK(o, d) ==
    /\ o.m_dwCurPos # 0 => /\ o.m_dwCurPos > conf.m_dwLogFileSize
                           /\ FileSize(d, Single) > conf.m_dwLogFileSize
    /\ o.m_hFile = Single => o.pointer = Place(o, d)

(* Record r of log l is in the only file, where it is spared.              *)
Held(r, l, o, d) ==
    \E s \in Nat : /\ At(d, r, s, l[r].len)
                    /\ Spared(s, l[r].len, SumOver(l, r .. Len(l)), Place(o, d), o.m_dwCurPos)

(* The inductive invariant behind NewestKept. *)
NewestInv ==
    /\ LogInv
    /\ Fresh => obj.m_dwCurPos = 0
    /\ conf.m_bOnlyFile =>
          /\ MarksOK(obj, disk)
          /\ \A r \in born + 1 .. Len(log) :
                ~Lost(log, r) /\ SumOver(log, r .. Len(log)) <= conf.m_dwLogFileSize
                    => Held(r, log, obj, disk)

(* The round, with place and mark before it and p and c after: either it   *)
(* goes on, or the next one begins.                                        *)
Rounds(place, mark, limit, p, c) ==
    \/ p = place /\ c = mark
    \/ p = 0 /\ c = place /\ place > limit /\ place >= mark

(* len cells written at p are none of the k cells behind s. *)
Misses(p, len, s, k) == s + k <= p \/ p + len <= s

(* A record of len cells overwrites none of the cells that are spared, and *)
(* what is spared stays so.                                                *)
LEMMA SparedStep ==
    ASSUME NEW s \in Nat, NEW k \in Nat, NEW total \in Nat, NEW len \in Nat, NEW limit \in Nat,
           NEW place \in Nat, NEW mark \in Nat, NEW p \in Nat, NEW c \in Nat,
           k > 0, total + len <= limit, mark # 0 => mark > limit,
           Spared(s, k, total, place, mark), Rounds(place, mark, limit, p, c)
    PROVE  Misses(p, len, s, k) /\ Spared(s, k, total + len, p + len, c)
BY DEF Spared, Rounds, Misses

(* The same when the record is lost. *)
LEMMA SparedLost ==
    ASSUME NEW s \in Nat, NEW k \in Nat, NEW total \in Nat, NEW len \in Nat, NEW limit \in Nat,
           NEW place \in Nat, NEW mark \in Nat, NEW p \in Nat,
           total + len <= limit, mark # 0 => mark > limit /\ p = place + len,
           mark = 0 => p = place, Spared(s, k, total, place, mark)
    PROVE  Spared(s, k, total + len, p, mark)
BY DEF Spared

(* The members that are numbers, and the size of the only file. *)
LEMMA MarkTypes ==
    ASSUME NEW o \in ObjRec, NEW d, NEW n \in Nat, DiskOK(d, n)
    PROVE  /\ o.pointer \in Nat /\ o.m_dwCurPos \in Nat /\ o.m_dwFilePos \in Nat
           /\ FileSize(d, Single) \in Nat /\ Place(o, d) \in Nat
<1>1. o.pointer \in Nat /\ o.m_dwCurPos \in Nat /\ o.m_dwFilePos \in Nat
  BY DEF ObjRec
<1>2. FileSize(d, Single) \in Nat
  BY SizeFacts
<1>3. QED
  BY <1>1, <1>2 DEF Place

(* Round, number by number. *)
LEMMA RoundMarks ==
    ASSUME NEW o \in ObjRec, NEW size \in Nat, conf.m_dwLogFileSize \in Nat,
           o.m_dwCurPos # 0 => /\ o.m_dwCurPos > conf.m_dwLogFileSize
                               /\ size > conf.m_dwLogFileSize
                               /\ o.m_dwFilePos = o.pointer,
           o.m_dwCurPos = 0 => o.pointer = size,
           NEW p, p = Round(o, size)
    PROVE  /\ p.pointer \in Nat /\ p.m_dwCurPos \in Nat
           /\ p.m_dwCurPos # 0 => /\ p.m_dwCurPos > conf.m_dwLogFileSize
                                  /\ size > conf.m_dwLogFileSize
                                  /\ p.m_dwFilePos = p.pointer
           /\ p.m_dwCurPos = 0 => p.pointer = size
           /\ Rounds(o.pointer, o.m_dwCurPos, conf.m_dwLogFileSize, p.pointer, p.m_dwCurPos)
<1>1. PICK limit \in Nat : limit = conf.m_dwLogFileSize
  OBVIOUS
<1>2. PICK k \in Nat, c \in Nat : k = o.pointer /\ c = o.m_dwCurPos
  BY DEF ObjRec
<1>3. CASE size > limit /\ k >= c
  <2>1. PICK q : q = [[[o EXCEPT !.m_dwFilePos = 0] EXCEPT !.m_dwCurPos = k] EXCEPT !.pointer = 0]
    OBVIOUS
  <2>2. q.pointer = 0 /\ q.m_dwCurPos = k /\ q.m_dwFilePos = 0
    BY <2>1 DEF ObjRec
  <2>3. q = NextRound(o)
    BY <1>2, <2>1 DEF NextRound
  <2>4. k > limit /\ ~(size <= limit)
    BY <1>1, <1>2, <1>3
  <2>5. p = q
    BY <1>1, <1>2, <1>3, <2>3, <2>4, Zenon DEF Round
  <2>6. QED
    BY <1>1, <1>2, <1>3, <2>2, <2>4, <2>5 DEF Rounds
<1>4. CASE ~(size > limit /\ k >= c) /\ size <= limit
  <2>1. PICK q : q = [o EXCEPT !.m_dwCurPos = 0]
    OBVIOUS
  <2>2. q.pointer = k /\ q.m_dwCurPos = 0
    BY <1>2, <2>1 DEF ObjRec
  <2>3. p = q
    BY <1>1, <1>2, <1>4, <2>1, Zenon DEF Round
  <2>4. c = 0
    BY <1>1, <1>2, <1>4
  <2>5. QED
    BY <1>1, <1>2, <1>4, <2>2, <2>3, <2>4 DEF Rounds
<1>5. CASE ~(size > limit /\ k >= c) /\ ~(size <= limit)
  <2>1. p = o
    BY <1>1, <1>2, <1>5, Zenon DEF Round
  <2>2. QED
    BY <1>1, <1>2, <1>5, <2>1 DEF Rounds
<1>6. QED
  BY <1>3, <1>4, <1>5

(* What InitLogFile does to the marks of the rounds. *)
LEMMA ReadyMarks ==
    ASSUME LogInv, conf.m_bOnlyFile, MarksOK(obj, disk), NEW ok, NEW o, NEW d, ReadyOK(o, d, ok)
    PROVE  /\ MarksOK(o, d) /\ FileSize(d, Single) = FileSize(disk, Single)
           /\ o.m_hFile = Invalid => /\ Place(o, d) = Place(obj, disk)
                                     /\ o.m_dwCurPos = obj.m_dwCurPos
           /\ o.m_hFile # Invalid =>
                 /\ o.m_hFile = Single
                 /\ o.m_dwCurPos # 0 => o.m_dwFilePos = o.pointer
                 /\ Rounds(Place(obj, disk), obj.m_dwCurPos, conf.m_dwLogFileSize,
                           o.pointer, o.m_dwCurPos)
<1>1. PICK n \in Nat : n = Len(log)
  BY DEF LogInv, LogTypes
<1>2. obj \in ObjRec /\ DiskOK(disk, n) /\ conf.m_dwLogFileSize \in Nat
  BY <1>1 DEF LogInv, LogTypes, ConfRec
<1>3. PICK size \in Nat : size = FileSize(disk, Single)
  BY <1>2, MarkTypes
<1>4. /\ o \in ObjRec /\ SingleMarks(o) /\ FileSize(d, Single) = size
      /\ o.m_hFile # Invalid => o.m_hFile = Single
  BY <1>3, Zenon DEF ReadyOK, HandleOK
<1>5. CASE o.m_hFile = Invalid
  <2>1. /\ o.m_dwCurPos = obj.m_dwCurPos
        /\ obj.m_dwCurPos # 0 => o.m_dwFilePos = obj.m_dwFilePos
    BY <1>4, <1>5, Zenon DEF SingleMarks
  <2>2. Place(o, d) = Place(obj, disk)
    BY <1>3, <1>4, <2>1 DEF Place
  <2>3. MarksOK(o, d)
    BY <1>3, <1>4, <1>5, <2>1, LogAssumption DEF MarksOK
  <2>4. QED
    BY <1>3, <1>4, <1>5, <2>1, <2>2, <2>3
<1>6. CASE o.m_hFile # Invalid
  <2>1. PICK p : RoundFrom(p) /\ o = Round(p, size)
    BY <1>3, <1>4, <1>6, Zenon DEF SingleMarks
  <2>2. /\ p \in ObjRec /\ p.m_dwCurPos = obj.m_dwCurPos /\ p.pointer = Place(obj, disk)
        /\ p.m_dwCurPos # 0 => p.m_dwFilePos = p.pointer
    <3>1. CASE obj.m_hFile = NULL
      BY <2>1, <3>1, Zenon DEF RoundFrom
    <3>2. CASE obj.m_hFile # NULL
      <4>1. p = obj /\ p.m_hFile = Single
        BY <2>1, <3>2, Zenon DEF RoundFrom
      <4>2. obj.pointer = Place(obj, disk)
        BY <4>1, Zenon DEF MarksOK
      <4>3. QED
        BY <1>2, <4>1, <4>2 DEF Place
    <3>3. QED
      BY <3>1, <3>2
  <2>3. p.m_dwCurPos # 0 => /\ p.m_dwCurPos > conf.m_dwLogFileSize
                            /\ size > conf.m_dwLogFileSize
                            /\ p.m_dwFilePos = p.pointer
    BY <1>3, <2>2, Zenon DEF MarksOK
  <2>4. p.m_dwCurPos = 0 => p.pointer = size
    BY <1>3, <2>2, Zenon DEF Place
  <2>5. /\ o.m_dwCurPos # 0 => /\ o.m_dwCurPos > conf.m_dwLogFileSize
                               /\ size > conf.m_dwLogFileSize
                               /\ o.m_dwFilePos = o.pointer
        /\ o.m_dwCurPos = 0 => o.pointer = size
        /\ Rounds(p.pointer, p.m_dwCurPos, conf.m_dwLogFileSize, o.pointer, o.m_dwCurPos)
    BY <1>2, <2>1, <2>2, <2>3, <2>4, RoundMarks
  <2>6. MarksOK(o, d)
    BY <1>4, <2>5 DEF MarksOK, Place
  <2>7. QED
    BY <1>3, <1>4, <1>6, <2>2, <2>5, <2>6
<1>7. QED
  BY <1>5, <1>6

(* The log after one record more. *)
LEMMA AppendFacts ==
    ASSUME LogInv, NEW len \in Lengths, NEW ok, NEW o, NEW d, Recorded(o, d, len, ok),
           NEW n, n = Len(log)
    PROVE  /\ n \in Nat /\ Len(log') = n + 1 /\ len \in Nat /\ len > 0
           /\ log'[n + 1].len = len /\ log'[n + 1].file = o.m_hFile
           /\ \A k \in 1 .. n : log'[k] = log[k] /\ log[k].len \in Nat /\ log[k].len > 0
           /\ born' = born /\ born \in 0 .. n
<1>1. PICK a : a = [at |-> now, len |-> len, file |-> o.m_hFile]
  OBVIOUS
<1>2. a.len = len /\ a.file = o.m_hFile
  BY <1>1
<1>3. log' = Append(log, a) /\ born' = born
  BY <1>1, Zenon DEF Recorded
<1>4. log \in Seq(LogRec) /\ born \in 0 .. n /\ n \in Nat
  BY DEF LogInv, LogTypes
<1>5. PICK l, m : l = log /\ m = log'
  OBVIOUS
<1>6. Len(m) = n + 1 /\ m[n + 1] = a /\ \A k \in 1 .. n : m[k] = l[k] /\ l[k] \in LogRec
  <2>1. l \in Seq(LogRec) /\ m = Append(l, a) /\ n = Len(l)
    BY <1>3, <1>4, <1>5
  <2>2. QED
    BY <2>1
<1>7. \A k \in 1 .. n : l[k].len \in Lengths
  BY <1>6 DEF LogRec
<1>8. \A x \in Lengths : x \in Nat /\ x > 0
  BY LogAssumption
<1>9. QED
  BY <1>2, <1>3, <1>4, <1>5, <1>6, <1>7, <1>8

(* The cells written since an older record, after one record more.         *)
LEMMA TotalGrows ==
    ASSUME LogInv, NEW len \in Lengths, NEW ok, NEW o, NEW d, Recorded(o, d, len, ok),
           NEW n, n = Len(log), NEW r \in 1 .. n + 1
    PROVE  /\ SumOver(log, r .. n) \in Nat
           /\ SumOver(log', r .. n + 1) = SumOver(log, r .. n) + len
           /\ r = n + 1 => SumOver(log', r .. n + 1) = len
<1>1. PICK l, m : l = log /\ m = log'
  OBVIOUS
<1>2. n \in Nat /\ len \in Nat /\ m[n + 1].len = len /\ OneMore(l, m, n)
  BY <1>1, AppendFacts DEF OneMore
<1>3. /\ SumOver(l, r .. n) \in Nat
      /\ SumOver(m, r .. n + 1) = SumOver(l, r .. n) + m[n + 1].len
      /\ r = n + 1 => SumOver(l, r .. n) = 0
  BY <1>2, SumFacts
<1>4. r = n + 1 => SumOver(m, r .. n + 1) = len
  BY <1>2, <1>3
<1>5. QED
  BY <1>1, <1>2, <1>3, <1>4

(* A lost record leaves the only file as it is, and at most moves the      *)
(* place past the cells it would have had.                                 *)
LEMMA LostStep ==
    ASSUME LogInv, conf.m_bOnlyFile, MarksOK(obj, disk),
           NEW len \in Lengths, NEW ok, NEW o, NEW d, Recorded(o, d, len, ok),
           o.m_hFile = Invalid
    PROVE  /\ MarksOK(obj, disk)' /\ obj'.m_dwCurPos = obj.m_dwCurPos
           /\ obj.m_dwCurPos # 0 => Place(obj', disk') = Place(obj, disk) + len
           /\ obj.m_dwCurPos = 0 => Place(obj', disk') = Place(obj, disk)
           /\ Single \in DOMAIN disk => Single \in DOMAIN disk' /\ disk'[Single] = disk[Single]
<1>1. ReadyOK(o, d, ok) /\ Over(disk', d, o, len) /\ conf' = conf
      /\ obj'.m_dwCurPos = o.m_dwCurPos /\ obj'.m_dwFilePos = o.m_dwFilePos + len
      /\ obj'.m_hFile = IF conf.m_bDelFlag THEN NULL ELSE o.m_hFile
  BY DEF Recorded
<1>2. /\ MarksOK(o, d) /\ FileSize(d, Single) = FileSize(disk, Single)
      /\ Place(o, d) = Place(obj, disk) /\ o.m_dwCurPos = obj.m_dwCurPos
  BY <1>1, ReadyMarks
<1>3. /\ DOMAIN disk' = DOMAIN d
      /\ \A x \in DOMAIN d : x # Invalid => disk'[x] = d[x]
      /\ \A x \in DOMAIN disk \cap DOMAIN d : d[x] = disk[x]
      /\ \A x \in DOMAIN disk \ DOMAIN d : x # Single
  BY <1>1 DEF Over, ReadyOK
<1>4. Single # Invalid /\ Single # NULL
  BY LogAssumption
<1>5. Single \in DOMAIN disk => Single \in DOMAIN disk' /\ disk'[Single] = disk[Single]
  BY <1>3, <1>4
<1>6. FileSize(disk', Single) = FileSize(d, Single)
  BY <1>3, <1>4 DEF FileSize
<1>7. obj'.m_hFile # Single
  BY <1>1, <1>4
<1>8. MarksOK(obj, disk)'
  BY <1>1, <1>2, <1>6, <1>7, Zenon DEF MarksOK
<1>9. /\ obj.m_dwCurPos # 0 => Place(obj', disk') = Place(obj, disk) + len
      /\ obj.m_dwCurPos = 0 => Place(obj', disk') = Place(obj, disk)
  BY <1>1, <1>2, <1>6, Zenon DEF Place
<1>10. QED
  BY <1>1, <1>2, <1>5, <1>8, <1>9

(* A record is written at the pointer, and the place moves past it.        *)
LEMMA WrittenStep ==
    ASSUME LogInv, conf.m_bOnlyFile, MarksOK(obj, disk),
           NEW len \in Lengths, NEW ok, NEW o, NEW d, Recorded(o, d, len, ok),
           o.m_hFile # Invalid, NEW n, n = Len(log)
    PROVE  /\ MarksOK(obj, disk)' /\ o.m_hFile = Single
           /\ Place(obj', disk') = o.pointer + len /\ obj'.m_dwCurPos = o.m_dwCurPos
           /\ Rounds(Place(obj, disk), obj.m_dwCurPos, conf.m_dwLogFileSize,
                     o.pointer, o.m_dwCurPos)
           /\ Single \in DOMAIN d /\ d[Single] \in Seq(0 .. n)
           /\ Single \in DOMAIN disk => d[Single] = disk[Single]
           /\ Single \in DOMAIN disk' /\ Cellwise(disk', d, o, n, len)
           /\ disk'[Single] \in Seq(0 .. n + 1)
<1>1. /\ ReadyOK(o, d, ok) /\ Over(disk', d, o, len) /\ conf' = conf
      /\ Cellwise(disk', d, o, n, len) /\ DiskOK(disk', n + 1)
      /\ obj'.m_dwCurPos = o.m_dwCurPos /\ obj'.m_dwFilePos = o.m_dwFilePos + len
      /\ obj'.m_hFile = Single => o.m_hFile # Invalid
      /\ obj'.pointer = o.pointer + len
  BY Zenon DEF Recorded
<1>2. /\ MarksOK(o, d) /\ FileSize(d, Single) = FileSize(disk, Single)
      /\ o.m_hFile = Single
      /\ o.m_dwCurPos # 0 => o.m_dwFilePos = o.pointer
      /\ Rounds(Place(obj, disk), obj.m_dwCurPos, conf.m_dwLogFileSize,
                o.pointer, o.m_dwCurPos)
  BY <1>1, ReadyMarks
<1>3. /\ o \in ObjRec /\ DiskOK(d, n) /\ Single \in DOMAIN d
      /\ \A x \in DOMAIN disk \cap DOMAIN d : d[x] = disk[x]
  <2>1. /\ o \in ObjRec /\ DiskOK(d, n) /\ HandleOK(o, d)
        /\ \A x \in DOMAIN disk \cap DOMAIN d : d[x] = disk[x]
    BY <1>1 DEF ReadyOK
  <2>2. Single \in DOMAIN d
    BY <1>2, <2>1, LogAssumption DEF HandleOK
  <2>3. QED
    BY <2>1, <2>2
<1>4. n \in Nat /\ len \in Nat /\ len > 0
  BY AppendFacts
<1>5. Single \in DOMAIN disk'
  BY <1>1, <1>3 DEF Over
<1>6. PICK q \in Seq(0 .. n), w \in Seq(0 .. n + 1) : q = d[Single] /\ w = disk'[Single]
  BY <1>1, <1>3, <1>5 DEF DiskOK
<1>7. PICK p \in Nat, c \in Nat : p = o.pointer /\ c = o.m_dwCurPos
  BY <1>3 DEF ObjRec
<1>8. /\ Len(w) \in {Len(q), p + len} /\ Len(w) >= Len(q) /\ Len(w) >= p + len
  BY <1>1, <1>2, <1>6, <1>7, LogAssumption DEF Cellwise
<1>9. FileSize(d, Single) = Len(q) /\ FileSize(disk', Single) = Len(w)
  BY <1>3, <1>5, <1>6 DEF FileSize
<1>10. p = Place(o, d)
  BY <1>2, <1>7 DEF MarksOK
<1>11. Place(obj', disk') = p + len
  <2>1. CASE c = 0
    <3>1. p = Len(q)
      BY <1>7, <1>9, <1>10, <2>1 DEF Place
    <3>2. Len(w) = p + len
      BY <1>4, <1>8, <3>1
    <3>3. QED
      BY <1>1, <1>7, <1>9, <2>1, <3>2 DEF Place
  <2>2. CASE c # 0
    BY <1>1, <1>2, <1>7, <2>2 DEF Place
  <2>3. QED
    BY <2>1, <2>2
<1>12. MarksOK(obj, disk)'
  <2>1. PICK limit \in Nat : limit = conf.m_dwLogFileSize
    BY DEF LogInv, LogTypes, ConfRec
  <2>2. c # 0 => c > limit /\ Len(q) > limit
    BY <1>2, <1>7, <1>9, <2>1 DEF MarksOK
  <2>3. Len(q) \in Nat /\ Len(w) \in Nat
    BY <1>6
  <2>4. c # 0 => c > limit /\ Len(w) > limit
    BY <1>8, <2>1, <2>2, <2>3
  <2>5. QED
    BY <1>1, <1>7, <1>9, <1>11, <2>1, <2>4 DEF MarksOK
<1>13. QED
  BY <1>1, <1>2, <1>3, <1>5, <1>6, <1>7, <1>11, <1>12

(* A record that is spared stays where it is when the next one is written. *)
LEMMA AtStays ==
    ASSUME NEW d, NEW e, NEW o \in ObjRec, NEW n \in Nat, NEW len \in Nat, NEW r \in 1 .. n,
           NEW s \in Nat, NEW k \in Nat, o.m_hFile = Single, Single # Invalid,
           Single \in DOMAIN e, d[Single] \in Seq(0 .. n), e[Single] \in Seq(0 .. n + 1),
           Cellwise(e, d, o, n, len), At(d, r, s, k), Misses(o.pointer, len, s, k)
    PROVE  At(e, r, s, k)
<1>1. PICK q \in Seq(0 .. n), w \in Seq(0 .. n + 1) : q = d[Single] /\ w = e[Single]
  OBVIOUS
<1>2. PICK p \in Nat : p = o.pointer
  BY DEF ObjRec
<1>3. /\ Len(w) >= Len(q) /\ Len(q) \in Nat /\ Len(w) \in Nat
      /\ \A i \in 1 .. Len(w) :
            w[i] = IF i > p /\ i <= p + len THEN n + 1 ELSE IF i <= Len(q) THEN q[i] ELSE 0
  <2>1. d[o.m_hFile] = q /\ e[o.m_hFile] = w /\ o.m_hFile # Invalid
    BY <1>1
  <2>2. Len(q) \in Nat /\ Len(w) \in Nat
    BY <1>1
  <2>3. QED
    BY <1>2, <2>1, <2>2 DEF Cellwise
<1>4. s + k <= Len(q) /\ \A i \in 1 .. Len(q) : q[i] = r <=> i > s /\ i <= s + k
  BY <1>1 DEF At
<1>5. ASSUME NEW i \in 1 .. Len(w) PROVE w[i] = r <=> i > s /\ i <= s + k
  <2>1. CASE i > p /\ i <= p + len
    <3>1. w[i] = n + 1
      BY <1>3, <2>1, Zenon
    <3>2. s + k <= p \/ p + len <= s
      BY <1>2 DEF Misses
    <3>3. ~(i > s /\ i <= s + k)
      BY <2>1, <3>2
    <3>4. QED
      BY <3>1, <3>3
  <2>2. CASE ~(i > p /\ i <= p + len) /\ i <= Len(q)
    <3>1. w[i] = q[i]
      BY <1>3, <2>2, Zenon
    <3>2. i \in 1 .. Len(q)
      BY <1>3, <2>2
    <3>3. QED
      BY <1>4, <3>1, <3>2
  <2>3. CASE ~(i > p /\ i <= p + len) /\ ~(i <= Len(q))
    <3>1. w[i] = 0
      BY <1>3, <2>3, Zenon
    <3>2. QED
      BY <1>3, <1>4, <2>3, <3>1
  <2>4. QED
    BY <2>1, <2>2, <2>3
<1>6. s + k <= Len(w)
  BY <1>3, <1>4
<1>7. QED
  BY <1>1, <1>5, <1>6 DEF At

(* The new record is where it was written. *)
LEMMA AtNew ==
    ASSUME NEW d, NEW e, NEW o \in ObjRec, NEW n \in Nat, NEW len \in Nat,
           o.m_hFile = Single, Single # Invalid,
           Single \in DOMAIN e, d[Single] \in Seq(0 .. n), e[Single] \in Seq(0 .. n + 1),
           Cellwise(e, d, o, n, len)
    PROVE  At(e, n + 1, o.pointer, len)
<1>1. PICK q \in Seq(0 .. n), w \in Seq(0 .. n + 1) : q = d[Single] /\ w = e[Single]
  OBVIOUS
<1>2. PICK p \in Nat : p = o.pointer
  BY DEF ObjRec
<1>3. /\ Len(w) >= p + len /\ Len(q) \in Nat
      /\ \A i \in 1 .. Len(w) :
            w[i] = IF i > p /\ i <= p + len THEN n + 1 ELSE IF i <= Len(q) THEN q[i] ELSE 0
  <2>1. d[o.m_hFile] = q /\ e[o.m_hFile] = w /\ o.m_hFile # Invalid
    BY <1>1
  <2>2. Len(q) \in Nat /\ Len(w) \in Nat
    BY <1>1
  <2>3. QED
    BY <1>2, <2>1, <2>2 DEF Cellwise
<1>4. ASSUME NEW i \in 1 .. Len(w) PROVE w[i] = n + 1 <=> i > p /\ i <= p + len
  <2>1. CASE i <= Len(q)
    <3>1. i \in 1 .. Len(q)
      BY <2>1
    <3>2. q[i] \in 0 .. n
      BY <3>1
    <3>3. q[i] # n + 1
      BY <3>2
    <3>4. QED
      BY <1>3, <2>1, <3>3, Zenon
  <2>2. CASE ~(i <= Len(q))
    BY <1>3, <2>2
  <2>3. QED
    BY <2>1, <2>2
<1>5. QED
  BY <1>1, <1>2, <1>3, <1>4 DEF At

(* A record keeps NewestInv. *)
LEMMA RecordedNewest ==
    ASSUME NewestInv, LogInv', NEW len \in Lengths, NEW ok, NEW o, NEW d, Recorded(o, d, len, ok)
    PROVE  NewestInv'
<1>1. PICK n : n = Len(log)
  OBVIOUS
<1>2. /\ n \in Nat /\ Len(log') = n + 1 /\ len \in Nat /\ len > 0
      /\ log'[n + 1].len = len /\ log'[n + 1].file = o.m_hFile
      /\ \A k \in 1 .. n : log'[k] = log[k] /\ log[k].len \in Nat /\ log[k].len > 0
      /\ born' = born /\ born \in 0 .. n
  BY <1>1, AppendFacts DEF NewestInv
<1>3. conf' = conf /\ obj \in ObjRec /\ DiskOK(disk, n) /\ LogInv
  BY <1>1 DEF Recorded, NewestInv, LogInv, LogTypes
<1>4. ~Fresh'
  BY <1>2 DEF Fresh
<1>5. SUFFICES ASSUME conf.m_bOnlyFile
               PROVE  /\ MarksOK(obj, disk)'
                      /\ \A r \in born + 1 .. n + 1 :
                            /\ log'[r].file # Invalid
                            /\ SumOver(log', r .. n + 1) <= conf.m_dwLogFileSize
                            => Held(r, log', obj', disk')
  <2> SUFFICES ASSUME conf.m_bOnlyFile
               PROVE  /\ MarksOK(obj, disk)'
                      /\ \A r \in born + 1 .. n + 1 :
                            ~Lost(log', r) /\ SumOver(log', r .. n + 1) <= conf.m_dwLogFileSize
                            => Held(r, log', obj', disk')
    BY <1>2, <1>3, <1>4, Zenon DEF NewestInv
  <2>1. QED
    BY <1>5, Zenon DEF Lost
<1>6. MarksOK(obj, disk)
  BY <1>5 DEF NewestInv
<1>7. PICK limit \in Nat, place \in Nat, mark \in Nat :
         /\ limit = conf.m_dwLogFileSize
         /\ place = Place(obj, disk) /\ mark = obj.m_dwCurPos
  <2>1. conf.m_dwLogFileSize \in Nat
    BY <1>3 DEF LogInv, LogTypes, ConfRec
  <2>2. Place(obj, disk) \in Nat /\ obj.m_dwCurPos \in Nat
    BY <1>2, <1>3, MarkTypes
  <2>3. QED
    BY <2>1, <2>2
<1>8. mark # 0 => mark > limit
  BY <1>6, <1>7 DEF MarksOK
<1>9. MarksOK(obj, disk)'
  BY <1>1, <1>3, <1>5, <1>6, LostStep, WrittenStep
<1>10. ASSUME NEW r \in born + 1 .. n, log'[r].file # Invalid,
              SumOver(log', r .. n + 1) <= limit
       PROVE  Held(r, log', obj', disk')
  <2>1. r \in 1 .. n + 1 /\ r \in 1 .. n
    BY <1>2
  <2>2. PICK k \in Nat : k = log[r].len /\ k = log'[r].len /\ k > 0 /\ log[r].file # Invalid
    BY <1>2, <1>10, <2>1
  <2>3. PICK total \in Nat : /\ total = SumOver(log, r .. n)
                             /\ SumOver(log', r .. n + 1) = total + len
    BY <1>1, <1>3, <2>1, TotalGrows
  <2>4. total + len <= limit /\ total <= limit
    BY <1>2, <1>10, <2>3
  <2>5. Held(r, log, obj, disk)
    BY <1>1, <1>5, <1>7, <2>2, <2>3, <2>4, Zenon DEF NewestInv, Lost
  <2>6. PICK s \in Nat : At(disk, r, s, k) /\ Spared(s, k, total, place, mark)
    BY <1>1, <1>7, <2>2, <2>3, <2>5, Zenon DEF Held
  <2>7. SUFFICES /\ At(disk', r, s, k)
                 /\ Spared(s, k, total + len, Place(obj', disk'), obj'.m_dwCurPos)
    BY <1>2, <2>2, <2>3, Zenon DEF Held
  <2>8. CASE o.m_hFile = Invalid
    <3>1. /\ obj'.m_dwCurPos = mark
          /\ mark # 0 => Place(obj', disk') = place + len
          /\ mark = 0 => Place(obj', disk') = place
          /\ Single \in DOMAIN disk => Single \in DOMAIN disk' /\ disk'[Single] = disk[Single]
      BY <1>3, <1>5, <1>6, <1>7, <2>8, LostStep
    <3>2. At(disk', r, s, k)
      BY <2>6, <3>1, Zenon DEF At
    <3>3. PICK q \in Nat : q = Place(obj', disk')
      BY <1>2, <3>1
    <3>4. Spared(s, k, total + len, q, mark)
      BY <1>2, <1>8, <2>4, <2>6, <3>1, <3>3, SparedLost
    <3>5. QED
      BY <3>1, <3>2, <3>3, <3>4, Zenon
  <2>9. CASE o.m_hFile # Invalid
    <3>1. /\ o.m_hFile = Single
          /\ Place(obj', disk') = o.pointer + len /\ obj'.m_dwCurPos = o.m_dwCurPos
          /\ Rounds(place, mark, limit, o.pointer, o.m_dwCurPos)
          /\ Single \in DOMAIN d /\ d[Single] \in Seq(0 .. n)
          /\ Single \in DOMAIN disk => d[Single] = disk[Single]
          /\ Single \in DOMAIN disk' /\ Cellwise(disk', d, o, n, len)
          /\ disk'[Single] \in Seq(0 .. n + 1)
      BY <1>1, <1>3, <1>5, <1>6, <1>7, <2>9, WrittenStep
    <3>2. o \in ObjRec
      BY DEF Recorded, ReadyOK
    <3>3. PICK p \in Nat, c \in Nat : p = o.pointer /\ c = o.m_dwCurPos
      BY <3>2 DEF ObjRec
    <3>4. Misses(p, len, s, k) /\ Spared(s, k, total + len, p + len, c)
      <4>1. Rounds(place, mark, limit, p, c)
        BY <3>1, <3>3
      <4>2. Spared(s, k, total, place, mark) /\ k > 0 /\ total + len <= limit /\ len \in Nat
        BY <1>2, <2>2, <2>4, <2>6
      <4>3. QED
        BY <1>8, <4>1, <4>2, SparedStep
    <3>5. At(d, r, s, k)
      BY <2>6, <3>1, Zenon DEF At
    <3>6. At(disk', r, s, k)
      <4>1. Misses(o.pointer, len, s, k)
        BY <3>3, <3>4
      <4>2. Single # Invalid /\ len \in Nat /\ n \in Nat /\ r \in 1 .. n
        BY <1>2, <2>1, LogAssumption
      <4>3. PICK e : e = disk'
        OBVIOUS
      <4>4. /\ o.m_hFile = Single /\ d[Single] \in Seq(0 .. n) /\ Single \in DOMAIN e
            /\ e[Single] \in Seq(0 .. n + 1) /\ Cellwise(e, d, o, n, len)
        BY <3>1, <4>3, Zenon
      <4>5. At(e, r, s, k)
        BY <3>2, <3>5, <4>1, <4>2, <4>4, AtStays
      <4>6. QED
        BY <4>3, <4>5, Zenon
    <3>7. QED
      BY <3>1, <3>3, <3>4, <3>6, Zenon
  <2>10. QED
    BY <2>8, <2>9
<1>11. ASSUME log'[n + 1].file # Invalid PROVE Held(n + 1, log', obj', disk')
  <2>1. o.m_hFile # Invalid
    BY <1>2, <1>11
  <2>2. /\ o.m_hFile = Single
        /\ Place(obj', disk') = o.pointer + len
        /\ Single \in DOMAIN d /\ d[Single] \in Seq(0 .. n)
        /\ Single \in DOMAIN disk' /\ Cellwise(disk', d, o, n, len)
        /\ disk'[Single] \in Seq(0 .. n + 1)
    BY <1>1, <1>3, <1>5, <1>6, <2>1, WrittenStep
  <2>3. o \in ObjRec
    BY DEF Recorded, ReadyOK
  <2>4. PICK p \in Nat : p = o.pointer
    BY <2>3 DEF ObjRec
  <2>5. At(disk', n + 1, p, len)
    BY <1>2, <2>2, <2>3, <2>4, LogAssumption, AtNew
  <2>6. SumOver(log', n + 1 .. n + 1) = len
    <3>1. n + 1 \in 1 .. n + 1
      BY <1>2
    <3>2. QED
      BY <1>1, <1>3, <3>1, TotalGrows
  <2>7. Spared(p, len, len, p + len, obj'.m_dwCurPos)
    BY <1>2 DEF Spared
  <2>8. QED
    BY <1>2, <2>2, <2>4, <2>5, <2>6, <2>7, Zenon DEF Held
<1>12. ASSUME NEW r \in born + 1 .. n + 1
       PROVE  /\ log'[r].file # Invalid
              /\ SumOver(log', r .. n + 1) <= conf.m_dwLogFileSize
              => Held(r, log', obj', disk')
  <2>1. r = n + 1 \/ r \in born + 1 .. n
    BY <1>2
  <2>2. QED
    BY <1>7, <1>10, <1>11, <2>1, Zenon
<1>13. QED
  BY <1>9, <1>12

(* Before the first record nothing is said of the only file. *)
LEMMA FreshNewest ==
    ASSUME LogInv, Fresh, obj.m_dwCurPos = 0
    PROVE  NewestInv
<1>1. obj.m_hFile # Single
  BY LogAssumption DEF LogInv
<1>2. \A r : r \notin born + 1 .. Len(log)
  BY DEF Fresh, LogInv, LogTypes
<1>3. MarksOK(obj, disk)
  BY <1>1 DEF MarksOK
<1>4. QED
  BY <1>2, <1>3, Zenon DEF NewestInv

(* The constructor sets no mark. *)
LEMMA NewestInit == Init => NewestInv
<1> SUFFICES ASSUME Init PROVE NewestInv
  OBVIOUS
<1>1. LogInv
  BY LogInit
<1>2. Fresh /\ Constructed(conf, obj)
  BY DEF Init, Fresh
<1>3. obj.m_dwCurPos = 0
  BY <1>2 DEF Constructed
<1>4. QED
  BY <1>1, <1>2, <1>3, FreshNewest

(* Every step keeps NewestInv. *)
LEMMA NewestStep == ASSUME NewestInv, [Next]_logvars PROVE NewestInv'
<1>1. LogInv /\ LogInv'
  BY StepKinds DEF NewestInv
<1>2. CASE \E len \in Lengths : WritLog(len) \/ WritLogFails(len)
  <2>1. PICK len \in Lengths, ok \in BOOLEAN : WriteLog(len, ok)
    BY <1>2, Zenon DEF WritLog, WritLogFails
  <2>2. PICK o, d : Recorded(o, d, len, ok)
    BY <1>1, <2>1, WriteStep
  <2>3. QED
    BY <1>1, <2>2, RecordedNewest
<1>3. CASE \/ \E single \in BOOLEAN : InitLogType(single)
           \/ SetSavePath
           \/ \E kb \in SizesKB : SetFileSizeForSingle(kb)
           \/ \E count \in Counts, days \in Days : SetLogFileCountForMulit(count, days)
  <2>1. Fresh /\ UNCHANGED <<obj, log, born>>
    BY <1>3 DEF InitLogType, SetSavePath, SetFileSizeForSingle, SetLogFileCountForMulit,
                Configure
  <2>2. Fresh' /\ obj'.m_dwCurPos = 0
    BY <2>1 DEF Fresh, NewestInv
  <2>3. (LogInv /\ Fresh /\ obj.m_dwCurPos = 0 => NewestInv)'
    BY FreshNewest, PTL
  <2>4. QED
    BY <1>1, <2>2, <2>3
<1>4. CASE Restart
  <2>1. Constructed(conf', obj') /\ log' = log /\ born' = Len(log)
    BY <1>4 DEF Restart
  <2>2. Fresh' /\ obj'.m_dwCurPos = 0
    BY <2>1 DEF Fresh, Constructed
  <2>3. (LogInv /\ Fresh /\ obj.m_dwCurPos = 0 => NewestInv)'
    BY FreshNewest, PTL
  <2>4. QED
    BY <1>1, <2>2, <2>3
<1>5. CASE (\E t \in Times : SetClock(t)) \/ UNCHANGED logvars
  <2>1. UNCHANGED <<disk, conf, obj, log, born>>
    BY <1>5 DEF SetClock, logvars
  <2>2. QED
    BY <1>1, <2>1 DEF NewestInv, Fresh, MarksOK, Place, Held
<1>6. QED
  BY <1>2, <1>3, <1>4, <1>5 DEF Next

(* A record that is in the file has all its cells there. *)
LEMMA AtCells ==
    ASSUME NEW d, NEW n \in Nat, DiskOK(d, n), NEW r, NEW s \in Nat, NEW k \in Nat, At(d, r, s, k)
    PROVE  Cells(d, Single, r) = k
<1>1. PICK q \in Seq(0 .. n) : q = d[Single]
  BY DEF At, DiskOK
<1>2. DOMAIN q = 1 .. Len(q) /\ Len(q) \in Nat
  BY <1>1
<1>3. {i \in DOMAIN q : q[i] = r} = s + 1 .. s + k
  BY <1>1, <1>2 DEF At
<1>4. Cardinality(s + 1 .. s + k) = k
  <2>1. s + 1 \in Int /\ s + k \in Int
    OBVIOUS
  <2>2. Cardinality(s + 1 .. s + k) = IF s + 1 > s + k THEN 0 ELSE s + k - (s + 1) + 1
    BY <2>1, FS_Interval
  <2>3. QED
    BY <2>2
<1>5. Cells(d, Single, r) = Cardinality({i \in DOMAIN q : q[i] = r})
  BY <1>1, Zenon DEF Cells, At
<1>6. QED
  BY <1>3, <1>4, <1>5

-----------------------------------------------------------------------------
(* The members keep their types in every mode, and the handle is never one *)
(* of a file that ClearLogFile has deleted.                                *)
THEOREM LogTypeCorrect == Spec => []TypeOKLog
<1>1. LogInv => TypeOKLog
  <2> SUFFICES ASSUME LogInv PROVE TypeOKLog
    OBVIOUS
  <2>1. obj.m_hFile \in {NULL, Invalid} \cup DOMAIN disk
    BY DEF LogInv, HandleOK
  <2>2. QED
    BY <2>1 DEF LogInv, LogTypes, TypeOKLog, DiskOK, ObjRec, ConfRec
<1>2. QED
  BY <1>1, LogInvariant, PTL

(* The number of cells a record has in a file. *)
LEMMA CellsFacts ==
    ASSUME NEW d, NEW e, NEW n \in Nat, NEW m \in Nat, DiskOK(d, n), DiskOK(e, m),
           NEW name, NEW r
    PROVE  /\ Cells(d, name, r) \in Nat
           /\ /\ name \in DOMAIN d /\ name \in DOMAIN e /\ Len(d[name]) <= Len(e[name])
              /\ \A i \in 1 .. Len(d[name]) : e[name][i] = d[name][i]
              => Cells(d, name, r) <= Cells(e, name, r)
<1> DEFINE S(f) == {i \in DOMAIN f[name] : f[name][i] = r}
<1>1. ASSUME NEW f, NEW k \in Nat, DiskOK(f, k), name \in DOMAIN f
      PROVE  IsFiniteSet(S(f)) /\ Cells(f, name, r) = Cardinality(S(f))
  <2>1. PICK q \in Seq(0 .. k) : q = f[name]
    BY <1>1 DEF DiskOK
  <2>2. Len(q) \in Nat /\ DOMAIN q = 1 .. Len(q)
    OBVIOUS
  <2>3. IsFiniteSet(1 .. Len(q))
    BY <2>2, FS_Interval
  <2>4. S(f) \subseteq 1 .. Len(q)
    BY <2>1, <2>2
  <2>5. IsFiniteSet(S(f))
    BY <2>3, <2>4, FS_Subset
  <2>6. QED
    BY <1>1, <2>5, Zenon DEF Cells
<1>2. Cells(d, name, r) \in Nat
  <2>1. CASE name \in DOMAIN d
    BY <1>1, <2>1, FS_CardinalityType
  <2>2. CASE name \notin DOMAIN d
    BY <2>2 DEF Cells
  <2>3. QED
    BY <2>1, <2>2
<1>3. ASSUME name \in DOMAIN d, name \in DOMAIN e, Len(d[name]) <= Len(e[name]),
             \A i \in 1 .. Len(d[name]) : e[name][i] = d[name][i]
      PROVE  Cells(d, name, r) <= Cells(e, name, r)
  <2>1. PICK p \in Seq(0 .. n), q \in Seq(0 .. m) : p = d[name] /\ q = e[name]
    BY <1>3 DEF DiskOK
  <2>2. S(d) \subseteq S(e)
    <3>1. DOMAIN p = 1 .. Len(p) /\ DOMAIN q = 1 .. Len(q) /\ Len(p) \in Nat /\ Len(q) \in Nat
      OBVIOUS
    <3>2. QED
      BY <1>3, <2>1, <3>1
  <2>3. /\ IsFiniteSet(S(e)) /\ Cells(e, name, r) = Cardinality(S(e))
        /\ Cells(d, name, r) = Cardinality(S(d))
    BY <1>1, <1>3
  <2>4. QED
    BY <2>2, <2>3, FS_Subset
<1>4. QED
  BY <1>2, <1>3

(* A step cannot make Cells smaller and leave the disk as it is. *)
LEMMA SameCells ==
    ASSUME NEW d, NEW n \in Nat, DiskOK(d, n), NEW name, NEW r
    PROVE  ~(Cells(d, name, r) < Cells(d, name, r))
BY CellsFacts

(* With several files a day ClearLogFile alone takes records away, and     *)
(* only those older than m_iLogDayCount days.                              *)
THEOREM Kept == Spec => RecordsKept
<1> DEFINE KeepsAll ==
        \A r \in DOMAIN log :
          LET name == log[r].file
          IN  name \notin {Single, Invalid} /\ Cells(disk', name, r) < Cells(disk, name, r)
                  => Day(now) > Day(log[r].at) + conf.m_iLogDayCount
<1>1. LogInv /\ [Next]_logvars => KeepsAll
  <2> SUFFICES ASSUME LogInv, [Next]_logvars, NEW r \in DOMAIN log, NEW name,
                      name = log[r].file, name \notin {Single, Invalid},
                      Cells(disk', name, r) < Cells(disk, name, r)
               PROVE  Day(now) > Day(log[r].at) + conf.m_iLogDayCount
    BY Zenon DEF KeepsAll
  <2>1. PICK a, b, n : a = disk /\ b = disk' /\ n = Len(log)
    OBVIOUS
  <2>2. n \in Nat /\ DiskOK(a, n) /\ name \in Dated /\ name[1] = Day(log[r].at)
    <3>1. log \in Seq(LogRec) /\ DiskOK(disk, Len(log)) /\ DatedByName
      BY DEF LogInv, LogTypes
    <3>2. log[r] \in LogRec
      BY <3>1
    <3>3. name \in Dated
      BY <3>2 DEF LogRec
    <3>4. QED
      BY <2>1, <3>1, <3>3 DEF DatedByName
  <2>3. Cells(b, name, r) < Cells(a, name, r)
    BY <2>1, Zenon
  <2>4. CASE UNCHANGED <<disk, log>>
    BY <2>1, <2>2, <2>3, <2>4, SameCells
  <2>5. CASE \E len \in Lengths, ok \in BOOLEAN : \E o, d : Recorded(o, d, len, ok)
    <3>1. PICK len \in Lengths, ok \in BOOLEAN : \E o, d : Recorded(o, d, len, ok)
      BY <2>5
    <3>2. PICK o, d : Recorded(o, d, len, ok)
      BY <3>1
    <3>3. /\ DiskOK(b, n + 1) /\ Over(b, d, o, len) /\ DiskOK(d, n) /\ HandleOK(o, d)
          /\ o \in ObjRec
          /\ \A x \in DOMAIN a \cap DOMAIN d : d[x] = a[x]
          /\ \A x \in DOMAIN a \ DOMAIN d : TooOld(x)
      BY <2>1, <3>2 DEF Recorded, ReadyOK
    <3>4. name \in DOMAIN a
      <4>1. Cells(b, name, r) \in Nat
        <5>1. n + 1 \in Nat
          BY <2>2
        <5>2. QED
          BY <3>3, <5>1, CellsFacts
      <4>2. name \notin DOMAIN a => Cells(a, name, r) = 0
        BY DEF Cells
      <4>3. QED
        BY <2>3, <4>1, <4>2
    <3>5. CASE name \in DOMAIN d
      <4>1. d[name] = a[name]
        BY <3>3, <3>4, <3>5
      <4>2. PICK q \in Seq(0 .. n), w \in Seq(0 .. n + 1) : q = a[name] /\ w = b[name]
        BY <2>2, <3>3, <3>4, <3>5 DEF DiskOK, Over
      <4>3. Len(q) <= Len(w) /\ \A i \in 1 .. Len(q) : w[i] = q[i]
        <5>1. CASE name # o.m_hFile
          <6>1. w = q
            BY <3>3, <3>5, <4>1, <4>2, <5>1 DEF Over
          <6>2. QED
            BY <6>1
        <5>2. CASE name = o.m_hFile
          <6>1. name # NULL /\ name # Invalid /\ name # Single
            BY <2>2, LogAssumption DEF Dated
          <6>2. o.pointer = Len(q)
            BY <3>3, <4>1, <4>2, <5>2, <6>1 DEF HandleOK
          <6>3. /\ Len(w) = o.pointer + len
                /\ \A i \in 1 .. o.pointer : w[i] = q[i]
            BY <3>3, <4>1, <4>2, <5>2, <6>1, <6>2 DEF Over
          <6>4. len \in Nat /\ Len(q) \in Nat
            BY LogAssumption
          <6>5. QED
            BY <6>2, <6>3, <6>4
        <5>3. QED
          BY <5>1, <5>2
      <4>4. Cells(a, name, r) <= Cells(b, name, r)
        <5>1. n + 1 \in Nat /\ name \in DOMAIN b
          BY <2>2, <3>3, <3>5 DEF Over
        <5>2. QED
          BY <2>2, <3>3, <3>4, <4>2, <4>3, <5>1, CellsFacts
      <4>5. Cells(a, name, r) \in Nat /\ Cells(b, name, r) \in Nat
        <5>1. n + 1 \in Nat
          BY <2>2
        <5>2. QED
          BY <2>2, <3>3, <5>1, CellsFacts
      <4>6. QED
        BY <2>3, <4>4, <4>5
    <3>6. CASE name \notin DOMAIN d
      BY <2>2, <3>3, <3>4, <3>6 DEF TooOld
    <3>7. QED
      BY <3>5, <3>6
  <2>6. QED
    BY <2>4, <2>5, StepKinds
<1>2. QED
  BY <1>1, LogInvariant, PTL DEF Spec, RecordsKept

(* After a record has gone to a file of the day, no file is older than the *)
(* days to keep and one more: CloseDays is why one more is needed.         *)
THEOREM Gone == Spec => OldGone
<1> DEFINE A == (Len(log') > Len(log) /\ log'[Len(log')].file \notin {Single, Invalid})
                  => \A n \in DOMAIN disk' \ {Single} : Day(now) <= n[1] + conf.m_iLogDayCount + 1
<1>1. LogInv /\ [Next]_logvars => A
  <2> SUFFICES ASSUME LogInv, [Next]_logvars, Len(log') > Len(log),
                      log'[Len(log')].file \notin {Single, Invalid},
                      NEW n \in DOMAIN disk', n # Single
               PROVE  Day(now) <= n[1] + conf.m_iLogDayCount + 1
    OBVIOUS
  <2>1. Len(log) \in Nat /\ log \in Seq(LogRec)
    BY DEF LogInv, LogTypes
  <2>2. PICK len \in Lengths, ok \in BOOLEAN : \E o, d : Recorded(o, d, len, ok)
    BY <2>1, StepKinds
  <2>3. PICK o, d : Recorded(o, d, len, ok)
    BY <2>2
  <2>4. log'[Len(log')].file = o.m_hFile
    BY <2>1, <2>3 DEF Recorded
  <2>5. o.m_hFile \in Dated
    BY <2>3, <2>4 DEF Recorded, ReadyOK, ObjRec
  <2>6. NoneOld(d, now, 1) /\ n \in DOMAIN d
    BY <2>3, <2>5 DEF Recorded, ReadyOK, Over
  <2>7. QED
    BY <2>6 DEF NoneOld
<1>2. QED
  BY <1>1, LogInvariant, PTL DEF Spec, OldGone

(* With m_bDelFlag a record is lost only by a CreateFile that fails for it *)
(* alone: the handle is NULL again before the next one.                    *)
THEOREM LossOfOne == Spec => LossNeedsFault
<1> DEFINE A == (Len(log') > Len(log) /\ Lost(log', Len(log')) /\ conf.m_bDelFlag)
                  => faults' > faults
<1>1. LogInv /\ [Next]_logvars => A
  <2> SUFFICES ASSUME LogInv, [Next]_logvars, Len(log') > Len(log),
                      Lost(log', Len(log')), conf.m_bDelFlag
               PROVE  faults' > faults
    OBVIOUS
  <2>1. Len(log) \in Nat /\ log \in Seq(LogRec) /\ faults \in Nat
    BY LogAssumption DEF LogInv, LogTypes
  <2>2. PICK len \in Lengths, ok \in BOOLEAN :
           \E o, d : Recorded(o, d, len, ok) /\ faults' = IF ok THEN faults ELSE faults + 1
    BY <2>1, StepKinds
  <2>3. PICK o, d : Recorded(o, d, len, ok) /\ faults' = IF ok THEN faults ELSE faults + 1
    BY <2>2
  <2>4. o.m_hFile = Invalid
    BY <2>1, <2>3 DEF Recorded, Lost
  <2>5. ~ok
    BY <2>3, <2>4, Zenon DEF Recorded, ReadyOK
  <2>6. QED
    BY <2>1, <2>3, <2>5
<1>2. QED
  BY <1>1, LogInvariant, PTL DEF Spec, LossNeedsFault

(* Overwriting the only file in rounds spares what is new, for every size  *)
(* that can be set and any lengths: a record of this process is whole in   *)
(* the file as long as it and all that was written after it are no longer  *)
(* than the size, whatever is opened, closed and lost in between.          *)
THEOREM Newest == Spec => []NewestKept
<1>1. NewestInv => NewestKept
  <2> SUFFICES ASSUME NewestInv, conf.m_bOnlyFile, NEW r \in born + 1 .. Len(log),
                      ~Lost(log, r), TotalFrom(r) <= conf.m_dwLogFileSize
               PROVE  Cells(disk, Single, r) = log[r].len
    BY DEF NewestKept
  <2>1. PICK n \in Nat : n = Len(log)
    BY DEF NewestInv, LogInv, LogTypes
  <2>2. SumOver(log, r .. n) = TotalFrom(r)
    BY <2>1 DEF SumOver, TotalFrom
  <2>3. Held(r, log, obj, disk)
    BY <2>1, <2>2, Zenon DEF NewestInv
  <2>4. PICK s \in Nat : At(disk, r, s, log[r].len)
    BY <2>3, Zenon DEF Held
  <2>5. log[r].len \in Nat
    <3>1. log \in Seq(LogRec) /\ r \in 1 .. Len(log)
      BY DEF NewestInv, LogInv, LogTypes
    <3>2. log[r] \in LogRec
      BY <3>1
    <3>3. QED
      BY <3>2, LogAssumption DEF LogRec
  <2>6. DiskOK(disk, n)
    BY <2>1 DEF NewestInv, LogInv, LogTypes
  <2>7. QED
    BY <2>4, <2>5, <2>6, AtCells
<1>2. NewestInv /\ [Next]_logvars => NewestInv'
  BY NewestStep
<1>3. QED
  BY <1>1, <1>2, NewestInit, PTL DEF Spec
=============================================================================

------------------------------ MODULE LogFile ------------------------------
(***************************************************************************)
(* CLogToFile_OC behind CLogHandle (log/LogToFile.cpp, log/LogHandle.cpp): *)
(* the log of a process, kept in one file that is overwritten in rounds    *)
(* (m_bOnlyFile) or in several files a day, of which the old ones are      *)
(* deleted.                                                                *)
(*                                                                         *)
(* A file is the sequence of its cells; a cell holds the number of the     *)
(* record written over it, and a record is as long as its text.  Time is   *)
(* counted in hours since the epoch, and may be set back as well as        *)
(* forward.  CLogHandle::WritLog holds a critical section during the whole *)
(* WriteLog, so that one call is one step.  The setters take no lock: they *)
(* are called before the first record of the object, as LogManager.cpp and *)
(* MFCToolDlg.cpp do.                                                      *)
(***************************************************************************)
EXTENDS Naturals, Sequences, FiniteSets, FiniteSetsExt

CONSTANTS
    Times,          \* the hours the clock may show
    Lengths,        \* lengths of records
    SizesKB,        \* arguments of InitFileSize
    SizeLow,        \* 1000 in InitFileSize
    SizeHigh,       \* 30720 in InitFileSize
    DefaultSize,    \* 12582912 in the constructor
    Counts,         \* arguments of InitLogFileCount: files a day
    Days,           \* arguments of InitLogFileCount: days to keep
    DefaultDays,    \* 20 in the constructor
    MaxWrites,      \* bound: records, as long as there is only one file
    MaxDated,       \* bound: records, when the next one goes to one of several files
    MaxFaults,      \* bound: CreateFile calls that fail
    MaxStarts,      \* bound: starts of the process
    NULL, Invalid,  \* no handle, and INVALID_HANDLE_VALUE
    Single          \* the name of the only file

ASSUME LogAssumption ==
    /\ Times \subseteq {t \in Nat : t >= 24} /\ Lengths \subseteq Nat \ {0}
    /\ SizesKB \cup Counts \cup Days \subseteq Nat
    /\ {DefaultSize, SizeLow, SizeHigh, MaxStarts} \subseteq Nat \ {0}
    /\ DefaultDays \in 1 .. 365
    /\ {MaxWrites, MaxDated, MaxFaults} \subseteq Nat
    /\ NULL # Invalid /\ NULL # Single /\ Invalid # Single
    /\ {NULL, Invalid, Single} \cap (Nat \X Nat) = {}   \* names with a date are pairs

VARIABLES
    now,     \* the clock
    disk,    \* the files of the directory
    conf,    \* what the setters set
    obj,     \* the handle, its file pointer and the other members
    log,     \* the records handed to WriteLog, in order (history)
    born,    \* the records older than this process (history)
    starts, faults

logvars == <<now, disk, conf, obj, log, born, starts, faults>>

Day(t) == t \div 24
Hour(t) == t % 24

(***************************************************************************)
(* The constructor.  m_bDelFlag keeps whatever the memory holds until      *)
(* SetSavePath is called.                                                  *)
(***************************************************************************)
Constructed(c, o) ==
    /\ \E garbage \in BOOLEAN :
          c = [m_bOnlyFile |-> FALSE, m_bDelFlag |-> garbage, m_dwLogFileSize |-> DefaultSize,
               m_iDayFileCount |-> 6, m_iLogDayCount |-> DefaultDays]
    /\ o = [m_hFile |-> NULL, pointer |-> 0, m_strCurFile |-> NULL, m_tmClear |-> 0,
            m_dwCurPos |-> 0, m_dwFilePos |-> 0]

Init ==
    /\ now \in Times
    /\ disk = <<>>
    /\ Constructed(conf, obj)
    /\ log = <<>> /\ born = 0 /\ starts = 1 /\ faults = 0

-----------------------------------------------------------------------------
(* The setters, before the first record. *)

Fresh == Len(log) = born

Configure(c) ==
    /\ Fresh
    /\ conf' = c
    /\ UNCHANGED <<now, disk, obj, log, born, starts, faults>>

InitLogType(isSingleFile) == Configure([conf EXCEPT !.m_bOnlyFile = isSingleFile])

(* The directory and the name are data; the default argument is what counts. *)
SetSavePath == Configure([conf EXCEPT !.m_bDelFlag = TRUE])

SetFileSizeForSingle(iSizeKB) ==
    /\ iSizeKB > SizeLow /\ iSizeKB < SizeHigh
    /\ Configure([conf EXCEPT !.m_dwLogFileSize = iSizeKB])

CountUpTo25(iDayFileCount) == iDayFileCount > 0 /\ iDayFileCount <= 25

CountAccepted(iDayFileCount) == iDayFileCount > 0 /\ iDayFileCount < 25

SetLogFileCountForMulit(iDayFileCount, iLogDayCount) ==
    Configure([conf EXCEPT
        !.m_iDayFileCount = IF CountAccepted(iDayFileCount) THEN iDayFileCount ELSE @,
        !.m_iLogDayCount = IF iLogDayCount > 0 /\ iLogDayCount < 366 THEN iLogDayCount ELSE @])

-----------------------------------------------------------------------------
(* The file system. *)

FileSize(d, name) == IF name \in DOMAIN d THEN Len(d[name]) ELSE 0

(* CreateFile with OPEN_ALWAYS and the SetFilePointer that follows it. *)
CreateFile(s, name, ok, at) ==
    IF ok
    THEN [obj |-> [s.obj EXCEPT !.m_hFile = name, !.pointer = at],
          disk |-> [n \in DOMAIN s.disk \cup {name} |->
                       IF n \in DOMAIN s.disk THEN s.disk[n] ELSE <<>>]]
    ELSE [s EXCEPT !.obj.m_hFile = Invalid]

(* WriteFile: a gap between the end of the file and the pointer is filled with zeros. *)
WriteFile(s, record, len) ==
    LET h == s.obj.m_hFile
        p == s.obj.pointer
        size == FileSize(s.disk, h)
        over == [i \in 1 .. Max({size, p + len}) |->
                    IF i > p /\ i <= p + len THEN record
                    ELSE IF i <= size THEN s.disk[h][i] ELSE 0]
    IN  IF h = Invalid THEN s
        ELSE [s EXCEPT !.disk[h] = over, !.obj.pointer = p + len]

-----------------------------------------------------------------------------
(* InitLogFile for the only file. *)

NextRoundUnmarked(o) == [o EXCEPT !.m_dwFilePos = 0, !.pointer = 0]

(* Too large a file is overwritten from its start, up to where this round ended. *)
NextRound(o) == [o EXCEPT !.m_dwFilePos = 0, !.m_dwCurPos = o.pointer, !.pointer = 0]

Round(o, size) ==
    CASE size > conf.m_dwLogFileSize /\ o.pointer >= o.m_dwCurPos -> NextRound(o)
      [] size <= conf.m_dwLogFileSize -> [o EXCEPT !.m_dwCurPos = 0]
      [] OTHER -> o

OpenSingle(s, ok) ==
    LET append == s.obj.m_dwCurPos = 0
    IN  IF append
        THEN CreateFile([s EXCEPT !.obj.m_dwFilePos = 0], Single, ok, FileSize(s.disk, Single))
        ELSE CreateFile(s, Single, ok, s.obj.m_dwFilePos)

InitSingle(s, ok) ==
    LET opened == IF s.obj.m_hFile = NULL THEN OpenSingle(s, ok) ELSE s
    IN  IF opened.obj.m_hFile = Invalid THEN opened
        ELSE [opened EXCEPT !.obj = Round(@, FileSize(opened.disk, Single))]

-----------------------------------------------------------------------------
(* InitLogFile for several files a day.  Names are the day and the number  *)
(* of the file in it.                                                      *)

GetLogFileName == <<Day(now), Hour(now) \div (24 \div conf.m_iDayFileCount)>>

Earlier(a, b) == a[1] < b[1] \/ (a[1] = b[1] /\ a[2] < b[2])

(* CTimeSpan::GetDays truncates. *)
GetDays(t, u) == (IF t >= u THEN t - u ELSE u - t) \div 24

TooOldByOne(name) == Day(now) >= name[1] + conf.m_iLogDayCount

TooOld(name) == Day(now) > name[1] + conf.m_iLogDayCount

(* FindNextFile answers FALSE with the last file, which the loop then leaves *)
(* out; a directory is listed in the order of the names.  The only file has  *)
(* no date in its name and comes after the ones that have.                   *)
Visited(d) == {n \in DOMAIN d \ {Single} :
                  Single \in DOMAIN d \/ \E other \in DOMAIN d : Earlier(n, other)}

ClearDueOnce(o) == o.m_tmClear = 0

ClearDue(o) == GetDays(now, o.m_tmClear) # 0

ClearLogFile(s) ==
    LET kept == {n \in DOMAIN s.disk : ~(n \in Visited(s.disk) /\ TooOld(n))}
    IN  IF ~ClearDue(s.obj) THEN s
        ELSE [obj |-> [s.obj EXCEPT !.m_tmClear = now],
              disk |-> [n \in kept |-> s.disk[n]]]

Renamed(o) == o.m_strCurFile # GetLogFileName

InitMulti(s, ok) ==
    LET name == GetLogFileName
        opened == IF Renamed(s.obj) \/ s.obj.m_hFile = NULL
                  THEN CreateFile([s EXCEPT !.obj.m_strCurFile = name], name, ok,
                                  FileSize(s.disk, name))
                  ELSE s
    IN  IF opened.obj.m_hFile = Invalid THEN opened ELSE ClearLogFile(opened)

-----------------------------------------------------------------------------
(* WriteLog: open, write, and close again when m_bDelFlag says so. *)

Creates == obj.m_hFile = NULL \/ (~conf.m_bOnlyFile /\ Renamed(obj))

InitLogFile(s, ok) == IF conf.m_bOnlyFile THEN InitSingle(s, ok) ELSE InitMulti(s, ok)

CloseValid(o) == IF conf.m_bDelFlag /\ o.m_hFile # Invalid THEN [o EXCEPT !.m_hFile = NULL] ELSE o

CloseAfter(o) == IF conf.m_bDelFlag THEN [o EXCEPT !.m_hFile = NULL] ELSE o

WriteLog(len, ok) ==
    LET ready == InitLogFile([obj |-> obj, disk |-> disk], ok)
        written == WriteFile(ready, Len(log) + 1, len)
    IN  /\ Len(log) < IF conf.m_bOnlyFile THEN MaxWrites ELSE MaxDated
        /\ disk' = written.disk
        /\ obj' = CloseAfter([written.obj EXCEPT !.m_dwFilePos = @ + len])
        /\ log' = Append(log, [at |-> now, len |-> len, file |-> ready.obj.m_hFile])
        /\ UNCHANGED <<now, conf, born, starts>>

WritLog(len) == WriteLog(len, TRUE) /\ UNCHANGED faults

(* CreateFile fails (sharing, rights, a full or absent disk). *)
WritLogFails(len) ==
    /\ Creates /\ faults < MaxFaults
    /\ WriteLog(len, FALSE)
    /\ faults' = faults + 1

(* The process ends, in whatever way, and is started again. *)
Restart ==
    /\ starts < MaxStarts
    /\ Constructed(conf', obj')
    /\ born' = Len(log) /\ starts' = starts + 1
    /\ UNCHANGED <<now, disk, log, faults>>

(* Nothing reads the clock while there is only one file. *)
SetClock(t) ==
    /\ ~conf.m_bOnlyFile
    /\ now' = t
    /\ UNCHANGED <<disk, conf, obj, log, born, starts, faults>>

Next ==
    \/ \E single \in BOOLEAN : InitLogType(single)
    \/ SetSavePath
    \/ \E kb \in SizesKB : SetFileSizeForSingle(kb)
    \/ \E count \in Counts, days \in Days : SetLogFileCountForMulit(count, days)
    \/ \E len \in Lengths : WritLog(len) \/ WritLogFails(len)
    \/ Restart
    \/ \E t \in Times : SetClock(t)

Spec == Init /\ [][Next]_logvars

-----------------------------------------------------------------------------
(* The cells of record r that a file still holds. *)
Cells(d, name, r) ==
    IF name \notin DOMAIN d THEN 0 ELSE Cardinality({i \in DOMAIN d[name] : d[name][i] = r})

TotalFrom(r) == MapThenSumSet(LAMBDA k : log[k].len, r .. Len(log))

Lost(l, r) == l[r].file = Invalid

(* The members keep their types; a handle that is neither NULL nor invalid *)
(* belongs to a file that exists, so that ClearLogFile never takes the     *)
(* file that is being written.                                             *)
TypeOKLog ==
    /\ now \in Times
    /\ obj.m_hFile \in {NULL, Invalid} \cup DOMAIN disk
    /\ \A n \in DOMAIN disk : disk[n] \in Seq(0 .. Len(log))
    /\ {obj.pointer, obj.m_dwCurPos, obj.m_dwFilePos, obj.m_tmClear} \subseteq Nat
    /\ conf.m_iDayFileCount \in 1 .. 24 /\ conf.m_iLogDayCount \in 1 .. 365
    /\ born \in 0 .. Len(log) /\ faults \in 0 .. MaxFaults /\ starts \in 1 .. MaxStarts

(* Overwriting the only file in rounds spares what is new: a record of     *)
(* this process is whole in the file as long as it and everything written  *)
(* after it are no longer than the size that was set.                      *)
NewestKept ==
    conf.m_bOnlyFile =>
        \A r \in born + 1 .. Len(log) :
            ~Lost(log, r) /\ TotalFrom(r) <= conf.m_dwLogFileSize
                => Cells(disk, Single, r) = log[r].len

(* With several files a day no record is overwritten, and one is deleted   *)
(* only when it is older than m_iLogDayCount days: whatever the clock and  *)
(* the restarts do in between.                                             *)
RecordsKept ==
    [][\A r \in DOMAIN log :
          LET name == log[r].file
          IN  name \notin {Single, Invalid} /\ Cells(disk', name, r) < Cells(disk, name, r)
                  => Day(now) > Day(log[r].at) + conf.m_iLogDayCount]_logvars

(* Files do not pile up: once a record is written to one of the day's      *)
(* files, no file is older than the days to keep and one more, although    *)
(* the directory is searched only once in 24 hours and the search leaves   *)
(* out the last file it finds.                                             *)
OldGone ==
    [][(Len(log') > Len(log) /\ log'[Len(log')].file \notin {Single, Invalid})
          => \A n \in DOMAIN disk' \ {Single} : Day(now) <= n[1] + conf.m_iLogDayCount + 1]_logvars

(* A file that cannot be opened costs the record at hand and no other, when *)
(* the file is closed after every record.                                   *)
LossNeedsFault ==
    [][(Len(log') > Len(log) /\ Lost(log', Len(log')) /\ conf.m_bDelFlag)
          => faults' > faults]_logvars
=============================================================================

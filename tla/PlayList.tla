------------------------------ MODULE PlayList ------------------------------
(***************************************************************************)
(* CDataBaseManager (MFCTool/DataBaseManager/DataBaseManager.cpp): the     *)
(* write operations on one kind of play list (Play_List, Video_List or     *)
(* Default_List) with its _Scope and _Download_Status tables.              *)
(*                                                                         *)
(* Editors save lists (IsExistName, then UpdatePlayListRecord or           *)
(* UpdateDefaultPlayListRecord); devices report downloads                  *)
(* (SetDownloadStatus).  Every SQL statement is one step, so the calls of  *)
(* different programs on the one server interleave between statements.     *)
(*                                                                         *)
(* The server is not part of the repository.  It is modelled from the way  *)
(* it is used: a statement sees the committed rows and its own             *)
(* transaction's, a written row is locked until the transaction ends,      *)
(* another writer of it waits, and a connection that is released with its  *)
(* transaction open is rolled back.  Rows are keyed by the columns the     *)
(* statements select them with: List_ID; List_ID and place; List_ID and    *)
(* Device_Code.                                                            *)
(***************************************************************************)
EXTENDS Integers, FiniteSets, Sequences, FiniteSetsExt

CONSTANTS
    Editors,      \* programs that save lists
    Devices,      \* programs that report the download of a list
    Names,        \* names (and titles) given to saved lists
    Lines,        \* server line codes (Import_Line)
    FlagOf,       \* the first character of an identifier, from the line code
    Selections,   \* sequences of places: the loop over pos and station
    ListTypes,    \* the kinds of list the run looks at, out of 0, 1, 2
    Stock,        \* kind -> set of [line, num, name]: lists saved earlier
    Radix,        \* 36 in the code
    Word,         \* 2^32 in the code: the range of UINT
    Faults,       \* statements that may fail: "id", "title", "station", "stmt"
    MaxCalls      \* bound on the calls of a behaviour

Clients == Editors \cup Devices

\* The value of szListID in a LIST_INFO no call has filled.
NoID == <<-1, 0>>
\* The name of stocked lists that no editor saves.
NoName == <<>>

\* A Default_List number has four digits.
Capacity == Radix * Radix * Radix * Radix

Ids == ((({FlagOf[l] : l \in Lines}) \X (0 .. Word - 1)) \cup {NoID})
Places == UNION {{s[i] : i \in 1 .. Len(s)} : s \in Selections}

ASSUME ClientsDisjoint == Editors \cap Devices = {}
ASSUME SizesAssumption ==
    /\ Radix \in Nat /\ Radix > 1
    /\ Word \in Nat /\ Word > Capacity
    /\ MaxCalls \in Nat
ASSUME TablesAssumption ==
    /\ ListTypes \subseteq 0 .. 2
    /\ FlagOf \in [Lines -> Nat]
    /\ \A s \in Selections : s \in Seq(Places)
    /\ \A t \in ListTypes : Stock[t] \subseteq
          [line : Lines, num : 1 .. Word - 1, name : Names \cup {NoName}]
    /\ 2 \in ListTypes => \A s \in Stock[2] : s.num < Capacity

VARIABLES
    listType,   \* which of the three kinds this behaviour is about
    db,         \* committed rows: row -> value
    put,        \* client -> rows its open transaction has written
    gone,       \* client -> committed rows its open transaction has deleted
    pc,         \* client -> the statement its call executes next
    arg,        \* client -> LIST_INFO and the call's locals
    ret,        \* what a call returned in the last step (0: FALSE, or no return)
    calls       \* number of calls so far; a call's number is its time stamp

vars == <<listType, db, put, gone, pc, arg, ret, calls>>

-----------------------------------------------------------------------------
(* Rows and the server                                                     *)

ListRow(id) == <<"list", id>>
ScopeRow(id, place) == <<"scope", id, place>>
StatusRow(id, device) == <<"status", id, device>>

EmptyRows == [r \in {} |-> 0]

\* The rows a statement of c sees, and what it sees in one of them.
Seen(c) == (DOMAIN db \ gone[c]) \cup DOMAIN put[c]
View(c, r) == IF r \in DOMAIN put[c] THEN put[c][r] ELSE db[r]

\* Rows locked by c until its transaction ends.
Locks(c) == gone[c] \cup DOMAIN put[c]

\* c may write these rows: no other open transaction has written one.
Free(c, rows) == \A d \in Clients \ {c} : rows \cap Locks(d) = {}

\* A delete statement of c, on the rows it sees.
Delete(c, rows) ==
    LET seen == rows \cap Seen(c)
    IN  /\ Free(c, seen)
        /\ gone' = [gone EXCEPT ![c] = @ \cup (seen \cap DOMAIN db)]
        /\ put' = [put EXCEPT ![c] =
                     [r \in DOMAIN @ \ seen |-> @[r]]]

\* An insert or update statement of c on one row.
Write(c, row, value) ==
    /\ Free(c, {row})
    /\ put' = [put EXCEPT ![c] = [r \in DOMAIN @ \cup {row} |->
                                     IF r = row THEN value ELSE @[r]]]
    /\ UNCHANGED gone

\* Whether a statement that is caught locally succeeds.
Outcome(statement) ==
    IF statement \in Faults THEN BOOLEAN ELSE {TRUE}

-----------------------------------------------------------------------------
(* Identifiers                                                             *)

\* The lists c sees.
ListsSeen(c) == {r \in Seen(c) : r[1] = "list"}

\* select max(List_ID) where Import_Line = line, as a number; -1 when null.
\* Codes of one line have one flag and one length: text order is the order
\* of their numbers.
MaxNum(c, line) ==
    LET ofLine == {r \in ListsSeen(c) : View(c, r).line = line}
    IN  IF ofLine = {} THEN -1 ELSE Max({r[2][2] : r \in ofLine})

\* The number after max: the sum is computed in a UINT.  Null is not ten
\* characters long and starts the numbering at 1.
IncreaseCode(max) == IF max = -1 THEN 1 ELSE (max + 1) % Word

\* The same for the five characters of a Default_List, whose largest number
\* is far from the limit of a UINT; the result may have a digit too many.
IncreaseDefaultCode(max) == IF max = -1 THEN 1 ELSE max + 1

\* Mutant: the four low digits are kept.
ShortenIDTail(id) ==
    IF listType = 2 THEN <<id[1], id[2] % Capacity>> ELSE id

\* "Keep the head and the tail": of the five digits of a Default_List number
\* that has outgrown four, the third is dropped.
ShortenID(id) ==
    IF listType = 2 /\ id[2] >= Capacity
      THEN <<id[1], (id[2] \div (Radix * Radix * Radix)) * Radix * Radix
                      + (id[2] % (Radix * Radix))>>
      ELSE id

-----------------------------------------------------------------------------
NoArg == [upd |-> 0, id |-> NoID, name |-> NoName, title |-> NoName,
          line |-> NoName, sel |-> <<>>, i |-> 1, changed |-> FALSE,
          idok |-> FALSE, stamp |-> 0]

\* The tables when the behaviour starts: the stocked lists, and for those
\* with a name the whole scope and every device's download.
StockDb(stock) ==
    LET IdOf(s) == <<FlagOf[s.line], s.num>>
        named == {s \in stock : s.name # NoName}
        lists == {ListRow(IdOf(s)) : s \in stock}
        others == UNION {{ScopeRow(IdOf(s), p) : p \in Places}
                           \cup {StatusRow(IdOf(s), d) : d \in Devices} : s \in named}
        saved(r) == CHOOSE s \in stock : IdOf(s) = r[2]
    IN  [r \in lists \cup others |->
           IF r[1] = "list"
             THEN [name |-> saved(r).name, title |-> saved(r).name,
                   line |-> saved(r).line, stamp |-> 0]
             ELSE 0]

Init ==
    /\ listType \in ListTypes
    /\ db = StockDb(Stock[listType])
    /\ put = [c \in Clients |-> EmptyRows]
    /\ gone = [c \in Clients |-> {}]
    /\ pc = [c \in Clients |-> "idle"]
    /\ arg = [c \in Clients |-> NoArg]
    /\ ret = 0
    /\ calls = 0

Goto(c, label) == pc' = [pc EXCEPT ![c] = label]

\* The call ends; the caller's LIST_INFO keeps the identifier.
Return(c, value) ==
    /\ Goto(c, "idle")
    /\ ret' = value
    /\ arg' = [arg EXCEPT ![c] = [NoArg EXCEPT !.id = arg[c].id]]

\* Mutant: the deletions of a finished transaction stay pending.
EndTransactionHalf(c) ==
    /\ put' = [put EXCEPT ![c] = EmptyRows]
    /\ UNCHANGED gone

\* The server ends the transaction of c and gives up its locks.
EndTransaction(c) ==
    /\ put' = [put EXCEPT ![c] = EmptyRows]
    /\ gone' = [gone EXCEPT ![c] = {}]

\* Mutant: a failed call keeps its connection and with it the transaction.
AbortHeld(c) ==
    /\ Return(c, 0)
    /\ UNCHANGED <<db, put, gone>>

\* catch (_com_error): FALSE is returned and pConn is released.
Abort(c) ==
    /\ Return(c, 0)
    /\ EndTransaction(c)
    /\ UNCHANGED db

-----------------------------------------------------------------------------
(* Saving a list                                                           *)

\* The column IsExistName looks a list up by.
Key(row) == IF listType = 2 THEN row.title ELSE row.name

\* IsExistName: the lists that have the name (the first record is taken).
IsExistName(name) ==
    {r[2] : r \in {q \in DOMAIN db : q[1] = "list" /\ Key(db[q]) = name}}

\* The editor looks the name up on a connection of its own and then calls
\* Update(Default)PlayListRecord: a new record, in a LIST_INFO that is fresh
\* or was used before, or the record found.
BeginSave(c, name, line, sel) ==
    /\ pc[c] = "idle"
    /\ calls < MaxCalls
    /\ calls' = calls + 1
    /\ \/ /\ IsExistName(name) = {}
          /\ \E id \in {NoID, arg[c].id} :
                arg' = [arg EXCEPT ![c] =
                          [NoArg EXCEPT !.id = id, !.name = name,
                                        !.title = name, !.line = line,
                                        !.sel = sel, !.stamp = calls + 1]]
          /\ Goto(c, "maxid")
       \/ \E id \in IsExistName(name), changed \in BOOLEAN :
             /\ arg' = [arg EXCEPT ![c] =
                          [NoArg EXCEPT !.upd = 1, !.id = id, !.name = name,
                                        !.line = line, !.sel = sel,
                                        !.changed = changed, !.idok = TRUE,
                                        !.stamp = calls + 1]]
             /\ Goto(c, IF changed THEN "clear" ELSE "update")
    /\ ret' = 0
    /\ UNCHANGED <<listType, db, put, gone>>

\* No station selection: -1 is returned before the database is opened.
SaveNothing(c) ==
    /\ pc[c] = "idle"
    /\ calls < MaxCalls
    /\ calls' = calls + 1
    /\ Return(c, -1)
    /\ UNCHANGED <<listType, db, put, gone>>

\* GetPlayListID / GetDefaultPlayListID.  When its select fails the record
\* is not inserted, but the call goes on to the scope.
GetPlayListID(c) ==
    /\ pc[c] = "maxid"
    /\ \E ok \in Outcome("id") :
         IF ok
           THEN /\ arg' = [arg EXCEPT
                     ![c].id = <<FlagOf[arg[c].line],
                                 IF listType = 2
                                   THEN IncreaseDefaultCode(MaxNum(c, arg[c].line))
                                   ELSE IncreaseCode(MaxNum(c, arg[c].line))>>,
                     ![c].idok = TRUE]
                /\ Goto(c, "title")
           ELSE Goto(c, "zone") /\ UNCHANGED arg
    /\ ret' = 0
    /\ UNCHANGED <<listType, db, put, gone, calls>>

\* IsExistTitleEx: a title in use, or a failed select, is replaced by the
\* identifier.  After that a Default_List identifier is shortened.
CheckTitle(c) ==
    /\ pc[c] = "title"
    /\ \E ok \in Outcome("title") :
         LET taken == \E r \in ListsSeen(c) :
                        View(c, r).title = arg[c].title
         IN  arg' = [arg EXCEPT
                       ![c].title = IF ok /\ ~taken THEN @ ELSE arg[c].id,
                       ![c].id = ShortenID(@)]
    /\ Goto(c, "insert")
    /\ ret' = 0
    /\ UNCHANGED <<listType, db, put, gone, calls>>

\* Insert into the list table; a key that exists is an exception.
InsertList(c) ==
    /\ pc[c] = "insert"
    /\ Free(c, {ListRow(arg[c].id)})
    /\ IF ListRow(arg[c].id) \in Seen(c)
         THEN Abort(c)
         ELSE /\ Write(c, ListRow(arg[c].id),
                       [name |-> arg[c].name, title |-> arg[c].title,
                        line |-> arg[c].line, stamp |-> arg[c].stamp])
              /\ Goto(c, "zone")
              /\ ret' = 0
              /\ UNCHANGED <<db, arg>>
    /\ UNCHANGED <<listType, calls>>

\* The update time differs: what the devices downloaded is out of date.
ClearStatus(c) ==
    /\ pc[c] = "clear"
    /\ Delete(c, {StatusRow(arg[c].id, d) : d \in Devices})
    /\ Goto(c, "update")
    /\ ret' = 0
    /\ UNCHANGED <<listType, db, arg, calls>>

\* Mutant: the record is updated on a connection of its own.
UpdateListApart(c) ==
    /\ pc[c] = "update"
    /\ db' = [db EXCEPT ![ListRow(arg[c].id)].stamp = arg[c].stamp]
    /\ Goto(c, "zone")
    /\ ret' = 0
    /\ UNCHANGED <<listType, put, gone, arg, calls>>

\* Update the list's record; its row is locked from here on.
UpdateList(c) ==
    /\ pc[c] = "update"
    /\ Write(c, ListRow(arg[c].id),
             [View(c, ListRow(arg[c].id)) EXCEPT !.stamp = arg[c].stamp])
    /\ Goto(c, "zone")
    /\ ret' = 0
    /\ UNCHANGED <<listType, db, arg, calls>>

\* Mutant: the scope is deleted for new records only (iUpdate == 0).
DeleteScopeOfNew(c) ==
    /\ pc[c] = "zone"
    /\ Delete(c, {ScopeRow(arg[c].id, p) : p \in
                    IF arg[c].upd = 0 THEN Places ELSE {}})
    /\ Goto(c, IF arg[c].sel = <<>> THEN "commit" ELSE "place")
    /\ ret' = 0
    /\ UNCHANGED <<listType, db, arg, calls>>

\* UpdatePlayListRecordZone: the old scope is deleted,
DeleteScope(c) ==
    /\ pc[c] = "zone"
    /\ Delete(c, {ScopeRow(arg[c].id, p) : p \in Places})
    /\ Goto(c, IF arg[c].sel = <<>> THEN "commit" ELSE "place")
    /\ ret' = 0
    /\ UNCHANGED <<listType, db, arg, calls>>

\* and for each selected place ...
NextPlace(c) ==
    /\ arg' = [arg EXCEPT ![c].i = @ + 1]
    /\ Goto(c, IF arg[c].i = Len(arg[c].sel) THEN "commit" ELSE "place")

\* ... isExistStation decides (a failed select is -1, not 0)
IsExistStation(c) ==
    /\ pc[c] = "place"
    /\ \E ok \in Outcome("station") :
         IF ok /\ ScopeRow(arg[c].id, arg[c].sel[arg[c].i]) \notin Seen(c)
           THEN Goto(c, "store") /\ UNCHANGED arg
           ELSE NextPlace(c)
    /\ ret' = 0
    /\ UNCHANGED <<listType, db, put, gone, calls>>

\* whether its row is inserted.
InsertPlace(c) ==
    LET row == ScopeRow(arg[c].id, arg[c].sel[arg[c].i])
    IN  /\ pc[c] = "store"
        /\ Free(c, {row})
        /\ IF row \in Seen(c)
             THEN Abort(c)
             ELSE /\ Write(c, row, arg[c].stamp)
                  /\ NextPlace(c)
                  /\ ret' = 0
                  /\ UNCHANGED db
        /\ UNCHANGED <<listType, calls>>

\* CommitTrans and Close; a failure of Close, or of CommitTrans after the
\* server has committed, makes the result FALSE.
Commit(c) ==
    /\ pc[c] = "commit"
    /\ db' = [r \in Seen(c) |-> View(c, r)]
    /\ EndTransaction(c)
    /\ \E closed \in Outcome("stmt") :
         Return(c, IF closed /\ arg[c].idok THEN 1 ELSE 0)
    /\ UNCHANGED <<listType, calls>>

-----------------------------------------------------------------------------
(* SetDownloadStatus                                                       *)

\* A report on a list that no editor saves here meets no other call's rows:
\* the reports on lists without a name are left out.
BeginReport(d, id) ==
    /\ pc[d] = "idle"
    /\ calls < MaxCalls
    /\ calls' = calls + 1
    /\ arg' = [arg EXCEPT ![d] = [NoArg EXCEPT !.id = id, !.idok = TRUE,
                                               !.stamp = calls + 1]]
    /\ Goto(d, "unreport")
    /\ ret' = 0
    /\ UNCHANGED <<listType, db, put, gone>>

DeleteStatus(d) ==
    /\ pc[d] = "unreport"
    /\ Delete(d, {StatusRow(arg[d].id, d)})
    /\ Goto(d, "report")
    /\ ret' = 0
    /\ UNCHANGED <<listType, db, arg, calls>>

InsertStatus(d) ==
    LET row == StatusRow(arg[d].id, d)
    IN  /\ pc[d] = "report"
        /\ Free(d, {row})
        /\ IF row \in Seen(d)
             THEN Abort(d)
             ELSE /\ Write(d, row, arg[d].stamp)
                  /\ Goto(d, "commit")
                  /\ ret' = 0
                  /\ UNCHANGED <<db, arg>>
        /\ UNCHANGED <<listType, calls>>

\* Any statement may raise _com_error: no connection, a lock waited for too
\* long, a lost server.
Fail(c) ==
    /\ pc[c] # "idle"
    /\ "stmt" \in Faults
    /\ Abort(c)
    /\ UNCHANGED <<listType, calls>>

\* The statements of a save.
SaveStatement(c) ==
    \/ GetPlayListID(c) \/ CheckTitle(c) \/ InsertList(c)
    \/ ClearStatus(c) \/ UpdateList(c)
    \/ DeleteScope(c) \/ IsExistStation(c) \/ InsertPlace(c)
    \/ Commit(c)

UpdatePlayListRecord(c) == listType # 2 /\ SaveStatement(c)
UpdateDefaultPlayListRecord(c) == listType = 2 /\ SaveStatement(c)
SetDownloadStatus(d) == DeleteStatus(d) \/ InsertStatus(d) \/ Commit(d)

\* The next statement of a call that is under way.
Statement(c) ==
    \/ c \in Editors /\ UpdatePlayListRecord(c)
    \/ c \in Editors /\ UpdateDefaultPlayListRecord(c)
    \/ c \in Devices /\ SetDownloadStatus(c)

Next ==
    \/ \E c \in Editors :
         \/ SaveNothing(c)
         \/ \E name \in Names, line \in Lines, sel \in Selections :
              BeginSave(c, name, line, sel)
    \/ \E d \in Devices, r \in DOMAIN db :
         r[1] = "list" /\ db[r].name # NoName /\ BeginReport(d, r[2])
    \/ \E c \in Clients : Statement(c) \/ Fail(c)

\* A call in progress executes its next statement unless it waits for a lock.
Spec == Init /\ [][Next]_vars /\ \A c \in Clients : WF_vars(Statement(c))
-----------------------------------------------------------------------------
(* Properties                                                              *)

Rows == ({"list"} \X Ids) \cup ({"scope"} \X Ids \X Places)
          \cup ({"status"} \X Ids \X Devices)
Stamps == 0 .. MaxCalls
ListValues ==
    [name : Names \cup {NoName}, title : Names \cup Ids \cup {NoName},
     line : Lines, stamp : Stamps]
RowsOK(f) ==
    /\ DOMAIN f \subseteq Rows
    /\ \A r \in DOMAIN f :
          IF r[1] = "list" THEN f[r] \in ListValues ELSE f[r] \in Stamps
Labels == {"idle", "maxid", "title", "insert", "clear", "update", "zone",
           "place", "store", "unreport", "report", "commit"}

\* Type invariant: tables, open transactions and call records have their types.
TypeOKPlayList ==
    /\ listType \in ListTypes
    /\ RowsOK(db)
    /\ \A c \in Clients :
          /\ RowsOK(put[c])
          /\ gone[c] \subseteq DOMAIN db
          /\ pc[c] \in Labels
          /\ arg[c].id \in Ids /\ arg[c].stamp \in Stamps
    /\ ret \in {-1, 0, 1}
    /\ calls \in Stamps

\* The committed scope of a list is never a mixture of two editors' choices:
\* each of its rows was written by the call whose data the list's own record
\* holds.  The transaction takes the list's record before its scope, so two
\* editors of one list cannot both be in UpdatePlayListRecordZone.
NoMixedScope ==
    \A r \in DOMAIN db :
      (r[1] = "scope" /\ ListRow(r[2]) \in DOMAIN db)
        => db[r] = db[ListRow(r[2])].stamp

\* A list that is added gets a number above those of all lists of its line,
\* also when editors read the same maximum and when the four digits of a
\* Default_List are used up: identifiers are never reused or reordered.
NewIdsGrow ==
    [][\A r \in DOMAIN db' \ DOMAIN db, q \in DOMAIN db :
         (r[1] = "list" /\ q[1] = "list" /\ db[q].line = db'[r].line)
           => r[2][2] > q[2][2]]_vars

\* Update(Default)PlayListRecord returns TRUE only when the list's record and
\* exactly the selected places are in the database.
SavedWhole ==
    [][\A c \in Editors :
         (pc[c] # "idle" /\ ret' = 1 /\ pc'[c] = "idle")
           => /\ ListRow(arg[c].id) \in DOMAIN db'
              /\ db'[ListRow(arg[c].id)].stamp = arg[c].stamp
              /\ {p \in Places : ScopeRow(arg[c].id, p) \in DOMAIN db'}
                   = {arg[c].sel[i] : i \in 1 .. Len(arg[c].sel)}]_vars

\* Every call returns: the transactions take their locks in one order
\* (status, list, scope) and give them up on every path, so no call waits
\* for ever for another.
CallsReturn == \A c \in Clients : (pc[c] # "idle") ~> (pc[c] = "idle")

\* "iUpdate == 0 //add new record": a call that adds a list leaves the rows of
\* the lists that exist alone, also when another editor has added one under
\* the number it has read.
AddOnlyAdds ==
    [][\A c \in Editors, r \in DOMAIN db :
         (/\ pc[c] = "commit" /\ pc'[c] = "idle" /\ arg[c].upd = 0
          /\ ListRow(r[2]) \in DOMAIN db)
         => r \in DOMAIN db' /\ db'[r] = db[r]]_vars
=============================================================================

--------------------------- MODULE PlayListProofs ---------------------------
(***************************************************************************)
(* Proofs about PlayList, for any editors, devices, names, lines, places,  *)
(* stocked lists and number of calls.                                      *)
(*                                                                         *)
(* The argument: a transaction locks what it writes, so no row is in two   *)
(* of them (ServerOK); every call that has come to the scope of a list     *)
(* holds the list's record (HeldInv), so that no two calls are there for   *)
(* one list, and nobody can commit scope of it behind the back of the one  *)
(* that is; then the places the loop finds in the table are its own        *)
(* (PlacesInv).  CallsOK says where each call stands.  For the identifiers *)
(* NumInv says what a commit cannot spoil: the number a call has read is   *)
(* still the next one of its line, or its row is there and the insertion   *)
(* will fail.  AddInv says of a call that adds a list that the list is not *)
(* in the table and that it has deleted nothing of another one.            *)
(***************************************************************************)
EXTENDS PlayList, WellFoundedInduction, TLAPS

(* A call that has taken the list's record. *)
Writing == {"zone", "place", "store", "commit"}
EditorLabels == {"idle", "maxid", "title", "insert", "clear", "update"} \cup Writing
DeviceLabels == {"idle", "unreport", "report", "commit"}

ArgRec ==
    [upd : {0, 1}, id : Ids, name : Names \cup {NoName},
     title : Names \cup Ids \cup {NoName}, line : Lines \cup {NoName},
     sel : Selections \cup {<<>>}, i : Nat, changed : BOOLEAN,
     idok : BOOLEAN, stamp : Stamps]

(* The variables are functions on the clients. *)
Shape ==
    /\ listType \in ListTypes
    /\ DOMAIN put = Clients /\ DOMAIN gone = Clients
    /\ pc \in [Clients -> Labels] /\ arg \in [Clients -> ArgRec]
    /\ ret \in {-1, 0, 1}
    /\ calls \in Stamps

(* The lists of a table have at most four digits when they are Default_Lists. *)
SmallNums(f) ==
    listType = 2 => \A r \in DOMAIN f : r[1] = "list" => r[2][2] < Capacity

(* What one transaction holds, next to the committed rows. *)
TransactionOK(rows, w, g) ==
    /\ RowsOK(w) /\ SmallNums(w)
    /\ g \subseteq DOMAIN rows
    /\ \A r \in g : r[1] # "list"

(* No row is locked twice. *)
LocksApart ==
    \A c, d \in Clients : c # d => Locks(c) \cap Locks(d) = {}

ServerOK ==
    /\ RowsOK(db) /\ SmallNums(db)
    /\ \A c \in Clients : TransactionOK(db, put[c], gone[c])
    /\ LocksApart

(* Where the call of c stands: a, at the statement p. *)
CallOK(c, p, a, rows) ==
    /\ p \in IF c \in Editors THEN EditorLabels ELSE DeviceLabels
    /\ (c \in Editors /\ p # "idle")
         => a.name \in Names /\ a.line \in Lines /\ a.sel \in Selections
    /\ p \in {"clear", "update"} => ListRow(a.id) \in DOMAIN rows
    /\ (listType = 2 /\ p = "title") => a.id[2] <= Capacity
    /\ (listType = 2 /\ p = "insert") => a.id[2] < Capacity
    /\ p \in {"maxid", "title", "insert", "clear", "update", "zone"} => a.i = 1
    /\ p \in {"place", "store"} => a.i \in 1 .. Len(a.sel)

CallsOK == \A c \in Clients : CallOK(c, pc[c], arg[c], db)

BaseInv == Shape /\ ServerOK /\ CallsOK

-----------------------------------------------------------------------------
(* Rows                                                                    *)

(* The row of a list of the tables, and its value. *)
LEMMA ListRowType ==
    ASSUME NEW f, RowsOK(f), NEW r \in DOMAIN f, r[1] = "list"
    PROVE  /\ r[2] \in Ids /\ r = ListRow(r[2])
           /\ r[2][2] \in 0 .. Word - 1
           /\ f[r] \in ListValues
<1>1. r \in Rows
  BY DEF RowsOK
<1>2. r \in {"list"} \X Ids
  BY <1>1 DEF Rows
<1>3. \A id \in Ids : id[2] \in 0 .. Word - 1
  BY SizesAssumption DEF Ids, NoID, Capacity
<1>4. QED
  BY <1>2, <1>3 DEF RowsOK, ListRow

(* The row of a scope names a list and a place; a download's has no scope. *)
LEMMA ScopeRowType ==
    ASSUME NEW f, RowsOK(f), NEW r \in DOMAIN f, r[1] = "scope"
    PROVE  /\ r[2] \in Ids /\ r[3] \in Places
           /\ r = ScopeRow(r[2], r[3])
           /\ f[r] \in Stamps
<1>1. r \in Rows
  BY DEF RowsOK
<1>2. r \in {"scope"} \X Ids \X Places
  BY <1>1 DEF Rows
<1>3. QED
  BY <1>2 DEF RowsOK, ScopeRow

(* The three kinds of row are told apart by their first column. *)
LEMMA RowKinds ==
    ASSUME NEW id, NEW x
    PROVE  /\ ListRow(id)[1] = "list" /\ ListRow(id)[2] = id
           /\ ScopeRow(id, x)[1] = "scope" /\ ScopeRow(id, x)[2] = id
           /\ ScopeRow(id, x)[3] = x
           /\ StatusRow(id, x)[1] = "status" /\ StatusRow(id, x)[2] = id
           /\ id \in Ids => /\ ListRow(id) \in Rows
                            /\ x \in Places => ScopeRow(id, x) \in Rows
                            /\ x \in Devices => StatusRow(id, x) \in Rows
BY DEF ListRow, ScopeRow, StatusRow, Rows

(* A delete statement takes rows away from a transaction's view; deleting  *)
(* no list's record keeps the server's invariant.                          *)
LEMMA DeleteServer ==
    ASSUME ServerOK, Shape, NEW c \in Clients, NEW rows, Delete(c, rows),
           \A r \in rows : r[1] # "list", UNCHANGED <<db, listType>>
    PROVE  ServerOK' /\ DOMAIN put' = Clients /\ DOMAIN gone' = Clients
<1> PICK seen : seen = rows \cap Seen(c)
  OBVIOUS
<1>1. /\ Free(c, seen)
      /\ gone' = [gone EXCEPT ![c] = @ \cup (seen \cap DOMAIN db)]
      /\ put' = [put EXCEPT ![c] = [r \in DOMAIN @ \ seen |-> @[r]]]
  BY DEF Delete
<1>2. /\ DOMAIN put' = Clients /\ DOMAIN gone' = Clients
      /\ gone'[c] = gone[c] \cup (seen \cap DOMAIN db)
      /\ put'[c] = [r \in DOMAIN put[c] \ seen |-> put[c][r]]
      /\ \A d \in Clients \ {c} : put'[d] = put[d] /\ gone'[d] = gone[d]
  BY <1>1 DEF Shape
<1>3. TransactionOK(db, put[c], gone[c])'
  BY <1>2 DEF ServerOK, TransactionOK, RowsOK, SmallNums
<1>4. ASSUME NEW d \in Clients \ {c} PROVE TransactionOK(db, put[d], gone[d])'
  BY <1>2 DEF ServerOK, TransactionOK, SmallNums
<1>5. LocksApart'
  BY <1>1, <1>2 DEF ServerOK, LocksApart, Locks, Free
<1>6. (RowsOK(db) /\ SmallNums(db))'
  BY DEF ServerOK, SmallNums, RowsOK
<1>7. QED
  BY <1>2, <1>3, <1>4, <1>5, <1>6 DEF ServerOK

(* A row with a value of its type. *)
RowValue(row, value) ==
    /\ row \in Rows
    /\ IF row[1] = "list" THEN value \in ListValues ELSE value \in Stamps
    /\ (listType = 2 /\ row[1] = "list") => row[2][2] < Capacity

(* An insert or update statement keeps the server's invariant. *)
LEMMA WriteServer ==
    ASSUME ServerOK, Shape, NEW c \in Clients, NEW row, NEW value,
           Write(c, row, value), RowValue(row, value), UNCHANGED <<db, listType>>
    PROVE  ServerOK' /\ DOMAIN put' = Clients /\ DOMAIN gone' = Clients
<1>1. /\ Free(c, {row})
      /\ DOMAIN put' = Clients /\ gone' = gone
      /\ put'[c] = [r \in DOMAIN put[c] \cup {row} |->
                      IF r = row THEN value ELSE put[c][r]]
      /\ \A d \in Clients \ {c} : put'[d] = put[d]
  BY DEF Write, Shape
<1>2. PICK w : w = put'[c]
  OBVIOUS
<1>3. RowsOK(w) /\ SmallNums(w)
  BY <1>1, <1>2 DEF ServerOK, TransactionOK, RowsOK, SmallNums, RowValue
<1>4. TransactionOK(db, put[c], gone[c])'
  BY <1>1, <1>2, <1>3 DEF ServerOK, TransactionOK, SmallNums, RowsOK
<1>5. ASSUME NEW d \in Clients \ {c} PROVE TransactionOK(db, put[d], gone[d])'
  BY <1>1 DEF ServerOK, TransactionOK, SmallNums, RowsOK
<1>6. LocksApart'
  BY <1>1 DEF ServerOK, LocksApart, Locks, Free
<1>7. (RowsOK(db) /\ SmallNums(db))'
  BY DEF ServerOK, SmallNums, RowsOK
<1>8. QED
  BY <1>1, <1>4, <1>5, <1>6, <1>7 DEF ServerOK, Shape

(* The end of a transaction without its rows keeps the server's invariant. *)
LEMMA RollbackServer ==
    ASSUME ServerOK, Shape, NEW c \in Clients, EndTransaction(c),
           UNCHANGED <<db, listType>>
    PROVE  ServerOK' /\ DOMAIN put' = Clients /\ DOMAIN gone' = Clients
<1>1. /\ DOMAIN put' = Clients /\ DOMAIN gone' = Clients
      /\ gone'[c] = {} /\ put'[c] = EmptyRows
      /\ \A d \in Clients \ {c} : put'[d] = put[d] /\ gone'[d] = gone[d]
  BY DEF EndTransaction, Shape
<1>2. DOMAIN EmptyRows = {}
  BY DEF EmptyRows
<1>3. TransactionOK(db, put[c], gone[c])'
  BY <1>1, <1>2 DEF TransactionOK, RowsOK, SmallNums
<1>4. ASSUME NEW d \in Clients \ {c} PROVE TransactionOK(db, put[d], gone[d])'
  BY <1>1 DEF ServerOK, TransactionOK, SmallNums, RowsOK
<1>5. LocksApart'
  BY <1>1, <1>2 DEF ServerOK, LocksApart, Locks
<1>6. (RowsOK(db) /\ SmallNums(db))'
  BY DEF ServerOK, SmallNums, RowsOK
<1>7. QED
  BY <1>1, <1>3, <1>4, <1>5, <1>6 DEF ServerOK

(* A commit makes the transaction's view the table, keeps every list and   *)
(* the rows the others have deleted.                                       *)
LEMMA CommitServer ==
    ASSUME ServerOK, Shape, NEW c \in Clients, EndTransaction(c),
           db' = [r \in Seen(c) |-> View(c, r)], UNCHANGED listType
    PROVE  /\ ServerOK' /\ DOMAIN put' = Clients /\ DOMAIN gone' = Clients
           /\ \A r \in DOMAIN db : r[1] = "list" => r \in DOMAIN db'
<1>1. /\ DOMAIN put' = Clients /\ DOMAIN gone' = Clients
      /\ gone'[c] = {} /\ put'[c] = EmptyRows
      /\ \A d \in Clients \ {c} : put'[d] = put[d] /\ gone'[d] = gone[d]
  BY DEF EndTransaction, Shape
<1>2. DOMAIN EmptyRows = {}
  BY DEF EmptyRows
<1>3. DOMAIN db' = (DOMAIN db \ gone[c]) \cup DOMAIN put[c]
  BY DEF Seen
<1>4. RowsOK(db) /\ RowsOK(put[c]) /\ SmallNums(db) /\ SmallNums(put[c])
  BY DEF ServerOK, TransactionOK
<1>5. \A r \in DOMAIN db' : db'[r] = IF r \in DOMAIN put[c] THEN put[c][r] ELSE db[r]
  BY <1>3 DEF Seen, View
<1>6. (RowsOK(db) /\ SmallNums(db))'
  BY <1>3, <1>4, <1>5 DEF RowsOK, SmallNums
<1>7. TransactionOK(db, put[c], gone[c])'
  BY <1>1, <1>2 DEF TransactionOK, RowsOK, SmallNums
<1>8. ASSUME NEW d \in Clients \ {c} PROVE TransactionOK(db, put[d], gone[d])'
  <2>1. gone[d] \cap gone[c] = {}
    BY DEF ServerOK, LocksApart, Locks
  <2>2. gone'[d] \subseteq DOMAIN db'
    BY <1>1, <1>3, <2>1 DEF ServerOK, TransactionOK
  <2>3. QED
    BY <1>1, <2>2 DEF ServerOK, TransactionOK, SmallNums, RowsOK
<1>9. LocksApart'
  BY <1>1, <1>2 DEF ServerOK, LocksApart, Locks
<1>10. \A r \in DOMAIN db : r[1] = "list" => r \in DOMAIN db'
  BY <1>3 DEF ServerOK, TransactionOK
<1>11. QED
  BY <1>1, <1>6, <1>7, <1>8, <1>9, <1>10 DEF ServerOK

-----------------------------------------------------------------------------
(* Identifiers                                                             *)

(* A bounded set of naturals that is not empty has a largest element. *)
LEMMA MaxOfBounded ==
    ASSUME NEW n \in Nat, NEW S \in SUBSET (0 .. n), S # {}
    PROVE  Max(S) \in S /\ \A x \in S : Max(S) >= x
<1>1. PICK R, N : N = Nat /\ IsWellFoundedOn(R, N)
                    /\ \A x, y \in Nat : x < y => <<x, y>> \in R
  <2>1. \A x, y \in Nat : x < y => <<x, y>> \in OpToRel(<, Nat)
    BY DEF OpToRel
  <2>2. QED
    BY <2>1, NatLessThanWellFounded, Zenon
<1>2. PICK T : T = {y \in 0 .. n : n - y \in S}
  OBVIOUS
<1>3. T \subseteq Nat
  BY <1>2
<1>4. T # {}
  <2>1. PICK x \in S : TRUE
    OBVIOUS
  <2>2. n - x \in 0 .. n /\ n - (n - x) = x
    OBVIOUS
  <2>3. QED
    BY <1>2, <2>1, <2>2
<1>5. \E t \in T : \A y \in T : ~(<<y, t>> \in R)
  <2>1. IsWellFoundedOn(R, N)
    BY <1>1
  <2>2. T \subseteq N
    BY <1>1, <1>3
  <2>3. QED
    BY <2>1, <2>2, <1>4, WFMin
<1>6. PICK t \in T : \A y \in T : ~(<<y, t>> \in R)
  BY <1>5
<1>7. n - t \in S /\ t \in 0 .. n
  BY <1>2, <1>6
<1>8. ASSUME NEW x \in S PROVE n - t >= x
  <2>1. n - x \in 0 .. n /\ n - (n - x) = x
    OBVIOUS
  <2>2. n - x \in T
    BY <1>2, <2>1
  <2>3. ~(n - x < t)
    BY <1>1, <1>3, <1>6, <2>2
  <2>4. QED
    BY <1>7, <2>1, <2>3
<1>9. \E m \in S : \A x \in S : m >= x
  BY <1>7, <1>8
<1>10. QED
  BY <1>9 DEF Max

(* Capacity is a natural number, and so is its predecessor. *)
LEMMA CapacityNat == Capacity \in Nat /\ Capacity > 1 /\ Capacity < Word
<1>1. Radix * Radix \in Nat /\ Radix * Radix > 1
  BY SizesAssumption
<1>2. Radix * Radix * Radix \in Nat /\ Radix * Radix * Radix > 1
  BY <1>1, SizesAssumption
<1>3. QED
  BY <1>2, SizesAssumption DEF Capacity

(* The largest number of a line is none, or one of the numbers seen. *)
LEMMA MaxNumType ==
    ASSUME ServerOK, NEW c \in Clients, NEW line
    PROVE  /\ MaxNum(c, line) \in {-1} \cup (0 .. Word - 1)
           /\ listType = 2 => MaxNum(c, line) < Capacity
<1>1. PICK L : L = {r \in ListsSeen(c) : View(c, r).line = line}
  OBVIOUS
<1>2. MaxNum(c, line) = IF L = {} THEN -1 ELSE Max({r[2][2] : r \in L})
  BY <1>1 DEF MaxNum
<1>3. CASE L = {}
  BY <1>2, <1>3, CapacityNat, SizesAssumption
<1>4. CASE L # {}
  <2>1. ASSUME NEW r \in L
        PROVE  r[2][2] \in 0 .. Word - 1 /\ (listType = 2 => r[2][2] < Capacity)
    <3>1. r[1] = "list" /\ (r \in DOMAIN db \/ r \in DOMAIN put[c])
      BY <1>1 DEF ListsSeen, Seen
    <3>2. RowsOK(db) /\ RowsOK(put[c]) /\ SmallNums(db) /\ SmallNums(put[c])
      BY DEF ServerOK, TransactionOK
    <3>3. r[2][2] \in 0 .. Word - 1
      BY <3>1, <3>2, ListRowType
    <3>4. QED
      BY <3>1, <3>2, <3>3 DEF SmallNums
  <2>2. PICK S : S = {r[2][2] : r \in L}
    OBVIOUS
  <2>3. S \subseteq 0 .. Word - 1 /\ S # {} /\ Word - 1 \in Nat
    BY <1>4, <2>1, <2>2, SizesAssumption, CapacityNat
  <2>4. Max(S) \in S
    BY <2>3, MaxOfBounded
  <2>5. QED
    BY <1>2, <1>4, <2>1, <2>2, <2>3, <2>4
<1>5. QED
  BY <1>3, <1>4

(* The code after the largest one is an identifier, with at most one digit *)
(* too many.                                                               *)
LEMMA NextIdType ==
    ASSUME ServerOK, NEW c \in Clients, NEW line \in Lines, NEW id,
           id = <<FlagOf[line], IF listType = 2
                                  THEN IncreaseDefaultCode(MaxNum(c, line))
                                  ELSE IncreaseCode(MaxNum(c, line))>>
    PROVE  id \in Ids /\ (listType = 2 => id[2] <= Capacity)
<1>1. PICK m : m = MaxNum(c, line)
  OBVIOUS
<1>2. m \in {-1} \cup (0 .. Word - 1) /\ (listType = 2 => m < Capacity)
  BY <1>1, MaxNumType
<1>3. IncreaseCode(m) \in 0 .. Word - 1
  BY <1>2, SizesAssumption, CapacityNat DEF IncreaseCode
<1>4. listType = 2 => IncreaseDefaultCode(m) \in 0 .. Word - 1
                        /\ IncreaseDefaultCode(m) <= Capacity
  BY <1>2, SizesAssumption, CapacityNat DEF IncreaseDefaultCode
<1>5. QED
  BY <1>1, <1>3, <1>4 DEF Ids

(* The least number of four digits. *)
Cube == Radix * Radix * Radix

LEMMA CubeFacts == Cube \in Nat /\ Cube > 1 /\ Cube < Capacity
<1>1. PICK S : S = Radix * Radix /\ S \in Nat /\ S > 1 /\ Radix \in Nat /\ Radix > 1
  BY SizesAssumption
<1>2. Cube = S * Radix
  BY <1>1 DEF Cube
<1>3. Cube \in Nat /\ Cube > 1
  BY <1>1, <1>2
<1>4. Capacity = Cube * Radix
  BY DEF Cube, Capacity
<1>5. QED
  BY <1>1, <1>3, <1>4

(* The first number of five digits is shortened to the first of four. *)
LEMMA ShortenFirst ==
    ASSUME NEW id, listType = 2, id[2] = Capacity
    PROVE  ShortenID(id) = <<id[1], Cube>>
<1>1. PICK S : S = Radix * Radix
  OBVIOUS
<1>2. S \in Nat /\ S > 1 /\ Radix \in Nat /\ Radix > 1
  BY <1>1, SizesAssumption
<1>3. PICK K : K = S * Radix
  OBVIOUS
<1>4. K \in Nat /\ K > 1 /\ K = Cube /\ K = Radix * Radix * Radix
  BY <1>1, <1>2, <1>3, CubeFacts DEF Cube
<1>5. Capacity = K * Radix /\ Capacity = S * S /\ Capacity \in Nat
  BY <1>1, <1>2, <1>3, SizesAssumption, CapacityNat DEF Capacity
<1>6. (K * Radix) \div K = Radix
  BY <1>2, <1>4
<1>7. (S * S) % S = 0
  BY <1>2
<1>8. PICK n : n = (Capacity \div K) * Radix * Radix + (Capacity % S)
  OBVIOUS
<1>9. n = K
  <2>1. n = Radix * Radix * Radix + 0
    BY <1>5, <1>6, <1>7, <1>8
  <2>2. QED
    BY <1>4, <2>1
<1>10. ShortenID(id) = <<id[1], n>>
  BY <1>1, <1>4, <1>5, <1>8 DEF ShortenID
<1>11. QED
  BY <1>4, <1>9, <1>10

(* So a Default_List identifier stays within four digits. *)
LEMMA ShortenIDType ==
    ASSUME NEW id \in Ids, listType = 2 => id[2] <= Capacity
    PROVE  ShortenID(id) \in Ids /\ (listType = 2 => ShortenID(id)[2] < Capacity)
<1>1. id[2] \in 0 .. Word - 1
  BY SizesAssumption, CapacityNat DEF Ids, NoID
<1>2. CASE ~(listType = 2 /\ id[2] >= Capacity)
  BY <1>1, <1>2, CapacityNat DEF ShortenID
<1>3. CASE listType = 2 /\ id[2] >= Capacity
  <2>1. id[2] = Capacity
    BY <1>1, <1>3, CapacityNat
  <2>2. ShortenID(id) = <<id[1], Cube>>
    BY <1>3, <2>1, ShortenFirst
  <2>3. Cube \in 0 .. Word - 1 /\ Cube < Capacity
    BY CubeFacts, CapacityNat, SizesAssumption
  <2>4. id # NoID
    BY <2>1, CapacityNat DEF NoID
  <2>5. QED
    BY <2>2, <2>3, <2>4 DEF Ids
<1>4. QED
  BY <1>2, <1>3

-----------------------------------------------------------------------------
(* The calls                                                               *)

(* The call of c goes to the statement p with the record a. *)
Moves(c, p, a) ==
    pc' = [pc EXCEPT ![c] = p] /\ arg' = [arg EXCEPT ![c] = a]

(* A step that moves one call, well typed, and loses no list keeps the     *)
(* invariant.                                                              *)
LEMMA CallStep ==
    ASSUME BaseInv, NEW c \in Clients, NEW p \in Labels, NEW a \in ArgRec,
           Moves(c, p, a), CallOK(c, p, a, db)',
           ServerOK', DOMAIN put' = Clients, DOMAIN gone' = Clients,
           \A r \in DOMAIN db : r[1] = "list" => r \in DOMAIN db',
           ret' \in {-1, 0, 1}, calls' \in Stamps, UNCHANGED listType
    PROVE  BaseInv'
<1>1. /\ pc'[c] = p /\ arg'[c] = a
      /\ \A d \in Clients \ {c} : pc'[d] = pc[d] /\ arg'[d] = arg[d]
  BY DEF Moves, BaseInv, Shape
<1>2. Shape'
  BY DEF Moves, BaseInv, Shape
<1>3. CallOK(c, pc[c], arg[c], db)'
  BY <1>1 DEF CallOK
<1>4. ASSUME NEW d \in Clients \ {c} PROVE CallOK(d, pc[d], arg[d], db)'
  <2>1. CallOK(d, pc[d], arg[d], db)
    BY DEF BaseInv, CallsOK
  <2>2. ListRow(arg[d].id) \in DOMAIN db => ListRow(arg[d].id) \in DOMAIN db'
    BY RowKinds
  <2>3. QED
    BY <1>1, <2>1, <2>2 DEF CallOK
<1>5. QED
  BY <1>2, <1>3, <1>4 DEF BaseInv, CallsOK

(* What is kept of a call that has returned. *)
LEMMA ReturnMoves ==
    ASSUME BaseInv, NEW c \in Clients, NEW value, Return(c, value)
    PROVE  \E a \in ArgRec : Moves(c, "idle", a)
                               /\ \A rows : CallOK(c, "idle", a, rows)'
<1>1. arg[c] \in ArgRec
  BY DEF BaseInv, Shape
<1>2. PICK a : a = [NoArg EXCEPT !.id = arg[c].id]
  OBVIOUS
<1>3. a \in ArgRec
  <2>1. NoArg \in ArgRec
    BY SizesAssumption DEF NoArg, ArgRec, Ids, NoID, Stamps
  <2>2. QED
    BY <1>1, <1>2, <2>1 DEF ArgRec
<1>4. Moves(c, "idle", a)
  BY <1>2 DEF Return, Goto, Moves
<1>5. \A rows : CallOK(c, "idle", a, rows)'
  BY DEF CallOK, EditorLabels, DeviceLabels
<1>6. QED
  BY <1>3, <1>4, <1>5

(* Nothing happens to the server. *)
LEMMA ServerStays ==
    ASSUME BaseInv, UNCHANGED <<listType, db, put, gone>>
    PROVE  ServerOK' /\ DOMAIN put' = Clients /\ DOMAIN gone' = Clients
BY DEF BaseInv, Shape, ServerOK, TransactionOK, RowsOK, SmallNums, LocksApart, Locks

(* A failed call keeps the invariant. *)
LEMMA AbortBase ==
    ASSUME BaseInv, NEW c \in Clients, Abort(c), UNCHANGED <<listType, calls>>
    PROVE  BaseInv'
<1>1. Return(c, 0) /\ EndTransaction(c) /\ db' = db
  BY DEF Abort
<1>2. ServerOK' /\ DOMAIN put' = Clients /\ DOMAIN gone' = Clients
  BY <1>1, RollbackServer DEF BaseInv
<1>3. PICK a \in ArgRec : Moves(c, "idle", a) /\ CallOK(c, "idle", a, db)'
  BY <1>1, ReturnMoves
<1>4. ret' = 0
  BY <1>1 DEF Return
<1>5. "idle" \in Labels /\ calls' \in Stamps
  BY DEF Labels, BaseInv, Shape
<1>6. QED
  BY <1>1, <1>2, <1>3, <1>4, <1>5, CallStep

(* SaveNothing keeps the invariant. *)
LEMMA SaveNothingBase ==
    ASSUME BaseInv, NEW c \in Clients, SaveNothing(c)
    PROVE  BaseInv'
<1>1. Return(c, -1) /\ UNCHANGED <<listType, db, put, gone>>
  BY DEF SaveNothing
<1>2. ServerOK' /\ DOMAIN put' = Clients /\ DOMAIN gone' = Clients
  BY <1>1, ServerStays
<1>3. PICK a \in ArgRec : Moves(c, "idle", a) /\ CallOK(c, "idle", a, db)'
  BY <1>1, ReturnMoves
<1>4. ret' = -1
  BY <1>1 DEF Return
<1>5. "idle" \in Labels /\ calls' \in Stamps
  BY SizesAssumption DEF Labels, BaseInv, Shape, SaveNothing, Stamps
<1>6. QED
  BY <1>1, <1>2, <1>3, <1>4, <1>5, CallStep

(* What BeginSave puts into a call's record. *)
LEMMA BeginSaveMoves ==
    ASSUME BaseInv, NEW c \in Editors, NEW name \in Names, NEW line \in Lines,
           NEW sel \in Selections, BeginSave(c, name, line, sel)
    PROVE  \E p \in {"maxid", "clear", "update"}, a \in ArgRec :
             /\ Moves(c, p, a) /\ CallOK(c, p, a, db)'
             /\ a.i = 1 /\ a.stamp = calls + 1
<1>1. NoArg \in ArgRec /\ NoArg.i = 1
  BY SizesAssumption DEF NoArg, ArgRec, Ids, NoID, Stamps
<1>2. calls + 1 \in Stamps /\ NoID \in Ids /\ arg[c].id \in Ids /\ UNCHANGED <<listType, db>>
  <2>1. calls < MaxCalls /\ UNCHANGED <<listType, db>>
    BY DEF BeginSave
  <2>2. calls \in Stamps /\ arg[c] \in ArgRec
    BY DEF BaseInv, Shape, Clients
  <2>3. QED
    BY <2>1, <2>2, SizesAssumption DEF Stamps, Ids, ArgRec
<1>3. CASE \E id \in {NoID, arg[c].id} :
             /\ arg' = [arg EXCEPT ![c] =
                          [NoArg EXCEPT !.id = id, !.name = name,
                                        !.title = name, !.line = line,
                                        !.sel = sel, !.stamp = calls + 1]]
             /\ Goto(c, "maxid")
  <2>1. PICK id \in {NoID, arg[c].id} :
             /\ arg' = [arg EXCEPT ![c] =
                          [NoArg EXCEPT !.id = id, !.name = name,
                                        !.title = name, !.line = line,
                                        !.sel = sel, !.stamp = calls + 1]]
             /\ Goto(c, "maxid")
    BY <1>3
  <2>2. PICK a : a = [NoArg EXCEPT !.id = id, !.name = name, !.title = name,
                                   !.line = line, !.sel = sel, !.stamp = calls + 1]
    OBVIOUS
  <2>3. a \in ArgRec /\ a.i = 1 /\ a.stamp = calls + 1
          /\ a.name = name /\ a.line = line /\ a.sel = sel
    BY <1>1, <1>2, <2>2 DEF ArgRec
  <2>4. Moves(c, "maxid", a)
    BY <2>1, <2>2 DEF Moves, Goto
  <2>5. CallOK(c, "maxid", a, db)'
    BY <2>3 DEF CallOK, EditorLabels
  <2>6. QED
    BY <2>3, <2>4, <2>5
<1>4. CASE \E id \in IsExistName(name), changed \in BOOLEAN :
             /\ arg' = [arg EXCEPT ![c] =
                          [NoArg EXCEPT !.upd = 1, !.id = id, !.name = name,
                                        !.line = line, !.sel = sel,
                                        !.changed = changed, !.idok = TRUE,
                                        !.stamp = calls + 1]]
             /\ Goto(c, IF changed THEN "clear" ELSE "update")
  <2>1. PICK id \in IsExistName(name), changed \in BOOLEAN :
             /\ arg' = [arg EXCEPT ![c] =
                          [NoArg EXCEPT !.upd = 1, !.id = id, !.name = name,
                                        !.line = line, !.sel = sel,
                                        !.changed = changed, !.idok = TRUE,
                                        !.stamp = calls + 1]]
             /\ Goto(c, IF changed THEN "clear" ELSE "update")
    BY <1>4
  <2>2. PICK r \in DOMAIN db : r[1] = "list" /\ id = r[2]
    BY <2>1 DEF IsExistName
  <2>3. id \in Ids /\ ListRow(id) \in DOMAIN db
    BY <2>2, ListRowType DEF BaseInv, ServerOK
  <2>4. PICK a : a = [NoArg EXCEPT !.upd = 1, !.id = id, !.name = name,
                                   !.line = line, !.sel = sel,
                                   !.changed = changed, !.idok = TRUE,
                                   !.stamp = calls + 1]
    OBVIOUS
  <2>5. a \in ArgRec /\ a.i = 1 /\ a.stamp = calls + 1 /\ a.id = id
          /\ a.name = name /\ a.line = line /\ a.sel = sel
    BY <1>1, <1>2, <2>3, <2>4 DEF ArgRec
  <2>6. PICK p : p = IF changed THEN "clear" ELSE "update"
    OBVIOUS
  <2>7. Moves(c, p, a)
    BY <2>1, <2>4, <2>6 DEF Moves, Goto
  <2>8. p \in {"clear", "update"}
    BY <2>6
  <2>9. CallOK(c, p, a, db)'
    BY <1>2, <2>3, <2>5, <2>8 DEF CallOK, EditorLabels
  <2>10. QED
    BY <2>5, <2>7, <2>8, <2>9
<1>5. QED
  BY <1>3, <1>4 DEF BeginSave

(* BeginSave keeps the invariant. *)
LEMMA BeginSaveBase ==
    ASSUME BaseInv, NEW c \in Editors, NEW name \in Names, NEW line \in Lines,
           NEW sel \in Selections, BeginSave(c, name, line, sel)
    PROVE  BaseInv'
<1>1. PICK p \in {"maxid", "clear", "update"}, a \in ArgRec :
        Moves(c, p, a) /\ CallOK(c, p, a, db)'
  BY BeginSaveMoves
<1>2. UNCHANGED <<listType, db, put, gone>> /\ ret' = 0 /\ c \in Clients
  BY DEF BeginSave, Clients
<1>3. ServerOK' /\ DOMAIN put' = Clients /\ DOMAIN gone' = Clients
  BY <1>2, ServerStays
<1>4. p \in Labels /\ calls' \in Stamps
  <2>1. calls < MaxCalls /\ calls' = calls + 1 /\ calls \in Stamps
    BY DEF BeginSave, BaseInv, Shape
  <2>2. QED
    BY <1>1, <2>1, SizesAssumption DEF Labels, Stamps
<1>5. QED
  BY <1>1, <1>2, <1>3, <1>4, CallStep

(* BeginReport keeps the invariant. *)
LEMMA BeginReportBase ==
    ASSUME BaseInv, NEW d \in Devices, NEW id \in Ids, BeginReport(d, id)
    PROVE  BaseInv'
<1>1. NoArg \in ArgRec
  BY SizesAssumption DEF NoArg, ArgRec, Ids, NoID, Stamps
<1>2. calls + 1 \in Stamps /\ calls' = calls + 1
  BY SizesAssumption DEF BaseInv, Shape, BeginReport, Stamps
<1>3. PICK a : a = [NoArg EXCEPT !.id = id, !.idok = TRUE, !.stamp = calls + 1]
  OBVIOUS
<1>4. a \in ArgRec
  BY <1>1, <1>2, <1>3 DEF ArgRec
<1>5. Moves(d, "unreport", a)
  BY <1>3 DEF BeginReport, Moves, Goto
<1>6. CallOK(d, "unreport", a, db)'
  BY ClientsDisjoint DEF CallOK, DeviceLabels
<1>7. UNCHANGED <<listType, db, put, gone>> /\ ret' = 0 /\ d \in Clients
  BY DEF BeginReport, Clients
<1>8. ServerOK' /\ DOMAIN put' = Clients /\ DOMAIN gone' = Clients
  BY <1>7, ServerStays
<1>9. "unreport" \in Labels
  BY DEF Labels
<1>10. QED
  BY <1>2, <1>4, <1>5, <1>6, <1>7, <1>8, <1>9, CallStep

(* What is known of a call under way. *)
LEMMA CallFacts ==
    ASSUME BaseInv, NEW c \in Clients
    PROVE  \E a \in ArgRec : a = arg[c] /\ CallOK(c, pc[c], a, db)
BY DEF BaseInv, Shape, CallsOK

(* A statement that leaves the call's record alone. *)
LEMMA StayMoves ==
    ASSUME BaseInv, NEW c \in Clients, NEW p, NEW a, a = arg[c],
           Goto(c, p), UNCHANGED arg
    PROVE  Moves(c, p, a)
BY DEF BaseInv, Shape, Goto, Moves

(* GetPlayListID keeps the invariant. *)
LEMMA GetPlayListIDBase ==
    ASSUME BaseInv, NEW c \in Editors, GetPlayListID(c)
    PROVE  BaseInv'
<1>1. c \in Clients /\ ret' = 0 /\ UNCHANGED <<listType, db, put, gone, calls>>
        /\ pc[c] = "maxid"
  BY DEF Clients, GetPlayListID
<1>2. PICK a \in ArgRec : a = arg[c] /\ CallOK(c, "maxid", a, db)
  BY <1>1, CallFacts
<1>3. a.name \in Names /\ a.line \in Lines /\ a.sel \in Selections /\ a.i = 1
  BY <1>2 DEF CallOK
<1>4. ServerOK' /\ DOMAIN put' = Clients /\ DOMAIN gone' = Clients
  BY <1>1, ServerStays
<1>5. calls' \in Stamps
  BY <1>1 DEF BaseInv, Shape
<1>6. PICK id : id = <<FlagOf[a.line], IF listType = 2
                                  THEN IncreaseDefaultCode(MaxNum(c, a.line))
                                  ELSE IncreaseCode(MaxNum(c, a.line))>>
  OBVIOUS
<1>7. id \in Ids /\ (listType = 2 => id[2] <= Capacity)
  BY <1>1, <1>3, <1>6, NextIdType DEF BaseInv
<1>8. CASE arg' = [arg EXCEPT ![c].id = id, ![c].idok = TRUE] /\ Goto(c, "title")
  <2>1. PICK b : b = [a EXCEPT !.id = id, !.idok = TRUE]
    OBVIOUS
  <2>2. b \in ArgRec /\ b.id = id /\ b.name = a.name /\ b.line = a.line
          /\ b.sel = a.sel /\ b.i = a.i
    BY <1>2, <1>7, <2>1 DEF ArgRec
  <2>3. Moves(c, "title", b)
    BY <1>1, <1>2, <1>8, <2>1 DEF Moves, Goto, BaseInv, Shape
  <2>4. CallOK(c, "title", b, db)'
    BY <1>1, <1>3, <1>7, <2>2 DEF CallOK, EditorLabels
  <2>5. "title" \in Labels
    BY DEF Labels
  <2>6. QED
    BY <1>1, <1>4, <1>5, <2>2, <2>3, <2>4, <2>5, CallStep
<1>9. CASE Goto(c, "zone") /\ UNCHANGED arg
  <2>1. Moves(c, "zone", a)
    BY <1>1, <1>2, <1>9, StayMoves
  <2>2. CallOK(c, "zone", a, db)'
    BY <1>1, <1>3 DEF CallOK, EditorLabels, Writing
  <2>3. "zone" \in Labels
    BY DEF Labels
  <2>4. QED
    BY <1>1, <1>2, <1>4, <1>5, <2>1, <2>2, <2>3, CallStep
<1>10. QED
  BY <1>2, <1>6, <1>8, <1>9 DEF GetPlayListID

(* What CheckTitle makes of the call's record. *)
LEMMA CheckTitleMoves ==
    ASSUME BaseInv, NEW c \in Editors, CheckTitle(c), NEW a \in ArgRec, a = arg[c],
           NEW id \in Ids, id = ShortenID(a.id)
    PROVE  \E b \in ArgRec : /\ Moves(c, "insert", b) /\ b.id = id /\ b.name = a.name
                             /\ b.line = a.line /\ b.sel = a.sel /\ b.i = a.i
<1>1. c \in Clients /\ Goto(c, "insert")
  BY DEF Clients, CheckTitle
<1>2. \E title \in {a.title, a.id} :
        arg' = [arg EXCEPT ![c].title = title, ![c].id = id]
  <2>1. PICK ok \in Outcome("title") :
           arg' = [arg EXCEPT
                    ![c].title = IF ok /\ ~(\E r \in ListsSeen(c) :
                                              View(c, r).title = arg[c].title)
                                   THEN @ ELSE arg[c].id,
                    ![c].id = ShortenID(@)]
    BY DEF CheckTitle
  <2>2. PICK title : title = IF ok /\ ~(\E r \in ListsSeen(c) :
                                              View(c, r).title = arg[c].title)
                                   THEN arg[c].title ELSE arg[c].id
    OBVIOUS
  <2>3. title \in {a.title, a.id}
    BY <2>2
  <2>4. arg \in [Clients -> ArgRec]
    BY DEF BaseInv, Shape
  <2>5. arg' = [arg EXCEPT ![c].title = title, ![c].id = id]
    BY <1>1, <2>1, <2>2, <2>4 DEF ArgRec
  <2>6. QED
    BY <2>3, <2>5
<1>3. PICK title \in {a.title, a.id} :
        arg' = [arg EXCEPT ![c].title = title, ![c].id = id]
  BY <1>2
<1>4. PICK b : b = [a EXCEPT !.title = title, !.id = id]
  OBVIOUS
<1>5. b \in ArgRec /\ b.id = id /\ b.name = a.name /\ b.line = a.line
         /\ b.sel = a.sel /\ b.i = a.i
  BY <1>3, <1>4 DEF ArgRec
<1>6. Moves(c, "insert", b)
  BY <1>1, <1>3, <1>4 DEF Moves, Goto, BaseInv, Shape
<1>7. QED
  BY <1>5, <1>6

(* CheckTitle keeps the invariant. *)
LEMMA CheckTitleBase ==
    ASSUME BaseInv, NEW c \in Editors, CheckTitle(c)
    PROVE  BaseInv'
<1>1. c \in Clients /\ ret' = 0 /\ UNCHANGED <<listType, db, put, gone, calls>>
        /\ pc[c] = "title" /\ Goto(c, "insert")
  BY DEF Clients, CheckTitle
<1>2. PICK a \in ArgRec : a = arg[c] /\ CallOK(c, "title", a, db)
  BY <1>1, CallFacts
<1>3. a.name \in Names /\ a.line \in Lines /\ a.sel \in Selections /\ a.i = 1
        /\ a.id \in Ids /\ (listType = 2 => a.id[2] <= Capacity)
  BY <1>2 DEF CallOK, ArgRec
<1>4. ServerOK' /\ DOMAIN put' = Clients /\ DOMAIN gone' = Clients
  BY <1>1, ServerStays
<1>5. calls' \in Stamps
  BY <1>1 DEF BaseInv, Shape
<1>6. PICK id : id = ShortenID(a.id)
  OBVIOUS
<1>7. id \in Ids /\ (listType = 2 => id[2] < Capacity)
  BY <1>3, <1>6, ShortenIDType
<1>8. PICK b \in ArgRec : /\ Moves(c, "insert", b) /\ b.id = id /\ b.name = a.name
                          /\ b.line = a.line /\ b.sel = a.sel /\ b.i = a.i
  BY <1>2, <1>6, <1>7, CheckTitleMoves
<1>9. CallOK(c, "insert", b, db)'
  BY <1>1, <1>3, <1>7, <1>8 DEF CallOK, EditorLabels
<1>10. "insert" \in Labels
  BY DEF Labels
<1>11. QED
  BY <1>1, <1>4, <1>5, <1>8, <1>9, <1>10, CallStep

(* InsertList keeps the invariant. *)
LEMMA InsertListBase ==
    ASSUME BaseInv, NEW c \in Editors, InsertList(c)
    PROVE  BaseInv'
<1>1. c \in Clients /\ UNCHANGED <<listType, calls>> /\ pc[c] = "insert"
  BY DEF Clients, InsertList
<1>2. CASE Abort(c)
  BY <1>1, <1>2, AbortBase
<1>3. CASE ~Abort(c)
  <2>1. PICK a \in ArgRec : a = arg[c] /\ CallOK(c, "insert", a, db)
    BY <1>1, CallFacts
  <2>2. a.name \in Names /\ a.line \in Lines /\ a.sel \in Selections /\ a.i = 1
          /\ a.id \in Ids /\ (listType = 2 => a.id[2] < Capacity)
    BY <2>1 DEF CallOK, ArgRec
  <2>3. PICK v : v = [name |-> a.name, title |-> a.title,
                      line |-> a.line, stamp |-> a.stamp]
    OBVIOUS
  <2>4. /\ Write(c, ListRow(a.id), v)
        /\ Goto(c, "zone") /\ ret' = 0 /\ UNCHANGED <<db, arg>>
    BY <1>3, <2>1, <2>3 DEF InsertList
  <2>5. v \in ListValues
    BY <2>1, <2>2, <2>3 DEF ListValues, ArgRec
  <2>6. RowValue(ListRow(a.id), v)
    BY <2>2, <2>5, RowKinds DEF RowValue
  <2>7. ServerOK' /\ DOMAIN put' = Clients /\ DOMAIN gone' = Clients
    BY <1>1, <2>4, <2>6, WriteServer DEF BaseInv
  <2>8. Moves(c, "zone", a)
    BY <1>1, <2>1, <2>4, StayMoves
  <2>9. CallOK(c, "zone", a, db)'
    BY <1>1, <2>2 DEF CallOK, EditorLabels, Writing
  <2>10. "zone" \in Labels /\ calls' \in Stamps
    BY <1>1 DEF Labels, BaseInv, Shape
  <2>11. QED
    BY <1>1, <2>1, <2>4, <2>7, <2>8, <2>9, <2>10, CallStep
<1>4. QED
  BY <1>2, <1>3

(* ClearStatus keeps the invariant. *)
LEMMA ClearStatusBase ==
    ASSUME BaseInv, NEW c \in Editors, ClearStatus(c)
    PROVE  BaseInv'
<1>1. c \in Clients /\ UNCHANGED <<listType, db, arg, calls>> /\ pc[c] = "clear"
        /\ Goto(c, "update") /\ ret' = 0
  BY DEF Clients, ClearStatus
<1>2. PICK a \in ArgRec : a = arg[c] /\ CallOK(c, "clear", a, db)
  BY <1>1, CallFacts
<1>3. PICK rows : rows = {StatusRow(arg[c].id, d) : d \in Devices}
  OBVIOUS
<1>4. Delete(c, rows) /\ \A r \in rows : r[1] # "list"
  BY <1>3, RowKinds DEF ClearStatus
<1>5. ServerOK' /\ DOMAIN put' = Clients /\ DOMAIN gone' = Clients
  BY <1>1, <1>4, DeleteServer DEF BaseInv
<1>6. Moves(c, "update", a)
  BY <1>1, <1>2, StayMoves
<1>7. CallOK(c, "update", a, db)'
  BY <1>1, <1>2 DEF CallOK, EditorLabels
<1>8. "update" \in Labels /\ calls' \in Stamps
  BY <1>1 DEF Labels, BaseInv, Shape
<1>9. QED
  BY <1>1, <1>2, <1>5, <1>6, <1>7, <1>8, CallStep

(* The record a list has for a statement. *)
LEMMA ViewType ==
    ASSUME ServerOK, NEW c \in Clients, NEW id, ListRow(id) \in Seen(c)
    PROVE  View(c, ListRow(id)) \in ListValues /\ RowValue(ListRow(id), View(c, ListRow(id)))
<1>1. RowsOK(db) /\ RowsOK(put[c]) /\ SmallNums(db) /\ SmallNums(put[c])
  BY DEF ServerOK, TransactionOK
<1>2. PICK r : r = ListRow(id) /\ r[1] = "list"
  BY RowKinds
<1>3. CASE r \in DOMAIN put[c]
  <2>1. r \in Rows /\ put[c][r] \in ListValues
    BY <1>1, <1>2, <1>3, ListRowType DEF RowsOK
  <2>2. QED
    BY <1>1, <1>2, <1>3, <2>1 DEF View, RowValue, SmallNums
<1>4. CASE r \in DOMAIN db /\ r \notin DOMAIN put[c]
  <2>1. r \in Rows /\ db[r] \in ListValues
    BY <1>1, <1>2, <1>4, ListRowType DEF RowsOK
  <2>2. QED
    BY <1>1, <1>2, <1>4, <2>1 DEF View, RowValue, SmallNums
<1>5. QED
  BY <1>2, <1>3, <1>4 DEF Seen

(* The list that UpdateList writes to is there. *)
LEMMA UpdateFacts ==
    ASSUME BaseInv, NEW c \in Editors, UpdateList(c)
    PROVE  \E a \in ArgRec, v \in ListValues :
             /\ a = arg[c] /\ CallOK(c, "update", a, db)
             /\ Write(c, ListRow(a.id), v) /\ RowValue(ListRow(a.id), v)
             /\ v.stamp = a.stamp
<1>1. c \in Clients /\ pc[c] = "update"
  BY DEF Clients, UpdateList
<1>2. PICK a \in ArgRec : a = arg[c] /\ CallOK(c, "update", a, db)
  BY <1>1, CallFacts
<1>3. ListRow(a.id) \in DOMAIN db
  BY <1>2 DEF CallOK
<1>4. ListRow(a.id) \in Seen(c)
  <2>1. \A r \in gone[c] : r[1] # "list"
    BY <1>1 DEF BaseInv, ServerOK, TransactionOK
  <2>2. ListRow(a.id) \notin gone[c]
    BY <2>1, RowKinds
  <2>3. QED
    BY <1>3, <2>2 DEF Seen
<1>5. PICK u : u = View(c, ListRow(a.id))
  OBVIOUS
<1>6. u \in ListValues /\ RowValue(ListRow(a.id), u)
  BY <1>1, <1>4, <1>5, ViewType DEF BaseInv
<1>7. PICK v : v = [u EXCEPT !.stamp = a.stamp]
  OBVIOUS
<1>8. v \in ListValues /\ v.stamp = a.stamp
  BY <1>2, <1>6, <1>7 DEF ListValues, ArgRec
<1>9. RowValue(ListRow(a.id), v)
  BY <1>6, <1>8, RowKinds DEF RowValue
<1>10. Write(c, ListRow(a.id), v)
  BY <1>2, <1>5, <1>7 DEF UpdateList
<1>11. QED
  BY <1>2, <1>8, <1>9, <1>10

(* UpdateList keeps the invariant. *)
LEMMA UpdateListBase ==
    ASSUME BaseInv, NEW c \in Editors, UpdateList(c)
    PROVE  BaseInv'
<1>1. c \in Clients /\ UNCHANGED <<listType, db, arg, calls>>
        /\ Goto(c, "zone") /\ ret' = 0
  BY DEF Clients, UpdateList
<1>2. PICK a \in ArgRec, v \in ListValues :
        /\ a = arg[c] /\ CallOK(c, "update", a, db)
        /\ Write(c, ListRow(a.id), v) /\ RowValue(ListRow(a.id), v)
  BY UpdateFacts
<1>3. ServerOK' /\ DOMAIN put' = Clients /\ DOMAIN gone' = Clients
  BY <1>1, <1>2, WriteServer DEF BaseInv
<1>4. Moves(c, "zone", a)
  BY <1>1, <1>2, StayMoves
<1>5. CallOK(c, "zone", a, db)'
  BY <1>1, <1>2 DEF CallOK, EditorLabels, Writing
<1>6. "zone" \in Labels /\ calls' \in Stamps
  BY <1>1 DEF Labels, BaseInv, Shape
<1>7. QED
  BY <1>1, <1>2, <1>3, <1>4, <1>5, <1>6, CallStep

(* DeleteScope keeps the invariant. *)
LEMMA DeleteScopeBase ==
    ASSUME BaseInv, NEW c \in Editors, DeleteScope(c)
    PROVE  BaseInv'
<1>1. c \in Clients /\ UNCHANGED <<listType, db, arg, calls>> /\ pc[c] = "zone"
        /\ ret' = 0
  BY DEF Clients, DeleteScope
<1>2. PICK a \in ArgRec : a = arg[c] /\ CallOK(c, "zone", a, db)
  BY <1>1, CallFacts
<1>3. PICK rows : rows = {ScopeRow(arg[c].id, p) : p \in Places}
  OBVIOUS
<1>4. Delete(c, rows) /\ \A r \in rows : r[1] # "list"
  BY <1>3, RowKinds DEF DeleteScope
<1>5. ServerOK' /\ DOMAIN put' = Clients /\ DOMAIN gone' = Clients
  BY <1>1, <1>4, DeleteServer DEF BaseInv
<1>6. PICK p : p = IF a.sel = <<>> THEN "commit" ELSE "place"
  OBVIOUS
<1>7. Moves(c, p, a)
  BY <1>1, <1>2, <1>6, StayMoves DEF DeleteScope
<1>8. CallOK(c, p, a, db)'
  <2>1. a.sel \in Selections /\ a.i = 1 /\ a.name \in Names /\ a.line \in Lines
    BY <1>2 DEF CallOK
  <2>2. a.sel # <<>> => 1 \in 1 .. Len(a.sel)
    BY <2>1, TablesAssumption
  <2>3. QED
    BY <1>1, <1>6, <2>1, <2>2 DEF CallOK, EditorLabels, Writing
<1>9. p \in Labels /\ calls' \in Stamps
  BY <1>1, <1>6 DEF Labels, BaseInv, Shape
<1>10. QED
  BY <1>1, <1>2, <1>5, <1>7, <1>8, <1>9, CallStep

(* The loop over the places goes on, or ends behind the last place. *)
LEMMA NextPlaceMoves ==
    ASSUME BaseInv, NEW c \in Editors, NEW a \in ArgRec, a = arg[c],
           NEW q \in {"place", "store"}, CallOK(c, q, a, db),
           NextPlace(c), UNCHANGED listType
    PROVE  \E p \in {"place", "commit"}, b \in ArgRec :
             /\ Moves(c, p, b) /\ CallOK(c, p, b, db)'
             /\ b.id = a.id /\ b.sel = a.sel /\ b.stamp = a.stamp
             /\ b.i = a.i + 1 /\ a.i \in 1 .. Len(a.sel)
             /\ (p = "commit") <=> (a.i = Len(a.sel))
<1>1. a.sel \in Selections /\ a.i \in 1 .. Len(a.sel) /\ a.name \in Names /\ a.line \in Lines
  BY DEF CallOK
<1>2. Len(a.sel) \in Nat
  BY <1>1, TablesAssumption
<1>3. PICK p : p = IF a.i = Len(a.sel) THEN "commit" ELSE "place"
  OBVIOUS
<1>4. PICK b : b = [a EXCEPT !.i = a.i + 1]
  OBVIOUS
<1>5. b \in ArgRec /\ b.id = a.id /\ b.sel = a.sel /\ b.stamp = a.stamp
        /\ b.name = a.name /\ b.line = a.line /\ b.i = a.i + 1
  BY <1>4 DEF ArgRec
<1>6. Moves(c, p, b)
  <2>1. pc' = [pc EXCEPT ![c] = p]
    BY <1>3 DEF NextPlace, Goto
  <2>2. arg' = [arg EXCEPT ![c] = b]
    BY <1>4 DEF NextPlace
  <2>3. QED
    BY <2>1, <2>2 DEF Moves
<1>7. p = "place" => b.i \in 1 .. Len(b.sel)
  BY <1>1, <1>2, <1>3, <1>5
<1>8. CallOK(c, p, b, db)'
  BY <1>1, <1>3, <1>5, <1>7 DEF CallOK, EditorLabels, Writing
<1>9. QED
  BY <1>1, <1>3, <1>5, <1>6, <1>8

(* IsExistStation keeps the invariant. *)
LEMMA IsExistStationBase ==
    ASSUME BaseInv, NEW c \in Editors, IsExistStation(c)
    PROVE  BaseInv'
<1>1. c \in Clients /\ ret' = 0 /\ UNCHANGED <<listType, db, put, gone, calls>>
        /\ pc[c] = "place"
  BY DEF Clients, IsExistStation
<1>2. PICK a \in ArgRec : a = arg[c] /\ CallOK(c, "place", a, db)
  BY <1>1, CallFacts
<1>3. ServerOK' /\ DOMAIN put' = Clients /\ DOMAIN gone' = Clients
  BY <1>1, ServerStays
<1>4. calls' \in Stamps
  BY <1>1 DEF BaseInv, Shape
<1>5. CASE Goto(c, "store") /\ UNCHANGED arg
  <2>1. Moves(c, "store", a)
    BY <1>1, <1>2, <1>5, StayMoves
  <2>2. CallOK(c, "store", a, db)'
    BY <1>1, <1>2 DEF CallOK, EditorLabels, Writing
  <2>3. "store" \in Labels
    BY DEF Labels
  <2>4. QED
    BY <1>1, <1>2, <1>3, <1>4, <2>1, <2>2, <2>3, CallStep
<1>6. CASE NextPlace(c)
  <2>1. PICK p \in {"place", "commit"}, b \in ArgRec :
          Moves(c, p, b) /\ CallOK(c, p, b, db)'
    BY <1>1, <1>2, <1>6, NextPlaceMoves
  <2>2. p \in Labels
    BY <2>1 DEF Labels
  <2>3. QED
    BY <1>1, <1>3, <1>4, <2>1, <2>2, CallStep
<1>7. QED
  BY <1>5, <1>6 DEF IsExistStation

(* The place that is stored. *)
LEMMA PlaceType ==
    ASSUME NEW s \in Selections, NEW i \in 1 .. Len(s)
    PROVE  s[i] \in Places
BY TablesAssumption

(* InsertPlace keeps the invariant. *)
LEMMA InsertPlaceBase ==
    ASSUME BaseInv, NEW c \in Editors, InsertPlace(c)
    PROVE  BaseInv'
<1>1. c \in Clients /\ UNCHANGED <<listType, calls>> /\ pc[c] = "store"
  BY DEF Clients, InsertPlace
<1>2. CASE Abort(c)
  BY <1>1, <1>2, AbortBase
<1>3. CASE ~Abort(c)
  <2>1. PICK a \in ArgRec : a = arg[c] /\ CallOK(c, "store", a, db)
    BY <1>1, CallFacts
  <2>2. a.id \in Ids /\ a.stamp \in Stamps /\ a.sel[a.i] \in Places
    BY <2>1, PlaceType DEF CallOK, ArgRec
  <2>3. PICK row : row = ScopeRow(a.id, a.sel[a.i])
    OBVIOUS
  <2>4. Write(c, row, a.stamp) /\ NextPlace(c) /\ ret' = 0 /\ UNCHANGED db
    BY <1>3, <2>1, <2>3 DEF InsertPlace
  <2>5. RowValue(row, a.stamp)
    BY <2>2, <2>3, RowKinds DEF RowValue
  <2>6. ServerOK' /\ DOMAIN put' = Clients /\ DOMAIN gone' = Clients
    BY <1>1, <2>4, <2>5, WriteServer DEF BaseInv
  <2>7. PICK p \in {"place", "commit"}, b \in ArgRec :
          Moves(c, p, b) /\ CallOK(c, p, b, db)'
    BY <1>1, <2>1, <2>4, NextPlaceMoves
  <2>8. p \in Labels /\ calls' \in Stamps
    BY <1>1, <2>7 DEF Labels, BaseInv, Shape
  <2>9. QED
    BY <1>1, <2>4, <2>6, <2>7, <2>8, CallStep
<1>4. QED
  BY <1>2, <1>3

(* Commit keeps the invariant. *)
LEMMA CommitBase ==
    ASSUME BaseInv, NEW c \in Clients, Commit(c)
    PROVE  BaseInv'
<1>1. /\ EndTransaction(c) /\ db' = [r \in Seen(c) |-> View(c, r)]
      /\ UNCHANGED <<listType, calls>>
  BY DEF Commit
<1>2. /\ ServerOK' /\ DOMAIN put' = Clients /\ DOMAIN gone' = Clients
      /\ \A r \in DOMAIN db : r[1] = "list" => r \in DOMAIN db'
  BY <1>1, CommitServer DEF BaseInv
<1>3. PICK value \in {0, 1} : Return(c, value)
  BY DEF Commit
<1>4. PICK a \in ArgRec : Moves(c, "idle", a) /\ \A rows : CallOK(c, "idle", a, rows)'
  BY <1>3, ReturnMoves
<1>5. CallOK(c, "idle", a, db)'
  BY <1>4 DEF CallOK, EditorLabels, DeviceLabels
<1>6. ret' \in {-1, 0, 1}
  BY <1>3 DEF Return
<1>7. "idle" \in Labels /\ calls' \in Stamps
  BY <1>1 DEF Labels, BaseInv, Shape
<1>8. QED
  BY <1>1, <1>2, <1>4, <1>5, <1>6, <1>7, CallStep

(* DeleteStatus keeps the invariant. *)
LEMMA DeleteStatusBase ==
    ASSUME BaseInv, NEW d \in Devices, DeleteStatus(d)
    PROVE  BaseInv'
<1>1. d \in Clients /\ UNCHANGED <<listType, db, arg, calls>> /\ pc[d] = "unreport"
        /\ Goto(d, "report") /\ ret' = 0
  BY DEF Clients, DeleteStatus
<1>2. PICK a \in ArgRec : a = arg[d] /\ CallOK(d, "unreport", a, db)
  BY <1>1, CallFacts
<1>3. PICK rows : rows = {StatusRow(arg[d].id, d)}
  OBVIOUS
<1>4. Delete(d, rows) /\ \A r \in rows : r[1] # "list"
  BY <1>3, RowKinds DEF DeleteStatus
<1>5. ServerOK' /\ DOMAIN put' = Clients /\ DOMAIN gone' = Clients
  BY <1>1, <1>4, DeleteServer DEF BaseInv
<1>6. Moves(d, "report", a)
  BY <1>1, <1>2, StayMoves
<1>7. CallOK(d, "report", a, db)'
  BY ClientsDisjoint DEF CallOK, DeviceLabels
<1>8. "report" \in Labels /\ calls' \in Stamps
  BY <1>1 DEF Labels, BaseInv, Shape
<1>9. QED
  BY <1>1, <1>2, <1>5, <1>6, <1>7, <1>8, CallStep

(* InsertStatus keeps the invariant. *)
LEMMA InsertStatusBase ==
    ASSUME BaseInv, NEW d \in Devices, InsertStatus(d)
    PROVE  BaseInv'
<1>1. d \in Clients /\ UNCHANGED <<listType, calls>> /\ pc[d] = "report"
  BY DEF Clients, InsertStatus
<1>2. CASE Abort(d)
  BY <1>1, <1>2, AbortBase
<1>3. CASE ~Abort(d)
  <2>1. PICK a \in ArgRec : a = arg[d] /\ CallOK(d, "report", a, db)
    BY <1>1, CallFacts
  <2>2. a.id \in Ids /\ a.stamp \in Stamps
    BY <2>1 DEF ArgRec
  <2>3. PICK row : row = StatusRow(a.id, d)
    OBVIOUS
  <2>4. Write(d, row, a.stamp) /\ Goto(d, "commit") /\ ret' = 0 /\ UNCHANGED <<db, arg>>
    BY <1>3, <2>1, <2>3 DEF InsertStatus
  <2>5. RowValue(row, a.stamp)
    BY <2>2, <2>3, RowKinds DEF RowValue
  <2>6. ServerOK' /\ DOMAIN put' = Clients /\ DOMAIN gone' = Clients
    BY <1>1, <2>4, <2>5, WriteServer DEF BaseInv
  <2>7. Moves(d, "commit", a)
    BY <1>1, <2>1, <2>4, StayMoves
  <2>8. CallOK(d, "commit", a, db)'
    BY ClientsDisjoint DEF CallOK, DeviceLabels
  <2>9. "commit" \in Labels /\ calls' \in Stamps
    BY <1>1 DEF Labels, BaseInv, Shape
  <2>10. QED
    BY <1>1, <2>1, <2>4, <2>6, <2>7, <2>8, <2>9, CallStep
<1>4. QED
  BY <1>2, <1>3

-----------------------------------------------------------------------------
(* The stocked tables: identifiers, records and rows of their types. *)
LEMMA StockRows ==
    ASSUME NEW t \in ListTypes, listType = t
    PROVE  RowsOK(StockDb(Stock[t])) /\ SmallNums(StockDb(Stock[t]))
<1>1. PICK S : S = Stock[t]
  OBVIOUS
<1>2. /\ S \subseteq [line : Lines, num : 1 .. Word - 1, name : Names \cup {NoName}]
      /\ t = 2 => \A s \in S : s.num < Capacity
  BY <1>1, TablesAssumption
<1> DEFINE IdOf(s) == <<FlagOf[s.line], s.num>>
           named == {s \in S : s.name # NoName}
           lists == {ListRow(IdOf(s)) : s \in S}
           others == UNION {{ScopeRow(IdOf(s), p) : p \in Places}
                              \cup {StatusRow(IdOf(s), d) : d \in Devices} : s \in named}
           saved(r) == CHOOSE s \in S : IdOf(s) = r[2]
<1>3. PICK D : D = StockDb(S)
  OBVIOUS
<1>4. D = [r \in lists \cup others |->
             IF r[1] = "list"
               THEN [name |-> saved(r).name, title |-> saved(r).name,
                     line |-> saved(r).line, stamp |-> 0]
               ELSE 0]
  BY <1>3 DEF StockDb
<1>5. \A s \in S : IdOf(s) \in Ids /\ IdOf(s)[2] = s.num
  BY <1>2, SizesAssumption DEF Ids
<1>6. ASSUME NEW r \in lists
      PROVE  r \in Rows /\ r[1] = "list" /\ saved(r) \in S /\ r[2] = IdOf(saved(r))
  <2>1. PICK s \in S : r = ListRow(IdOf(s))
    BY <1>6
  <2>2. r \in Rows /\ r[1] = "list" /\ r[2] = IdOf(s)
    BY <1>5, <2>1, RowKinds
  <2>3. saved(r) \in S /\ IdOf(saved(r)) = r[2]
    BY <2>1, <2>2
  <2>4. QED
    BY <2>2, <2>3
<1>7. ASSUME NEW r \in others PROVE r \in Rows /\ r[1] # "list"
  <2>1. PICK s \in named : \/ \E p \in Places : r = ScopeRow(IdOf(s), p)
                           \/ \E d \in Devices : r = StatusRow(IdOf(s), d)
    BY <1>7
  <2>2. IdOf(s) \in Ids
    BY <1>5, <2>1
  <2>3. QED
    BY <2>1, <2>2, RowKinds
<1>8. 0 \in Stamps
  BY SizesAssumption DEF Stamps
<1> HIDE DEF lists, others, named, saved
<1>9. ASSUME NEW r \in lists PROVE D[r] \in ListValues
  <2>1. PICK s : s = saved(r)
    OBVIOUS
  <2>2. s \in S /\ r[1] = "list"
    BY <1>6, <2>1
  <2>3. D[r] = [name |-> s.name, title |-> s.name, line |-> s.line, stamp |-> 0]
    BY <1>4, <1>9, <2>1, <2>2
  <2>4. QED
    BY <1>2, <1>8, <2>2, <2>3 DEF ListValues
<1>10. ASSUME NEW r \in others PROVE D[r] \in Stamps
  BY <1>4, <1>7, <1>8, <1>10
<1>11. DOMAIN D = lists \cup others
  BY <1>4
<1>12. RowsOK(D)
  BY <1>6, <1>7, <1>9, <1>10, <1>11 DEF RowsOK
<1>13. SmallNums(D)
  <2>1. SUFFICES ASSUME t = 2, NEW r \in DOMAIN D, r[1] = "list"
                 PROVE  r[2][2] < Capacity
    BY DEF SmallNums
  <2>2. r \in lists
    BY <1>7, <1>11, <2>1
  <2>3. saved(r) \in S /\ r[2] = IdOf(saved(r))
    BY <1>6, <2>2
  <2>4. QED
    BY <1>2, <1>5, <2>1, <2>3
<1>14. QED
  BY <1>1, <1>3, <1>12, <1>13

(* The initial states satisfy the invariant. *)
LEMMA InitBase == Init => BaseInv
<1> SUFFICES ASSUME Init PROVE BaseInv
  OBVIOUS
<1>1. NoArg \in ArgRec
  BY SizesAssumption DEF NoArg, ArgRec, Ids, NoID, Stamps
<1>2. Shape
  BY <1>1, SizesAssumption DEF Init, Shape, Labels, Stamps
<1>3. RowsOK(db) /\ SmallNums(db)
  BY StockRows DEF Init
<1>4. DOMAIN EmptyRows = {}
  BY DEF EmptyRows
<1>5. ASSUME NEW c \in Clients
      PROVE  TransactionOK(db, put[c], gone[c]) /\ Locks(c) = {}
  BY <1>4 DEF Init, TransactionOK, RowsOK, SmallNums, Locks
<1>6. ServerOK
  BY <1>3, <1>5 DEF ServerOK, LocksApart
<1>7. CallsOK
  BY DEF Init, CallsOK, CallOK, EditorLabels, DeviceLabels
<1>8. QED
  BY <1>2, <1>6, <1>7 DEF BaseInv

(* Every step keeps the invariant. *)
LEMMA StepBase == BaseInv /\ [Next]_vars => BaseInv'
<1> SUFFICES ASSUME BaseInv, [Next]_vars PROVE BaseInv'
  OBVIOUS
<1>1. CASE UNCHANGED vars
  <2>1. UNCHANGED <<listType, db, put, gone, pc, arg, ret, calls>>
    BY <1>1 DEF vars
  <2>2. ServerOK'
    BY <2>1, ServerStays
  <2>3. QED
    BY <2>1, <2>2 DEF BaseInv, Shape, CallsOK, CallOK
<1>2. ASSUME NEW c \in Editors, SaveNothing(c) PROVE BaseInv'
  BY <1>2, SaveNothingBase DEF Clients
<1>3. ASSUME NEW c \in Editors, NEW name \in Names, NEW line \in Lines,
             NEW sel \in Selections, BeginSave(c, name, line, sel)
      PROVE  BaseInv'
  BY <1>3, BeginSaveBase
<1>4. ASSUME NEW d \in Devices, NEW r \in DOMAIN db, r[1] = "list", BeginReport(d, r[2])
      PROVE  BaseInv'
  <2>1. r[2] \in Ids
    BY <1>4, ListRowType DEF BaseInv, ServerOK
  <2>2. QED
    BY <1>4, <2>1, BeginReportBase
<1>5. ASSUME NEW c \in Editors, SaveStatement(c) PROVE BaseInv'
  <2>1. c \in Clients
    BY DEF Clients
  <2>2. QED
    BY <1>5, <2>1, GetPlayListIDBase, CheckTitleBase, InsertListBase, ClearStatusBase,
       UpdateListBase, DeleteScopeBase, IsExistStationBase, InsertPlaceBase,
       CommitBase DEF SaveStatement
<1>6. ASSUME NEW d \in Devices, SetDownloadStatus(d) PROVE BaseInv'
  <2>1. d \in Clients
    BY DEF Clients
  <2>2. QED
    BY <1>6, <2>1, DeleteStatusBase, InsertStatusBase, CommitBase DEF SetDownloadStatus
<1>7. ASSUME NEW c \in Clients, Fail(c) PROVE BaseInv'
  BY <1>7, AbortBase DEF Fail
<1>8. QED
  BY <1>1, <1>2, <1>3, <1>4, <1>5, <1>6, <1>7
     DEF Next, Statement, UpdatePlayListRecord, UpdateDefaultPlayListRecord

(* In every behaviour the tables, the open transactions and the calls have *)
(* their types: whatever statements fail, identifiers stay in the range of *)
(* a UINT and within four digits for a Default_List, no row is locked      *)
(* twice, and a transaction deletes only rows that are there.              *)
THEOREM PlayListTypeCorrect == Spec => []TypeOKPlayList
<1>1. Init => BaseInv
  BY InitBase
<1>2. BaseInv /\ [Next]_vars => BaseInv'
  BY StepBase
<1>3. BaseInv => TypeOKPlayList
  BY DEF BaseInv, Shape, ServerOK, TransactionOK, TypeOKPlayList, ArgRec
<1>4. QED
  BY <1>1, <1>2, <1>3, PTL DEF Spec

-----------------------------------------------------------------------------
(* What a call holds                                                       *)

(* The rows w written and g deleted so far by the call a of c, at p.  An   *)
(* editor that has come to the scope holds the record of its list with its *)
(* own stamp, whatever it wrote besides is scope of that list, and behind  *)
(* DeleteScope all the committed scope of the list is deleted.             *)
HeldOK(c, p, a, w, g, rows) ==
    IF c \in Devices THEN \A r \in DOMAIN w \cup g : r[1] = "status"
    ELSE
    /\ p \notin Writing => DOMAIN w = {} /\ \A r \in g : r[1] = "status"
    /\ p \in Writing =>
          /\ ListRow(a.id) \in DOMAIN w /\ w[ListRow(a.id)].stamp = a.stamp
          /\ \A r \in DOMAIN w :
                \/ r = ListRow(a.id)
                \/ r[1] = "scope" /\ r[2] = a.id /\ w[r] = a.stamp
    /\ p = "zone" => DOMAIN w = {ListRow(a.id)}
    /\ p \in {"place", "store", "commit"} =>
          \A r \in DOMAIN rows : r[1] = "scope" /\ r[2] = a.id => r \in g

HeldInv == \A c \in Clients : HeldOK(c, pc[c], arg[c], put[c], gone[c], db)

(* Before the record is taken, where the call stands makes no difference. *)
LEMMA HeldBefore ==
    ASSUME NEW c, NEW p, NEW q, NEW a, NEW b, NEW w, NEW g, NEW rows,
           p \notin Writing, q \notin Writing, HeldOK(c, p, a, w, g, rows)
    PROVE  HeldOK(c, q, b, w, g, rows)
BY DEF HeldOK, Writing

(* Behind DeleteScope only the list and the stamp of the call count. *)
LEMMA HeldBehind ==
    ASSUME NEW c, NEW p \in {"place", "store", "commit"},
           NEW q \in {"place", "store", "commit"}, NEW a, NEW b, NEW w, NEW g, NEW rows,
           b.id = a.id, b.stamp = a.stamp, HeldOK(c, p, a, w, g, rows)
    PROVE  HeldOK(c, q, b, w, g, rows)
BY DEF HeldOK, Writing

(* An empty transaction. *)
LEMMA HeldNothing ==
    ASSUME NEW c, NEW a, NEW w, NEW g, NEW rows, DOMAIN w = {}, g = {}
    PROVE  HeldOK(c, "idle", a, w, g, rows)
BY DEF HeldOK, Writing

(* A step of c that leaves the committed rows and what the others hold     *)
(* alone.                                                                  *)
LEMMA HeldStep ==
    ASSUME BaseInv, HeldInv, NEW c \in Clients, NEW p, NEW a, NEW w, NEW g,
           Moves(c, p, a), w = put'[c], g = gone'[c], UNCHANGED db,
           \A d \in Clients \ {c} : put'[d] = put[d] /\ gone'[d] = gone[d],
           HeldOK(c, p, a, w, g, db)
    PROVE  HeldInv'
<1>1. /\ pc'[c] = p /\ arg'[c] = a
      /\ \A d \in Clients \ {c} : pc'[d] = pc[d] /\ arg'[d] = arg[d]
  BY DEF Moves, BaseInv, Shape
<1>2. PICK rows : rows = db /\ rows = db'
  OBVIOUS
<1>3. HeldOK(c, pc'[c], arg'[c], put'[c], gone'[c], rows)
  BY <1>1, <1>2
<1>4. \A d \in Clients \ {c} : HeldOK(d, pc[d], arg[d], put[d], gone[d], rows)
  BY <1>2 DEF HeldInv
<1>5. \A d \in Clients \ {c} : HeldOK(d, pc'[d], arg'[d], put'[d], gone'[d], rows)
  BY <1>1, <1>4
<1>6. \A d \in Clients : HeldOK(d, pc'[d], arg'[d], put'[d], gone'[d], rows)
  BY <1>3, <1>5
<1>7. QED
  BY <1>2, <1>6 DEF HeldInv

(* What a statement that writes does to the transactions. *)
LEMMA WriteRows ==
    ASSUME BaseInv, NEW c \in Clients, NEW row, NEW value, Write(c, row, value)
    PROVE  /\ put'[c] = [r \in DOMAIN put[c] \cup {row} |->
                           IF r = row THEN value ELSE put[c][r]]
           /\ gone'[c] = gone[c]
           /\ \A d \in Clients \ {c} : put'[d] = put[d] /\ gone'[d] = gone[d]
BY DEF Write, BaseInv, Shape

(* What a delete statement does to the transactions. *)
LEMMA DeleteRows ==
    ASSUME BaseInv, NEW c \in Clients, NEW rows, Delete(c, rows)
    PROVE  /\ put'[c] = [r \in DOMAIN put[c] \ (rows \cap Seen(c)) |-> put[c][r]]
           /\ gone'[c] = gone[c] \cup ((rows \cap Seen(c)) \cap DOMAIN db)
           /\ \A d \in Clients \ {c} : put'[d] = put[d] /\ gone'[d] = gone[d]
BY DEF Delete, BaseInv, Shape

(* What the end of a transaction does to the transactions. *)
LEMMA EndRows ==
    ASSUME BaseInv, NEW c \in Clients, EndTransaction(c)
    PROVE  /\ DOMAIN put'[c] = {} /\ gone'[c] = {}
           /\ \A d \in Clients \ {c} : put'[d] = put[d] /\ gone'[d] = gone[d]
BY DEF EndTransaction, EmptyRows, BaseInv, Shape

(* A statement that touches no row, before the record is taken. *)
LEMMA BeforeHeld ==
    ASSUME BaseInv, HeldInv, NEW c \in Clients, NEW p, NEW a, Moves(c, p, a),
           p \notin Writing, pc[c] \notin Writing, UNCHANGED <<db, put, gone>>
    PROVE  HeldInv'
<1>1. PICK w, g, q, b, rows : w = put[c] /\ g = gone[c] /\ q = pc[c] /\ b = arg[c] /\ rows = db
  OBVIOUS
<1>2. HeldOK(c, q, b, w, g, rows)
  BY <1>1 DEF HeldInv
<1>3. HeldOK(c, p, a, w, g, rows)
  BY <1>1, <1>2, HeldBefore
<1>4. HeldOK(c, p, a, w, g, db) /\ w = put'[c] /\ g = gone'[c]
  BY <1>1, <1>3
<1>5. QED
  BY <1>4, HeldStep

(* A failed call holds nothing any more. *)
LEMMA AbortHeldInv ==
    ASSUME BaseInv, HeldInv, NEW c \in Clients, Abort(c)
    PROVE  HeldInv'
<1>1. Return(c, 0) /\ EndTransaction(c) /\ db' = db
  BY DEF Abort
<1>2. PICK a \in ArgRec : Moves(c, "idle", a)
  BY <1>1, ReturnMoves
<1>3. PICK w, g : w = put'[c] /\ g = gone'[c]
  OBVIOUS
<1>4. DOMAIN w = {} /\ g = {}
        /\ \A d \in Clients \ {c} : put'[d] = put[d] /\ gone'[d] = gone[d]
  BY <1>1, <1>3, EndRows
<1>5. HeldOK(c, "idle", a, w, g, db)
  BY <1>4, HeldNothing
<1>6. QED
  BY <1>1, <1>2, <1>3, <1>4, <1>5, HeldStep

(* The statement that takes the record of the list. *)
LEMMA TakeHeld ==
    ASSUME BaseInv, HeldInv, NEW c \in Editors, NEW a, NEW v, a = arg[c],
           pc[c] \notin Writing, Write(c, ListRow(a.id), v), v.stamp = a.stamp,
           Goto(c, "zone"), UNCHANGED <<db, arg>>
    PROVE  HeldInv'
<1>1. c \in Clients /\ c \notin Devices
  BY ClientsDisjoint DEF Clients
<1>2. DOMAIN put[c] = {}
  BY <1>1 DEF HeldInv, HeldOK
<1>3. PICK w, g : w = put'[c] /\ g = gone'[c]
  OBVIOUS
<1>4. w = [r \in {ListRow(a.id)} |-> v]
        /\ \A d \in Clients \ {c} : put'[d] = put[d] /\ gone'[d] = gone[d]
  <2>1. w = [r \in DOMAIN put[c] \cup {ListRow(a.id)} |->
               IF r = ListRow(a.id) THEN v ELSE put[c][r]]
          /\ \A d \in Clients \ {c} : put'[d] = put[d] /\ gone'[d] = gone[d]
    BY <1>1, <1>3, WriteRows
  <2>2. QED
    BY <1>2, <2>1
<1>5. HeldOK(c, "zone", a, w, g, db)
  BY <1>1, <1>4 DEF HeldOK, Writing
<1>6. Moves(c, "zone", a)
  BY <1>1, StayMoves
<1>7. QED
  BY <1>1, <1>3, <1>4, <1>5, <1>6, HeldStep

(* InsertList: the record is new, or the call fails. *)
LEMMA InsertListHeld ==
    ASSUME BaseInv, HeldInv, NEW c \in Editors, InsertList(c)
    PROVE  HeldInv'
<1>1. CASE Abort(c)
  BY <1>1, AbortHeldInv DEF Clients
<1>2. CASE ~Abort(c)
  <2>1. PICK a : a = arg[c]
    OBVIOUS
  <2>2. PICK v : v = [name |-> a.name, title |-> a.title,
                      line |-> a.line, stamp |-> a.stamp]
    OBVIOUS
  <2>3. v.stamp = a.stamp
    BY <2>2
  <2>4. /\ Write(c, ListRow(a.id), v) /\ Goto(c, "zone") /\ UNCHANGED <<db, arg>>
        /\ pc[c] = "insert"
    BY <1>2, <2>1, <2>2 DEF InsertList
  <2>5. pc[c] \notin Writing
    BY <2>4 DEF Writing
  <2>6. QED
    BY <2>1, <2>3, <2>4, <2>5, TakeHeld
<1>3. QED
  BY <1>1, <1>2

(* UpdateList: the record found is locked. *)
LEMMA UpdateListHeld ==
    ASSUME BaseInv, HeldInv, NEW c \in Editors, UpdateList(c)
    PROVE  HeldInv'
<1>1. PICK a, v : a = arg[c] /\ Write(c, ListRow(a.id), v) /\ v.stamp = a.stamp
  BY UpdateFacts
<1>2. Goto(c, "zone") /\ UNCHANGED <<db, arg>> /\ pc[c] \notin Writing
  BY DEF UpdateList, Writing
<1>3. QED
  BY <1>1, <1>2, TakeHeld

(* ClearStatus deletes downloads only. *)
LEMMA ClearStatusHeld ==
    ASSUME BaseInv, HeldInv, NEW c \in Editors, ClearStatus(c)
    PROVE  HeldInv'
<1>1. /\ c \in Clients /\ c \notin Devices /\ UNCHANGED <<db, arg>> /\ pc[c] = "clear"
      /\ Goto(c, "update")
  BY ClientsDisjoint DEF Clients, ClearStatus
<1>2. PICK a : a = arg[c]
  OBVIOUS
<1>3. PICK rows : rows = {StatusRow(arg[c].id, d) : d \in Devices}
  OBVIOUS
<1>4. Delete(c, rows) /\ \A r \in rows : r[1] = "status"
  BY <1>3, RowKinds DEF ClearStatus
<1>5. PICK w, g : w = put'[c] /\ g = gone'[c]
  OBVIOUS
<1>6. DOMAIN put[c] = {} /\ \A r \in gone[c] : r[1] = "status"
  BY <1>1 DEF HeldInv, HeldOK, Writing
<1>7. /\ w = [r \in DOMAIN put[c] \ (rows \cap Seen(c)) |-> put[c][r]]
      /\ g = gone[c] \cup ((rows \cap Seen(c)) \cap DOMAIN db)
      /\ \A d \in Clients \ {c} : put'[d] = put[d] /\ gone'[d] = gone[d]
  BY <1>1, <1>4, <1>5, DeleteRows
<1>8. DOMAIN w = {} /\ \A r \in g : r[1] = "status"
  BY <1>4, <1>6, <1>7
<1>9. HeldOK(c, "update", a, w, g, db)
  BY <1>1, <1>8 DEF HeldOK, Writing
<1>10. Moves(c, "update", a)
  BY <1>1, <1>2, StayMoves
<1>11. QED
  BY <1>1, <1>5, <1>7, <1>9, <1>10, HeldStep

(* DeleteScope takes all that is committed of the list's scope. *)
LEMMA DeleteScopeHeld ==
    ASSUME BaseInv, HeldInv, NEW c \in Editors, DeleteScope(c)
    PROVE  HeldInv'
<1>1. /\ c \in Clients /\ c \notin Devices /\ UNCHANGED <<db, arg>> /\ pc[c] = "zone"
  BY ClientsDisjoint DEF Clients, DeleteScope
<1>2. PICK a : a = arg[c]
  OBVIOUS
<1>3. PICK rows : rows = {ScopeRow(arg[c].id, p) : p \in Places}
  OBVIOUS
<1>4. Delete(c, rows) /\ \A r \in rows : r[1] = "scope"
  BY <1>3, RowKinds DEF DeleteScope
<1>5. PICK w, g : w = put'[c] /\ g = gone'[c]
  OBVIOUS
<1>6. /\ w = [r \in DOMAIN put[c] \ (rows \cap Seen(c)) |-> put[c][r]]
      /\ g = gone[c] \cup ((rows \cap Seen(c)) \cap DOMAIN db)
      /\ \A d \in Clients \ {c} : put'[d] = put[d] /\ gone'[d] = gone[d]
  BY <1>1, <1>4, <1>5, DeleteRows
<1>7. /\ DOMAIN put[c] = {ListRow(a.id)}
      /\ put[c][ListRow(a.id)].stamp = a.stamp
  BY <1>1, <1>2 DEF HeldInv, HeldOK, Writing
<1>8. ListRow(a.id) \notin rows
  BY <1>4, RowKinds
<1>9. DOMAIN w = {ListRow(a.id)} /\ w[ListRow(a.id)].stamp = a.stamp
  BY <1>6, <1>7, <1>8
<1>10. ASSUME NEW r \in DOMAIN db, r[1] = "scope", r[2] = a.id PROVE r \in g
  <2>1. r = ScopeRow(a.id, r[3]) /\ r[3] \in Places
    BY <1>10, ScopeRowType DEF BaseInv, ServerOK
  <2>2. r \in rows
    BY <1>2, <1>3, <2>1
  <2>3. QED
    BY <1>6, <2>2 DEF Seen
<1>11. PICK p : p = IF a.sel = <<>> THEN "commit" ELSE "place"
  OBVIOUS
<1>12. HeldOK(c, p, a, w, g, db)
  BY <1>1, <1>9, <1>10, <1>11 DEF HeldOK, Writing
<1>13. Moves(c, p, a)
  BY <1>1, <1>2, <1>11, StayMoves DEF DeleteScope
<1>14. QED
  BY <1>1, <1>5, <1>6, <1>12, <1>13, HeldStep

(* IsExistStation writes nothing. *)
LEMMA IsExistStationHeld ==
    ASSUME BaseInv, HeldInv, NEW c \in Editors, IsExistStation(c)
    PROVE  HeldInv'
<1>1. c \in Clients /\ UNCHANGED <<listType, db, put, gone>> /\ pc[c] = "place"
  BY DEF Clients, IsExistStation
<1>2. PICK a \in ArgRec : a = arg[c] /\ CallOK(c, "place", a, db)
  BY <1>1, CallFacts
<1>3. PICK w, g, rows : w = put[c] /\ g = gone[c] /\ rows = db
  OBVIOUS
<1>4. HeldOK(c, "place", a, w, g, rows)
  BY <1>1, <1>2, <1>3 DEF HeldInv
<1>5. \E p \in {"place", "store", "commit"}, b \in ArgRec :
        Moves(c, p, b) /\ b.id = a.id /\ b.stamp = a.stamp
  <2>1. CASE Goto(c, "store") /\ UNCHANGED arg
    BY <1>1, <1>2, <2>1, StayMoves
  <2>2. CASE NextPlace(c)
    BY <1>1, <1>2, <2>2, NextPlaceMoves
  <2>3. QED
    BY <2>1, <2>2 DEF IsExistStation
<1>6. PICK p \in {"place", "store", "commit"}, b \in ArgRec :
        Moves(c, p, b) /\ b.id = a.id /\ b.stamp = a.stamp
  BY <1>5
<1>7. HeldOK(c, p, b, w, g, rows)
  BY <1>4, <1>6, HeldBehind
<1>8. HeldOK(c, p, b, w, g, db) /\ w = put'[c] /\ g = gone'[c]
  BY <1>1, <1>3, <1>7
<1>9. QED
  BY <1>1, <1>6, <1>8, HeldStep

(* InsertPlace adds a row of the list's scope, with the call's stamp. *)
LEMMA InsertPlaceHeld ==
    ASSUME BaseInv, HeldInv, NEW c \in Editors, InsertPlace(c)
    PROVE  HeldInv'
<1>1. c \in Clients /\ c \notin Devices /\ UNCHANGED listType /\ pc[c] = "store"
  BY ClientsDisjoint DEF Clients, InsertPlace
<1>2. CASE Abort(c)
  BY <1>1, <1>2, AbortHeldInv
<1>3. CASE ~Abort(c)
  <2>1. PICK a \in ArgRec : a = arg[c] /\ CallOK(c, "store", a, db)
    BY <1>1, CallFacts
  <2>2. PICK row : row = ScopeRow(a.id, a.sel[a.i])
    OBVIOUS
  <2>3. Write(c, row, a.stamp) /\ NextPlace(c) /\ UNCHANGED db
    BY <1>3, <2>1, <2>2 DEF InsertPlace
  <2>4. row[1] = "scope" /\ row[2] = a.id /\ row # ListRow(a.id)
    BY <2>2, RowKinds
  <2>5. PICK w, g, v : w = put'[c] /\ g = gone'[c] /\ v = put[c]
    OBVIOUS
  <2>6. /\ w = [r \in DOMAIN v \cup {row} |-> IF r = row THEN a.stamp ELSE v[r]]
        /\ g = gone[c]
        /\ \A d \in Clients \ {c} : put'[d] = put[d] /\ gone'[d] = gone[d]
    BY <1>1, <2>3, <2>5, WriteRows
  <2>7. HeldOK(c, "store", a, v, g, db)
    BY <1>1, <2>1, <2>5, <2>6 DEF HeldInv
  <2>8. HeldOK(c, "store", a, w, g, db)
    BY <1>1, <2>4, <2>6, <2>7 DEF HeldOK, Writing
  <2>9. PICK p \in {"place", "commit"}, b \in ArgRec :
          Moves(c, p, b) /\ b.id = a.id /\ b.stamp = a.stamp
    BY <1>1, <2>1, <2>3, NextPlaceMoves
  <2>10. HeldOK(c, p, b, w, g, db)
    BY <2>8, <2>9, HeldBehind
  <2>11. QED
    BY <1>1, <2>3, <2>5, <2>6, <2>9, <2>10, HeldStep
<1>4. QED
  BY <1>2, <1>3

(* The statements of a device touch downloads only. *)
LEMMA DeviceHeld ==
    ASSUME BaseInv, HeldInv, NEW d \in Devices, DeleteStatus(d) \/ InsertStatus(d)
    PROVE  HeldInv'
<1>1. d \in Clients
  BY DEF Clients
<1>2. CASE DeleteStatus(d)
  <2>1. UNCHANGED <<db, arg>> /\ Goto(d, "report")
    BY <1>2 DEF DeleteStatus
  <2>2. PICK rows, a : rows = {StatusRow(arg[d].id, d)} /\ a = arg[d]
    OBVIOUS
  <2>3. Delete(d, rows) /\ \A r \in rows : r[1] = "status"
    BY <1>2, <2>2, RowKinds DEF DeleteStatus
  <2>4. PICK w, g : w = put'[d] /\ g = gone'[d]
    OBVIOUS
  <2>5. /\ w = [r \in DOMAIN put[d] \ (rows \cap Seen(d)) |-> put[d][r]]
        /\ g = gone[d] \cup ((rows \cap Seen(d)) \cap DOMAIN db)
        /\ \A e \in Clients \ {d} : put'[e] = put[e] /\ gone'[e] = gone[e]
    BY <1>1, <2>3, <2>4, DeleteRows
  <2>6. \A r \in DOMAIN put[d] \cup gone[d] : r[1] = "status"
    BY <1>1 DEF HeldInv, HeldOK
  <2>7. HeldOK(d, "report", a, w, g, db)
    BY <2>3, <2>5, <2>6 DEF HeldOK
  <2>8. Moves(d, "report", a)
    BY <1>1, <2>1, <2>2, StayMoves
  <2>9. QED
    BY <1>1, <2>1, <2>4, <2>5, <2>7, <2>8, HeldStep
<1>3. CASE InsertStatus(d) /\ Abort(d)
  BY <1>1, <1>3, AbortHeldInv
<1>4. CASE InsertStatus(d) /\ ~Abort(d)
  <2>1. PICK row, a : row = StatusRow(arg[d].id, d) /\ a = arg[d]
    OBVIOUS
  <2>2. Write(d, row, a.stamp) /\ Goto(d, "commit") /\ UNCHANGED <<db, arg>>
    BY <1>4, <2>1 DEF InsertStatus
  <2>3. PICK w, g : w = put'[d] /\ g = gone'[d]
    OBVIOUS
  <2>4. /\ w = [r \in DOMAIN put[d] \cup {row} |-> IF r = row THEN a.stamp ELSE put[d][r]]
        /\ g = gone[d]
        /\ \A e \in Clients \ {d} : put'[e] = put[e] /\ gone'[e] = gone[e]
    BY <1>1, <2>2, <2>3, WriteRows
  <2>5. \A r \in DOMAIN put[d] \cup gone[d] : r[1] = "status"
    BY <1>1 DEF HeldInv, HeldOK
  <2>6. HeldOK(d, "commit", a, w, g, db)
    BY <2>1, <2>4, <2>5, RowKinds DEF HeldOK
  <2>7. Moves(d, "commit", a)
    BY <1>1, <2>1, <2>2, StayMoves
  <2>8. QED
    BY <1>1, <2>2, <2>3, <2>4, <2>6, <2>7, HeldStep
<1>5. QED
  BY <1>2, <1>3, <1>4

(* What a commit does to the committed rows. *)
LEMMA CommitRows ==
    ASSUME NEW c \in Clients, Commit(c)
    PROVE  /\ DOMAIN db' = (DOMAIN db \ gone[c]) \cup DOMAIN put[c]
           /\ \A r \in DOMAIN db' :
                db'[r] = IF r \in DOMAIN put[c] THEN put[c][r] ELSE db[r]
BY DEF Commit, Seen, View

(* A commit brings no scope into a list another editor has taken: that     *)
(* editor holds the list's record.                                         *)
LEMMA CommitHeld ==
    ASSUME BaseInv, HeldInv, NEW c \in Clients, Commit(c)
    PROVE  HeldInv'
<1>1. /\ EndTransaction(c) /\ pc[c] = "commit"
  BY DEF Commit
<1>2. PICK value : Return(c, value)
  BY DEF Commit
<1>3. PICK a \in ArgRec : Moves(c, "idle", a)
  BY <1>2, ReturnMoves
<1>4. /\ pc'[c] = "idle" /\ arg'[c] = a
      /\ \A d \in Clients \ {c} : pc'[d] = pc[d] /\ arg'[d] = arg[d]
  BY <1>3 DEF Moves, BaseInv, Shape
<1>5. /\ DOMAIN put'[c] = {} /\ gone'[c] = {}
      /\ \A d \in Clients \ {c} : put'[d] = put[d] /\ gone'[d] = gone[d]
  BY <1>1, EndRows
<1>6. HeldOK(c, pc[c], arg[c], put[c], gone[c], db)'
  BY <1>4, <1>5 DEF HeldOK, Writing
<1>7. ASSUME NEW d \in Clients \ {c}
      PROVE  HeldOK(d, pc[d], arg[d], put[d], gone[d], db)'
  <2>1. PICK p, b, w, g, rows : p = pc[d] /\ b = arg[d] /\ w = put[d] /\ g = gone[d] /\ rows = db'
    OBVIOUS
  <2>2. HeldOK(d, p, b, w, g, db)
    BY <2>1 DEF HeldInv
  <2>3. ASSUME d \notin Devices, p \in {"place", "store", "commit"},
               NEW r \in DOMAIN rows, r[1] = "scope", r[2] = b.id
        PROVE  r \in g
    <3>1. CASE r \in DOMAIN db
      BY <2>2, <2>3, <3>1 DEF HeldOK
    <3>2. CASE r \in DOMAIN put[c]
      <4>1. HeldOK(c, "commit", arg[c], put[c], gone[c], db)
        BY <1>1 DEF HeldInv
      <4>2. c \notin Devices
        BY <2>3, <3>2, <4>1 DEF HeldOK
      <4>3. ListRow(arg[c].id) \in DOMAIN put[c] /\ r[2] = arg[c].id
        <5>1. /\ ListRow(arg[c].id) \in DOMAIN put[c]
              /\ r = ListRow(arg[c].id) \/ r[2] = arg[c].id
          BY <3>2, <4>1, <4>2 DEF HeldOK, Writing
        <5>2. r # ListRow(arg[c].id)
          BY <2>3, RowKinds
        <5>3. QED
          BY <5>1, <5>2
      <4>4. ListRow(b.id) \in DOMAIN w
        BY <2>2, <2>3 DEF HeldOK, Writing
      <4>5. ListRow(b.id) \in Locks(c) \cap Locks(d)
        BY <2>1, <2>3, <4>3, <4>4 DEF Locks
      <4>6. QED
        BY <4>5 DEF BaseInv, ServerOK, LocksApart
    <3>3. DOMAIN rows = (DOMAIN db \ gone[c]) \cup DOMAIN put[c]
      BY <2>1, CommitRows
    <3>4. QED
      BY <2>3, <3>1, <3>2, <3>3
  <2>4. HeldOK(d, p, b, w, g, rows)
    BY <2>2, <2>3 DEF HeldOK
  <2>5. QED
    BY <1>4, <1>5, <2>1, <2>4
<1>8. QED
  BY <1>6, <1>7 DEF HeldInv

(* A commit replaces the whole scope of the list whose record it replaces. *)
LEMMA CommitMixed ==
    ASSUME BaseInv, HeldInv, NoMixedScope, NEW c \in Clients, Commit(c)
    PROVE  NoMixedScope'
<1>1. HeldOK(c, "commit", arg[c], put[c], gone[c], db)
  BY DEF Commit, HeldInv
<1>2. SUFFICES ASSUME NEW r \in DOMAIN db', r[1] = "scope", ListRow(r[2]) \in DOMAIN db'
               PROVE  db'[r] = db'[ListRow(r[2])].stamp
  BY DEF NoMixedScope
<1>3. CASE c \in Devices
  <2>1. r \notin DOMAIN put[c] /\ ListRow(r[2]) \notin DOMAIN put[c]
    BY <1>1, <1>2, <1>3, RowKinds DEF HeldOK
  <2>2. \A q \in DOMAIN db' : q \notin DOMAIN put[c] => q \in DOMAIN db /\ db'[q] = db[q]
    BY CommitRows
  <2>3. db[r] = db[ListRow(r[2])].stamp
    BY <1>2, <2>1, <2>2 DEF NoMixedScope
  <2>4. QED
    BY <1>2, <2>1, <2>2, <2>3
<1>4. CASE c \notin Devices
  <2>1. PICK id : id = arg[c].id
    OBVIOUS
  <2>2. /\ ListRow(id) \in DOMAIN put[c] /\ put[c][ListRow(id)].stamp = arg[c].stamp
        /\ \A q \in DOMAIN put[c] :
              \/ q = ListRow(id)
              \/ q[1] = "scope" /\ q[2] = id /\ put[c][q] = arg[c].stamp
        /\ \A q \in DOMAIN db : q[1] = "scope" /\ q[2] = id => q \in gone[c]
    BY <1>1, <1>4, <2>1 DEF HeldOK, Writing
  <2>3. r # ListRow(id)
    BY <1>2, RowKinds
  <2>4. CASE r \in DOMAIN put[c]
    BY <1>2, <2>2, <2>3, <2>4, CommitRows
  <2>5. CASE r \notin DOMAIN put[c]
    <3>1. r \in DOMAIN db /\ r \notin gone[c] /\ db'[r] = db[r]
      BY <1>2, <2>5, CommitRows
    <3>2. r[2] # id
      BY <1>2, <2>2, <3>1
    <3>3. ListRow(r[2]) \notin DOMAIN put[c]
      <4>1. ListRow(r[2])[1] = "list" /\ ListRow(r[2])[2] = r[2] /\ ListRow(id)[2] = id
        BY RowKinds
      <4>2. QED
        BY <2>2, <3>2, <4>1
    <3>4. \A q \in DOMAIN db' : q \notin DOMAIN put[c] => q \in DOMAIN db /\ db'[q] = db[q]
      BY CommitRows
    <3>5. db[r] = db[ListRow(r[2])].stamp
      BY <1>2, <3>1, <3>3, <3>4 DEF NoMixedScope
    <3>6. QED
      BY <1>2, <3>1, <3>3, <3>4, <3>5
  <2>6. QED
    BY <2>4, <2>5
<1>5. QED
  BY <1>3, <1>4

(* A statement before the record is taken. *)
LEMMA EarlyHeld ==
    ASSUME BaseInv, HeldInv, "id" \notin Faults, NEW c \in Editors,
           GetPlayListID(c) \/ CheckTitle(c)
    PROVE  HeldInv'
<1>1. /\ c \in Clients /\ UNCHANGED <<db, put, gone>> /\ pc[c] \notin Writing
  BY DEF Clients, GetPlayListID, CheckTitle, Writing
<1>2. Goto(c, "title") \/ Goto(c, "insert")
  BY DEF GetPlayListID, CheckTitle, Outcome
<1>3. \A d \in Clients \ {c} : arg'[d] = arg[d]
  <2>1. CASE GetPlayListID(c)
    BY <2>1 DEF GetPlayListID, BaseInv, Shape
  <2>2. CASE CheckTitle(c)
    BY <2>2 DEF CheckTitle, BaseInv, Shape
  <2>3. QED
    BY <2>1, <2>2
<1>4. DOMAIN arg' = Clients
  <2>1. DOMAIN arg = Clients
    BY DEF BaseInv, Shape
  <2>2. CASE GetPlayListID(c)
    BY <2>1, <2>2 DEF GetPlayListID
  <2>3. CASE CheckTitle(c)
    BY <2>1, <2>3 DEF CheckTitle
  <2>4. QED
    BY <2>2, <2>3
<1>5. PICK a : a = arg'[c]
  OBVIOUS
<1>6. arg' = [arg EXCEPT ![c] = a]
  <2>1. arg' = [d \in Clients |-> arg'[d]]
    <3>1. CASE GetPlayListID(c)
      BY <1>4, <3>1 DEF GetPlayListID, BaseInv, Shape
    <3>2. CASE CheckTitle(c)
      BY <1>4, <3>2 DEF CheckTitle
    <3>3. QED
      BY <3>1, <3>2
  <2>2. QED
    BY <1>3, <1>5, <2>1 DEF BaseInv, Shape
<1>7. PICK p \in {"title", "insert"} : Moves(c, p, a)
  BY <1>2, <1>6 DEF Moves, Goto
<1>8. p \notin Writing
  BY <1>7 DEF Writing
<1>9. QED
  BY <1>1, <1>7, <1>8, BeforeHeld

(* The start of a call, and a call without a selection. *)
LEMMA BeginHeld ==
    ASSUME BaseInv, HeldInv
    PROVE  /\ \A c \in Editors : SaveNothing(c) => HeldInv'
           /\ \A c \in Editors, name \in Names, line \in Lines, sel \in Selections :
                BeginSave(c, name, line, sel) => HeldInv'
           /\ \A d \in Devices : \A id : BeginReport(d, id) => HeldInv'
<1>1. ASSUME NEW c \in Editors, SaveNothing(c) PROVE HeldInv'
  <2>1. c \in Clients /\ Return(c, -1) /\ UNCHANGED <<db, put, gone>> /\ pc[c] \notin Writing
    BY <1>1 DEF Clients, SaveNothing, Writing
  <2>2. PICK a : Moves(c, "idle", a)
    BY <2>1, ReturnMoves
  <2>3. "idle" \notin Writing
    BY DEF Writing
  <2>4. QED
    BY <2>1, <2>2, <2>3, BeforeHeld
<1>2. ASSUME NEW c \in Editors, NEW name \in Names, NEW line \in Lines,
             NEW sel \in Selections, BeginSave(c, name, line, sel)
      PROVE  HeldInv'
  <2>1. c \in Clients /\ UNCHANGED <<db, put, gone>> /\ pc[c] \notin Writing
    BY <1>2 DEF Clients, BeginSave, Writing
  <2>2. PICK p \in {"maxid", "clear", "update"}, a \in ArgRec : Moves(c, p, a)
    BY <1>2, BeginSaveMoves
  <2>3. p \notin Writing
    BY <2>2 DEF Writing
  <2>4. QED
    BY <2>1, <2>2, <2>3, BeforeHeld
<1>3. ASSUME NEW d \in Devices, NEW id, BeginReport(d, id) PROVE HeldInv'
  <2>1. d \in Clients /\ UNCHANGED <<db, put, gone>> /\ pc[d] \notin Writing
    BY <1>3 DEF Clients, BeginReport, Writing
  <2>2. PICK a : Moves(d, "unreport", a)
    BY <1>3 DEF BeginReport, Moves, Goto
  <2>3. "unreport" \notin Writing
    BY DEF Writing
  <2>4. QED
    BY <2>1, <2>2, <2>3, BeforeHeld
<1>4. QED
  BY <1>1, <1>2, <1>3

(* Initially no call holds anything and no list has a mixed scope. *)
LEMMA InitHeld == Init => HeldInv /\ NoMixedScope
<1> SUFFICES ASSUME Init PROVE HeldInv /\ NoMixedScope
  OBVIOUS
<1>1. ASSUME NEW c \in Clients
      PROVE  HeldOK(c, pc[c], arg[c], put[c], gone[c], db)
  <2>1. pc[c] = "idle" /\ DOMAIN put[c] = {} /\ gone[c] = {}
    BY DEF Init, EmptyRows
  <2>2. QED
    BY <2>1 DEF HeldOK, Writing
<1>2. HeldInv
  BY <1>1 DEF HeldInv
<1>3. \A r \in DOMAIN db : IF r[1] = "list" THEN db[r].stamp = 0 ELSE db[r] = 0
  BY DEF Init, StockDb
<1>4. ASSUME NEW r \in DOMAIN db, r[1] = "scope", ListRow(r[2]) \in DOMAIN db
      PROVE  db[r] = db[ListRow(r[2])].stamp
  <2>1. db[r] = 0
    BY <1>3, <1>4
  <2>2. db[ListRow(r[2])].stamp = 0
    <3>1. PICK l : l = ListRow(r[2]) /\ l[1] = "list"
      BY RowKinds
    <3>2. QED
      BY <1>3, <1>4, <3>1
  <2>3. QED
    BY <2>1, <2>2
<1>5. QED
  BY <1>2, <1>4 DEF NoMixedScope

(* Only a commit changes the committed rows. *)
LEMMA OnlyCommit ==
    ASSUME Next
    PROVE  db' = db \/ \E c \in Clients : Commit(c)
BY DEF Next, Statement, UpdatePlayListRecord, UpdateDefaultPlayListRecord, SaveStatement,
       SetDownloadStatus, SaveNothing, BeginSave, BeginReport, GetPlayListID, CheckTitle,
       InsertList, ClearStatus, UpdateList, DeleteScope, IsExistStation, InsertPlace,
       DeleteStatus, InsertStatus, Fail, Abort, Clients

(* Every step keeps what the calls hold, when the select for a new         *)
(* identifier does not fail, and mixes no scope.                           *)
LEMMA StepHeld ==
    ASSUME "id" \notin Faults
    PROVE  BaseInv /\ HeldInv /\ NoMixedScope /\ [Next]_vars => HeldInv' /\ NoMixedScope'
<1> SUFFICES ASSUME BaseInv, HeldInv, NoMixedScope, [Next]_vars
             PROVE  HeldInv' /\ NoMixedScope'
  OBVIOUS
<1>1. CASE UNCHANGED vars
  BY <1>1 DEF vars, HeldInv, NoMixedScope
<1>2. ASSUME NEW c \in Editors, SaveStatement(c) PROVE HeldInv'
  <2>1. c \in Clients
    BY DEF Clients
  <2>2. QED
    BY <1>2, <2>1, EarlyHeld, InsertListHeld, ClearStatusHeld, UpdateListHeld,
       DeleteScopeHeld, IsExistStationHeld, InsertPlaceHeld, CommitHeld DEF SaveStatement
<1>3. ASSUME NEW d \in Devices, SetDownloadStatus(d) PROVE HeldInv'
  <2>1. d \in Clients
    BY DEF Clients
  <2>2. QED
    BY <1>3, <2>1, DeviceHeld, CommitHeld DEF SetDownloadStatus
<1>4. ASSUME NEW c \in Clients, Fail(c) PROVE HeldInv'
  BY <1>4, AbortHeldInv DEF Fail
<1>5. CASE Next
  <2>1. HeldInv'
    BY <1>2, <1>3, <1>4, <1>5, BeginHeld
       DEF Next, Statement, UpdatePlayListRecord, UpdateDefaultPlayListRecord
  <2>2. NoMixedScope'
    <3>1. CASE db' = db
      BY <3>1 DEF NoMixedScope
    <3>2. CASE \E c \in Clients : Commit(c)
      BY <3>2, CommitMixed
    <3>3. QED
      BY <1>5, <3>1, <3>2, OnlyCommit
  <2>3. QED
    BY <2>1, <2>2
<1>6. QED
  BY <1>1, <1>5

(* As long as the select for a new identifier does not fail, the scope of  *)
(* a list is never a mixture of two editors' choices, whatever else fails: *)
(* the record of the list is taken before its scope.                       *)
THEOREM Scope ==
    ASSUME "id" \notin Faults PROVE Spec => []NoMixedScope
<1>1. Init => BaseInv /\ HeldInv /\ NoMixedScope
  BY InitBase, InitHeld
<1>2. BaseInv /\ HeldInv /\ NoMixedScope /\ [Next]_vars
        => BaseInv' /\ HeldInv' /\ NoMixedScope'
  BY StepBase, StepHeld
<1>3. QED
  BY <1>1, <1>2, PTL DEF Spec

-----------------------------------------------------------------------------
(* The places stored                                                       *)

(* The places of the list that the transaction has rows of. *)
HeldPlaces(id, w) == {q \in Places : ScopeRow(id, q) \in DOMAIN w}

(* In the loop the places before the present one are stored, behind it all. *)
PlacesOK(p, a, w) ==
    /\ p \in {"place", "store"} =>
          HeldPlaces(a.id, w) = {a.sel[j] : j \in 1 .. (a.i - 1)}
    /\ p = "commit" =>
          HeldPlaces(a.id, w) = {a.sel[j] : j \in 1 .. Len(a.sel)}

PlacesInv == \A c \in Editors : PlacesOK(pc[c], arg[c], put[c])

(* Only c moves. *)
Alone(c) ==
    \A d \in Clients \ {c} : pc'[d] = pc[d] /\ arg'[d] = arg[d] /\ put'[d] = put[d]

(* A step of c alone. *)
LEMMA PlacesStep ==
    ASSUME PlacesInv, NEW c \in Clients, Alone(c),
           c \in Editors => PlacesOK(pc[c], arg[c], put[c])'
    PROVE  PlacesInv'
<1>1. SUFFICES ASSUME NEW d \in Editors, d # c PROVE PlacesOK(pc[d], arg[d], put[d])'
  BY DEF PlacesInv
<1>2. pc'[d] = pc[d] /\ arg'[d] = arg[d] /\ put'[d] = put[d]
  BY <1>1 DEF Alone, Clients
<1>3. PlacesOK(pc[d], arg[d], put[d])
  BY DEF PlacesInv
<1>4. QED
  BY <1>2, <1>3

(* A call that returns leaves the others alone. *)
LEMMA ReturnAlone ==
    ASSUME BaseInv, PlacesInv, NEW c \in Clients, NEW value, Return(c, value),
           EndTransaction(c) \/ UNCHANGED put
    PROVE  PlacesInv'
<1>1. PICK a \in ArgRec : Moves(c, "idle", a)
  BY ReturnMoves
<1>2. pc'[c] = "idle"
  BY <1>1 DEF Moves, BaseInv, Shape
<1>3. Alone(c)
  BY <1>1, EndRows DEF Moves, Alone, BaseInv, Shape
<1>4. PlacesOK(pc[c], arg[c], put[c])'
  BY <1>2 DEF PlacesOK
<1>5. QED
  BY <1>3, <1>4, PlacesStep

(* The statements before the loop, and those of a device, store no place. *)
LEMMA EarlyPlaces ==
    ASSUME BaseInv, PlacesInv, NEW c \in Clients,
           \/ c \in Editors /\ (GetPlayListID(c) \/ CheckTitle(c) \/ InsertList(c)
                                  \/ ClearStatus(c) \/ UpdateList(c))
           \/ c \in Devices /\ (DeleteStatus(c) \/ InsertStatus(c))
    PROVE  PlacesInv'
<1>1. CASE Abort(c)
  BY <1>1, ReturnAlone DEF Abort
<1>2. CASE ~Abort(c)
  <2>1. \A d \in Clients \ {c} : put'[d] = put[d]
    <3>1. CASE GetPlayListID(c) \/ CheckTitle(c)
      BY <3>1 DEF GetPlayListID, CheckTitle
    <3>2. CASE InsertList(c)
      BY <1>2, <3>2, WriteRows DEF InsertList
    <3>3. CASE ClearStatus(c)
      BY <3>3, DeleteRows DEF ClearStatus
    <3>4. CASE UpdateList(c)
      BY <3>4, WriteRows DEF UpdateList
    <3>5. CASE DeleteStatus(c)
      BY <3>5, DeleteRows DEF DeleteStatus
    <3>6. CASE InsertStatus(c)
      BY <1>2, <3>6, WriteRows DEF InsertStatus
    <3>7. QED
      BY <3>1, <3>2, <3>3, <3>4, <3>5, <3>6
  <2>2. \A d \in Clients \ {c} : pc'[d] = pc[d] /\ arg'[d] = arg[d]
    <3>1. CASE GetPlayListID(c)
      BY <3>1 DEF GetPlayListID, Goto, BaseInv, Shape
    <3>2. CASE CheckTitle(c)
      BY <3>2 DEF CheckTitle, Goto, BaseInv, Shape
    <3>3. CASE InsertList(c) \/ ClearStatus(c) \/ UpdateList(c)
      BY <1>2, <3>3 DEF InsertList, ClearStatus, UpdateList, Goto, BaseInv, Shape
    <3>4. CASE DeleteStatus(c) \/ InsertStatus(c)
      BY <1>2, <3>4 DEF DeleteStatus, InsertStatus, Goto, BaseInv, Shape
    <3>5. QED
      BY <3>1, <3>2, <3>3, <3>4
  <2>3. c \in Editors => pc'[c] \notin {"place", "store", "commit"}
    <3>1. c \in Editors => \E l \in {"title", "insert", "update", "zone"} : Goto(c, l)
      BY <1>2, ClientsDisjoint DEF GetPlayListID, CheckTitle, InsertList, ClearStatus, UpdateList
    <3>2. QED
      BY <3>1 DEF Goto, BaseInv, Shape
  <2>4. QED
    BY <2>1, <2>2, <2>3, PlacesStep DEF Alone, PlacesOK
<1>3. QED
  BY <1>1, <1>2

(* The start of a call. *)
LEMMA BeginPlaces ==
    ASSUME BaseInv, PlacesInv
    PROVE  /\ \A c \in Editors : SaveNothing(c) => PlacesInv'
           /\ \A c \in Editors, name \in Names, line \in Lines, sel \in Selections :
                BeginSave(c, name, line, sel) => PlacesInv'
           /\ \A d \in Devices : \A id : BeginReport(d, id) => PlacesInv'
<1>1. ASSUME NEW c \in Editors, SaveNothing(c) PROVE PlacesInv'
  BY <1>1, ReturnAlone DEF SaveNothing, Clients
<1>2. ASSUME NEW c \in Editors, NEW name \in Names, NEW line \in Lines,
             NEW sel \in Selections, BeginSave(c, name, line, sel)
      PROVE  PlacesInv'
  <2>1. PICK p \in {"maxid", "clear", "update"}, a \in ArgRec : Moves(c, p, a)
    BY <1>2, BeginSaveMoves
  <2>2. c \in Clients /\ UNCHANGED put
    BY <1>2 DEF BeginSave, Clients
  <2>3. pc'[c] = p /\ Alone(c)
    BY <2>1, <2>2 DEF Moves, Alone, BaseInv, Shape
  <2>4. PlacesOK(pc[c], arg[c], put[c])'
    BY <2>1, <2>3 DEF PlacesOK
  <2>5. QED
    BY <2>2, <2>3, <2>4, PlacesStep
<1>3. ASSUME NEW d \in Devices, NEW id, BeginReport(d, id) PROVE PlacesInv'
  <2>1. d \in Clients /\ d \notin Editors
    BY ClientsDisjoint DEF Clients
  <2>2. Alone(d)
    BY <1>3 DEF BeginReport, Goto, Alone, BaseInv, Shape
  <2>3. QED
    BY <2>1, <2>2, PlacesStep
<1>4. QED
  BY <1>1, <1>2, <1>3

(* Behind DeleteScope no place is stored. *)
LEMMA DeleteScopePlaces ==
    ASSUME BaseInv, HeldInv, PlacesInv, NEW c \in Editors, DeleteScope(c)
    PROVE  PlacesInv'
<1>1. /\ c \in Clients /\ c \notin Devices /\ UNCHANGED arg /\ pc[c] = "zone"
  BY ClientsDisjoint DEF Clients, DeleteScope
<1>2. PICK a \in ArgRec : a = arg[c] /\ CallOK(c, "zone", a, db)
  BY <1>1, CallFacts
<1>3. a.i = 1
  BY <1>2 DEF CallOK
<1>4. DOMAIN put[c] = {ListRow(a.id)}
  BY <1>1, <1>2 DEF HeldInv, HeldOK, Writing
<1>5. PICK w : w = put'[c]
  OBVIOUS
<1>6. DOMAIN w \subseteq {ListRow(a.id)} /\ \A d \in Clients \ {c} : put'[d] = put[d]
  <2>1. PICK rows : rows = {ScopeRow(arg[c].id, p) : p \in Places}
    OBVIOUS
  <2>2. Delete(c, rows)
    BY <2>1 DEF DeleteScope
  <2>3. /\ w = [r \in DOMAIN put[c] \ (rows \cap Seen(c)) |-> put[c][r]]
        /\ \A d \in Clients \ {c} : put'[d] = put[d]
    BY <1>1, <1>5, <2>2, DeleteRows
  <2>4. QED
    BY <1>4, <2>3
<1>7. HeldPlaces(a.id, w) = {}
  <2>1. \A q : ScopeRow(a.id, q) # ListRow(a.id)
    BY DEF ScopeRow, ListRow
  <2>2. QED
    BY <1>6, <2>1 DEF HeldPlaces
<1>8. PICK p : p = IF a.sel = <<>> THEN "commit" ELSE "place"
  OBVIOUS
<1>9. pc'[c] = p /\ arg'[c] = a /\ Alone(c)
  BY <1>1, <1>2, <1>6, <1>8 DEF DeleteScope, Goto, Alone, BaseInv, Shape
<1>10. PlacesOK(p, a, w)
  <2>1. {a.sel[j] : j \in 1 .. (a.i - 1)} = {}
    BY <1>3
  <2>2. a.sel = <<>> => {a.sel[j] : j \in 1 .. Len(a.sel)} = {}
    OBVIOUS
  <2>3. QED
    BY <1>7, <1>8, <2>1, <2>2 DEF PlacesOK
<1>11. PlacesOK(pc[c], arg[c], put[c])'
  BY <1>5, <1>9, <1>10
<1>12. QED
  BY <1>1, <1>9, <1>11, PlacesStep

(* One place more is stored. *)
LEMMA OneMore ==
    ASSUME NEW p \in {"place", "commit"}, NEW a, NEW b, NEW w, a.i \in 1 .. Len(a.sel),
           b.id = a.id, b.sel = a.sel, b.i = a.i + 1, Len(a.sel) \in Nat,
           (p = "commit") <=> (a.i = Len(a.sel)),
           HeldPlaces(a.id, w) = {a.sel[j] : j \in 1 .. (a.i - 1)} \cup {a.sel[a.i]}
    PROVE  PlacesOK(p, b, w)
<1>1. PICK s, i : s = a.sel /\ i = a.i
  OBVIOUS
<1>2. i \in Nat \ {0}
  BY <1>1
<1>3. {s[j] : j \in 1 .. (i - 1)} \cup {s[i]} = {s[j] : j \in 1 .. i}
  <2>1. \A j : j \in 1 .. i <=> (j \in 1 .. (i - 1) \/ j = i)
    BY <1>2
  <2>2. QED
    BY <2>1
<1>4. b.i - 1 = i
  BY <1>1, <1>2
<1>5. QED
  BY <1>1, <1>3, <1>4 DEF PlacesOK

(* IsExistStation passes over a place that the transaction has stored. *)
LEMMA IsExistStationPlaces ==
    ASSUME BaseInv, HeldInv, PlacesInv, "station" \notin Faults,
           NEW c \in Editors, IsExistStation(c)
    PROVE  PlacesInv'
<1>1. c \in Clients /\ c \notin Devices /\ UNCHANGED <<listType, db, put, gone>> /\ pc[c] = "place"
  BY ClientsDisjoint DEF Clients, IsExistStation
<1>2. PICK a \in ArgRec : a = arg[c] /\ CallOK(c, "place", a, db)
  BY <1>1, CallFacts
<1>3. PICK w : w = put[c] /\ w = put'[c]
  BY <1>1
<1>4. HeldPlaces(a.id, w) = {a.sel[j] : j \in 1 .. (a.i - 1)}
  BY <1>1, <1>2, <1>3 DEF PlacesInv, PlacesOK
<1>5. CASE Goto(c, "store") /\ UNCHANGED arg
  <2>1. pc'[c] = "store" /\ arg'[c] = a /\ Alone(c)
    BY <1>1, <1>2, <1>5 DEF Goto, Alone, BaseInv, Shape
  <2>2. PlacesOK("store", a, w)
    BY <1>4 DEF PlacesOK
  <2>3. PlacesOK(pc[c], arg[c], put[c])'
    BY <1>3, <2>1, <2>2
  <2>4. QED
    BY <1>1, <2>1, <2>3, PlacesStep
<1>6. CASE NextPlace(c) /\ ScopeRow(a.id, a.sel[a.i]) \in Seen(c)
  <2>1. PICK p \in {"place", "commit"}, b \in ArgRec :
          /\ Moves(c, p, b)
          /\ b.id = a.id /\ b.sel = a.sel /\ b.i = a.i + 1 /\ a.i \in 1 .. Len(a.sel)
          /\ (p = "commit") <=> (a.i = Len(a.sel))
    BY <1>1, <1>2, <1>6, NextPlaceMoves
  <2>2. PICK q : q = a.sel[a.i]
    OBVIOUS
  <2>3. a.sel \in Selections /\ Len(a.sel) \in Nat
    BY <1>2, TablesAssumption DEF CallOK
  <2>4. q \in Places
    BY <2>1, <2>2, <2>3, PlaceType
  <2>5. ScopeRow(a.id, q) \in DOMAIN w
    <3>1. \A r \in DOMAIN db : r[1] = "scope" /\ r[2] = a.id => r \in gone[c]
      BY <1>1, <1>2 DEF HeldInv, HeldOK
    <3>2. PICK r : r = ScopeRow(a.id, q) /\ r[1] = "scope" /\ r[2] = a.id
      BY RowKinds
    <3>3. QED
      BY <1>3, <1>6, <2>2, <3>1, <3>2 DEF Seen
  <2>6. q \in HeldPlaces(a.id, w)
    BY <2>4, <2>5 DEF HeldPlaces
  <2>7. HeldPlaces(a.id, w) = {a.sel[j] : j \in 1 .. (a.i - 1)} \cup {a.sel[a.i]}
    BY <1>4, <2>2, <2>6
  <2>8. PlacesOK(p, b, w)
    BY <2>1, <2>3, <2>7, OneMore
  <2>9. pc'[c] = p /\ arg'[c] = b /\ Alone(c)
    BY <1>1, <2>1 DEF Moves, Alone, BaseInv, Shape
  <2>10. PlacesOK(pc[c], arg[c], put[c])'
    BY <1>3, <2>8, <2>9
  <2>11. QED
    BY <1>1, <2>9, <2>10, PlacesStep
<1>7. QED
  <2>1. \/ Goto(c, "store") /\ UNCHANGED arg
        \/ NextPlace(c) /\ ScopeRow(arg[c].id, arg[c].sel[arg[c].i]) \in Seen(c)
    BY DEF IsExistStation, Outcome
  <2>2. QED
    BY <1>2, <1>5, <1>6, <2>1

(* InsertPlace stores one place. *)
LEMMA InsertPlacePlaces ==
    ASSUME BaseInv, HeldInv, PlacesInv, NEW c \in Editors, InsertPlace(c)
    PROVE  PlacesInv'
<1>1. c \in Clients /\ UNCHANGED listType /\ pc[c] = "store"
  BY DEF Clients, InsertPlace
<1>2. CASE Abort(c)
  BY <1>1, <1>2, ReturnAlone DEF Abort
<1>3. CASE ~Abort(c)
  <2>1. PICK a \in ArgRec : a = arg[c] /\ CallOK(c, "store", a, db)
    BY <1>1, CallFacts
  <2>2. PICK q, v, w : q = a.sel[a.i] /\ v = put[c] /\ w = put'[c]
    OBVIOUS
  <2>3. Write(c, ScopeRow(a.id, q), a.stamp) /\ NextPlace(c)
    BY <1>3, <2>1, <2>2 DEF InsertPlace
  <2>4. DOMAIN w = DOMAIN v \cup {ScopeRow(a.id, q)}
          /\ \A d \in Clients \ {c} : put'[d] = put[d]
    BY <1>1, <2>2, <2>3, WriteRows
  <2>5. PICK p \in {"place", "commit"}, b \in ArgRec :
          /\ Moves(c, p, b)
          /\ b.id = a.id /\ b.sel = a.sel /\ b.i = a.i + 1 /\ a.i \in 1 .. Len(a.sel)
          /\ (p = "commit") <=> (a.i = Len(a.sel))
    BY <1>1, <2>1, <2>3, NextPlaceMoves
  <2>6. a.sel \in Selections /\ Len(a.sel) \in Nat
    BY <2>1, TablesAssumption DEF CallOK
  <2>7. q \in Places
    BY <2>2, <2>5, <2>6, PlaceType
  <2>8. HeldPlaces(a.id, v) = {a.sel[j] : j \in 1 .. (a.i - 1)}
    BY <1>1, <2>1, <2>2 DEF PlacesInv, PlacesOK
  <2>9. HeldPlaces(a.id, w) = HeldPlaces(a.id, v) \cup {q}
    <3>1. \A x : ScopeRow(a.id, x) = ScopeRow(a.id, q) <=> x = q
      BY DEF ScopeRow
    <3>2. QED
      BY <2>4, <2>7, <3>1 DEF HeldPlaces
  <2>10. PlacesOK(p, b, w)
    <3>1. HeldPlaces(a.id, w) = {a.sel[j] : j \in 1 .. (a.i - 1)} \cup {a.sel[a.i]}
      BY <2>2, <2>8, <2>9
    <3>2. QED
      BY <2>5, <2>6, <3>1, OneMore
  <2>11. pc'[c] = p /\ arg'[c] = b /\ Alone(c)
    BY <1>1, <2>4, <2>5 DEF Moves, Alone, BaseInv, Shape
  <2>12. PlacesOK(pc[c], arg[c], put[c])'
    BY <2>2, <2>10, <2>11
  <2>13. QED
    BY <1>1, <2>11, <2>12, PlacesStep
<1>4. QED
  BY <1>2, <1>3

(* Every step keeps what the loop has stored. *)
LEMMA StepPlaces ==
    ASSUME "station" \notin Faults
    PROVE  BaseInv /\ HeldInv /\ PlacesInv /\ [Next]_vars => PlacesInv'
<1> SUFFICES ASSUME BaseInv, HeldInv, PlacesInv, [Next]_vars PROVE PlacesInv'
  OBVIOUS
<1>1. CASE UNCHANGED vars
  BY <1>1 DEF vars, PlacesInv
<1>2. ASSUME NEW c \in Clients, Commit(c) \/ Fail(c) PROVE PlacesInv'
  <2>1. PICK value : Return(c, value)
    BY <1>2 DEF Commit, Fail, Abort
  <2>2. EndTransaction(c)
    BY <1>2 DEF Commit, Fail, Abort
  <2>3. QED
    BY <2>1, <2>2, ReturnAlone
<1>3. ASSUME NEW c \in Editors, SaveStatement(c) PROVE PlacesInv'
  <2>1. c \in Clients
    BY DEF Clients
  <2>2. QED
    BY <1>2, <1>3, <2>1, EarlyPlaces, DeleteScopePlaces, IsExistStationPlaces,
       InsertPlacePlaces DEF SaveStatement
<1>4. ASSUME NEW d \in Devices, SetDownloadStatus(d) PROVE PlacesInv'
  <2>1. d \in Clients
    BY DEF Clients
  <2>2. QED
    BY <1>2, <1>4, <2>1, EarlyPlaces DEF SetDownloadStatus
<1>5. CASE Next
  BY <1>2, <1>3, <1>4, <1>5, BeginPlaces
     DEF Next, Statement, UpdatePlayListRecord, UpdateDefaultPlayListRecord
<1>6. QED
  BY <1>1, <1>5

(* Only a commit, of the call that returns, brings TRUE. *)
LEMMA OnlyCommitReturns ==
    ASSUME BaseInv, Next, NEW c \in Editors, pc[c] # "idle", ret' = 1, pc'[c] = "idle"
    PROVE  Commit(c)
<1>1. c \in Clients /\ DOMAIN pc = Clients
  BY DEF BaseInv, Shape, Clients
<1>2. ASSUME NEW d \in Clients, Commit(d) PROVE Commit(c)
  <2>1. pc' = [pc EXCEPT ![d] = "idle"]
    BY <1>2 DEF Commit, Return, Goto
  <2>2. d = c
    BY <1>1, <2>1
  <2>3. QED
    BY <1>2, <2>2
<1>3. ASSUME NEW d \in Editors, SaveStatement(d) PROVE Commit(d)
  <2>1. ret' # 1 \/ Commit(d)
    BY <1>3 DEF SaveStatement, GetPlayListID, CheckTitle, InsertList, ClearStatus,
                UpdateList, DeleteScope, IsExistStation, InsertPlace, Abort, Return
  <2>2. QED
    BY <2>1
<1>4. ASSUME NEW d \in Devices, SetDownloadStatus(d) PROVE Commit(d)
  <2>1. ret' # 1 \/ Commit(d)
    BY <1>4 DEF SetDownloadStatus, DeleteStatus, InsertStatus, Abort, Return
  <2>2. QED
    BY <2>1
<1>5. ~(\E d \in Editors : SaveNothing(d))
  BY DEF SaveNothing, Return
<1>6. ~(\E d \in Editors, name \in Names, line \in Lines, sel \in Selections :
          BeginSave(d, name, line, sel))
  BY DEF BeginSave
<1>7. ~(\E d \in Devices, r \in DOMAIN db : BeginReport(d, r[2]))
  BY DEF BeginReport
<1>8. ~(\E d \in Clients : Fail(d))
  BY DEF Fail, Abort, Return
<1>9. PICK d \in Clients : Statement(d)
  BY <1>5, <1>6, <1>7, <1>8 DEF Next
<1>10. Commit(d)
  BY <1>3, <1>4, <1>9 DEF Statement, UpdatePlayListRecord, UpdateDefaultPlayListRecord
<1>11. QED
  BY <1>2, <1>10

(* The commit of an editor's call leaves the list's record and exactly the *)
(* selected places.                                                        *)
LEMMA CommitWhole ==
    ASSUME BaseInv, HeldInv, PlacesInv, NEW c \in Editors, Commit(c)
    PROVE  /\ ListRow(arg[c].id) \in DOMAIN db'
           /\ db'[ListRow(arg[c].id)].stamp = arg[c].stamp
           /\ {p \in Places : ScopeRow(arg[c].id, p) \in DOMAIN db'}
                = {arg[c].sel[i] : i \in 1 .. Len(arg[c].sel)}
<1>1. c \in Clients /\ c \notin Devices /\ pc[c] = "commit"
  BY ClientsDisjoint DEF Clients, Commit
<1>2. PICK a, w, g : a = arg[c] /\ w = put[c] /\ g = gone[c]
  OBVIOUS
<1>3. HeldOK(c, "commit", a, w, g, db)
  BY <1>1, <1>2 DEF HeldInv
<1>4. /\ ListRow(a.id) \in DOMAIN w /\ w[ListRow(a.id)].stamp = a.stamp
      /\ \A r \in DOMAIN db : r[1] = "scope" /\ r[2] = a.id => r \in g
  BY <1>1, <1>3 DEF HeldOK, Writing
<1>5. /\ DOMAIN db' = (DOMAIN db \ g) \cup DOMAIN w
      /\ \A r \in DOMAIN db' : r \in DOMAIN w => db'[r] = w[r]
  BY <1>1, <1>2, CommitRows
<1>6. ListRow(a.id) \in DOMAIN db' /\ db'[ListRow(a.id)].stamp = a.stamp
  BY <1>4, <1>5
<1>7. \A p : ScopeRow(a.id, p) \in DOMAIN db' <=> ScopeRow(a.id, p) \in DOMAIN w
  <2>1. \A p : ScopeRow(a.id, p)[1] = "scope" /\ ScopeRow(a.id, p)[2] = a.id
    BY RowKinds
  <2>2. QED
    BY <1>4, <1>5, <2>1
<1>8. HeldPlaces(a.id, w) = {a.sel[j] : j \in 1 .. Len(a.sel)}
  BY <1>1, <1>2 DEF PlacesInv, PlacesOK
<1>9. {p \in Places : ScopeRow(a.id, p) \in DOMAIN db'} = HeldPlaces(a.id, w)
  BY <1>7 DEF HeldPlaces
<1>10. QED
  BY <1>2, <1>6, <1>8, <1>9

(* A save that returns TRUE has left the list's record with its data and   *)
(* exactly the selected places, when the selects inside it do not fail; a  *)
(* failed select of isExistStation leaves a place out.                     *)
THEOREM Saved ==
    ASSUME "id" \notin Faults, "station" \notin Faults PROVE Spec => SavedWhole
<1>1. Init => BaseInv /\ HeldInv /\ NoMixedScope /\ PlacesInv
  <2>1. Init => PlacesInv
    BY DEF Init, PlacesInv, PlacesOK, Clients
  <2>2. QED
    BY <2>1, InitBase, InitHeld
<1>2. BaseInv /\ HeldInv /\ NoMixedScope /\ PlacesInv /\ [Next]_vars
        => BaseInv' /\ HeldInv' /\ NoMixedScope' /\ PlacesInv'
  BY StepBase, StepHeld, StepPlaces
<1>3. BaseInv /\ HeldInv /\ PlacesInv /\ [Next]_vars
        => [\A c \in Editors :
              (pc[c] # "idle" /\ ret' = 1 /\ pc'[c] = "idle")
                => /\ ListRow(arg[c].id) \in DOMAIN db'
                   /\ db'[ListRow(arg[c].id)].stamp = arg[c].stamp
                   /\ {p \in Places : ScopeRow(arg[c].id, p) \in DOMAIN db'}
                        = {arg[c].sel[i] : i \in 1 .. Len(arg[c].sel)}]_vars
  BY OnlyCommitReturns, CommitWhole
<1>4. QED
  BY <1>1, <1>2, <1>3, PTL DEF Spec, SavedWhole

-----------------------------------------------------------------------------
(* The numbers of new lists                                                *)

(* Of the stocked Default_Lists of a line that has come to four digits, the *)
(* first with four is there: the code gives the numbers out one by one.     *)
StockWhole ==
    \A s \in Stock[2] : s.num >= Cube =>
        \E t \in Stock[2] : FlagOf[t.line] = FlagOf[s.line] /\ t.num = Cube

(* The largest number of a UINT is not used: Default_Lists are bounded by *)
(* their digits, the others only by the width of the integer.             *)
RoomLeft == listType # 2 => \A r \in DOMAIN db : r[1] = "list" => r[2][2] + 1 < Word

(* Lists of one line in a table. *)
OfLine(rows, line) == {q \in DOMAIN rows : q[1] = "list" /\ rows[q].line = line}

(* The identifier follows the largest of its line: none lies between. *)
NewId(rows, id, line) ==
    /\ line \in Lines /\ id[1] = FlagOf[line] /\ id[2] >= 1
    /\ \A q \in OfLine(rows, line) : q[2][2] < id[2]
    /\ id[2] = 1 \/ \E q \in OfLine(rows, line) : q[2][2] = id[2] - 1

(* The numbers of a call at p with the record a, which has written w: the *)
(* identifier it has read is new or has been taken by another call, and   *)
(* the lists it has written are new or keep their line.                   *)
NumOK(p, a, w, rows) ==
    /\ p \in {"idle", "maxid", "title", "insert"} => \A r \in DOMAIN w : r[1] # "list"
    /\ p \in {"title", "insert"} => ListRow(a.id) \in DOMAIN rows \/ NewId(rows, a.id, a.line)
    /\ \A r \in DOMAIN w : r[1] = "list" =>
          IF r \in DOMAIN rows THEN w[r].line = rows[r].line ELSE NewId(rows, r[2], w[r].line)

(* The numbers of a table: the flag is that of the line, and a line with   *)
(* four digits has its first list with four, which ShortenID leads back to. *)
NumsOK(rows) ==
    \A r \in DOMAIN rows : r[1] = "list" =>
        /\ r[2][1] = FlagOf[rows[r].line]
        /\ listType = 2 /\ r[2][2] >= Cube => ListRow(<<r[2][1], Cube>>) \in DOMAIN rows

(* The numbers of the tables, and of every call next to them. *)
NumInv == NumsOK(db) /\ \A c \in Clients : NumOK(pc[c], arg[c], put[c], db)

(* What a commit adds to a table. *)
Adds(rows, new) ==
    /\ RowsOK(rows) /\ RowsOK(new)
    /\ \A r \in DOMAIN rows : r[1] = "list" => r \in DOMAIN new /\ new[r].line = rows[r].line
    /\ \A r \in DOMAIN new : r[1] = "list" /\ r \notin DOMAIN rows => NewId(rows, r[2], new[r].line)

(* An identifier is a flag and a number. *)
LEMMA IdPair ==
    ASSUME NEW id \in Ids
    PROVE  id = <<id[1], id[2]>> /\ id[2] \in 0 .. Word - 1
BY SizesAssumption, CapacityNat DEF Ids, NoID

(* What another call commits takes a new identifier or leaves it new. *)
LEMMA NewStays ==
    ASSUME NEW rows, NEW new, Adds(rows, new), NEW id \in Ids, NEW line, NewId(rows, id, line)
    PROVE  ListRow(id) \in DOMAIN new \/ NewId(new, id, line)
<1>1. SUFFICES ASSUME ListRow(id) \notin DOMAIN new PROVE NewId(new, id, line)
  OBVIOUS
<1>2. id[2] \in Nat /\ id = <<id[1], id[2]>>
  BY IdPair
<1>3. \A q \in OfLine(rows, line) : q \in OfLine(new, line)
  BY DEF Adds, OfLine
<1>4. ASSUME NEW q \in OfLine(new, line) PROVE q[2][2] < id[2]
  <2>1. q[1] = "list" /\ q \in DOMAIN new /\ new[q].line = line
    BY DEF OfLine
  <2>2. CASE q \in DOMAIN rows
    <3>1. q \in OfLine(rows, line)
      BY <2>1, <2>2 DEF Adds, OfLine
    <3>2. QED
      BY <3>1 DEF NewId
  <2>3. CASE q \notin DOMAIN rows
    <3>1. NewId(rows, q[2], line)
      BY <2>1, <2>3 DEF Adds
    <3>2. q[2] \in Ids /\ q = ListRow(q[2])
      BY <2>1, ListRowType DEF Adds
    <3>3. q[2][2] \in Nat /\ q[2] = <<q[2][1], q[2][2]>>
      BY <3>2, IdPair
    <3>4. q[2][2] <= id[2]
      <4>1. CASE q[2][2] = 1
        BY <1>2, <4>1 DEF NewId
      <4>2. CASE q[2][2] # 1
        <5>1. PICK u \in OfLine(rows, line) : u[2][2] = q[2][2] - 1
          BY <3>1, <4>2 DEF NewId
        <5>2. u[2][2] < id[2]
          BY <5>1 DEF NewId
        <5>3. QED
          BY <1>2, <3>3, <5>1, <5>2
      <4>3. QED
        BY <4>1, <4>2
    <3>5. q[2][2] # id[2]
      <4>1. SUFFICES ASSUME q[2][2] = id[2] PROVE FALSE
        OBVIOUS
      <4>2. q[2][1] = FlagOf[line] /\ id[1] = FlagOf[line]
        BY <3>1 DEF NewId
      <4>3. q[2] = id
        BY <1>2, <3>3, <4>1, <4>2
      <4>4. QED
        BY <1>1, <2>1, <3>2, <4>3
    <3>6. QED
      BY <1>2, <3>3, <3>4, <3>5
  <2>4. QED
    BY <2>2, <2>3
<1>5. id[2] = 1 \/ \E q \in OfLine(new, line) : q[2][2] = id[2] - 1
  BY <1>3 DEF NewId
<1>6. QED
  BY <1>4, <1>5 DEF NewId

(* A table keeps its numbers right when lists with new identifiers come. *)
LEMMA NumsStay ==
    ASSUME NEW rows, NEW new, Adds(rows, new), NumsOK(rows)
    PROVE  NumsOK(new)
<1>1. SUFFICES ASSUME NEW r \in DOMAIN new, r[1] = "list"
               PROVE  /\ r[2][1] = FlagOf[new[r].line]
                      /\ listType = 2 /\ r[2][2] >= Cube => ListRow(<<r[2][1], Cube>>) \in DOMAIN new
  BY DEF NumsOK
<1>2. \A q : ListRow(q) \in DOMAIN rows => ListRow(q) \in DOMAIN new
  BY RowKinds DEF Adds
<1>3. CASE r \in DOMAIN rows
  <2>1. new[r].line = rows[r].line
    BY <1>1, <1>3 DEF Adds
  <2>2. /\ r[2][1] = FlagOf[rows[r].line]
        /\ listType = 2 /\ r[2][2] >= Cube => ListRow(<<r[2][1], Cube>>) \in DOMAIN rows
    BY <1>1, <1>3 DEF NumsOK
  <2>3. QED
    BY <1>2, <2>1, <2>2
<1>4. CASE r \notin DOMAIN rows
  <2>1. PICK line : line = new[r].line /\ NewId(rows, r[2], line)
    BY <1>1, <1>4 DEF Adds
  <2>2. r[2][1] = FlagOf[line]
    BY <2>1 DEF NewId
  <2>3. r[2] \in Ids /\ r = ListRow(r[2])
    BY <1>1, ListRowType DEF Adds
  <2>4. r[2][2] \in Nat /\ r[2] = <<r[2][1], r[2][2]>>
    BY <2>3, IdPair
  <2>5. ASSUME listType = 2, r[2][2] >= Cube PROVE ListRow(<<r[2][1], Cube>>) \in DOMAIN new
    <3>1. CASE r[2][2] = Cube
      BY <1>1, <2>3, <2>4, <3>1
    <3>2. CASE r[2][2] # Cube
      <4>1. r[2][2] - 1 >= Cube /\ r[2][2] # 1
        BY <2>4, <2>5, <3>2, CubeFacts
      <4>2. PICK q \in OfLine(rows, line) : q[2][2] = r[2][2] - 1
        BY <2>1, <4>1 DEF NewId
      <4>3. q \in DOMAIN rows /\ q[1] = "list" /\ rows[q].line = line
        BY <4>2 DEF OfLine
      <4>4. q[2][1] = FlagOf[line] /\ ListRow(<<q[2][1], Cube>>) \in DOMAIN rows
        BY <2>5, <4>1, <4>2, <4>3 DEF NumsOK
      <4>5. QED
        BY <1>2, <2>2, <4>4
    <3>3. QED
      BY <3>1, <3>2
  <2>6. QED
    BY <2>1, <2>2, <2>5
<1>5. QED
  BY <1>3, <1>4

(* A step of one call that leaves the tables alone. *)
LEMMA NumStep ==
    ASSUME BaseInv, NumInv, NEW c \in Clients, NEW p, NEW a, NEW w, Moves(c, p, a),
           w = put'[c], UNCHANGED <<db, listType>>, \A d \in Clients \ {c} : put'[d] = put[d],
           NumOK(p, a, w, db)
    PROVE  NumInv'
<1>1. /\ pc'[c] = p /\ arg'[c] = a
      /\ \A d \in Clients \ {c} : pc'[d] = pc[d] /\ arg'[d] = arg[d]
  BY DEF Moves, BaseInv, Shape
<1>2. PICK rows : rows = db /\ rows = db'
  OBVIOUS
<1>3. NumOK(pc'[c], arg'[c], put'[c], rows)
  BY <1>1, <1>2
<1>4. \A d \in Clients \ {c} : NumOK(pc[d], arg[d], put[d], rows)
  BY <1>2 DEF NumInv
<1>5. \A d \in Clients : NumOK(pc'[d], arg'[d], put'[d], rows)
  BY <1>1, <1>3, <1>4
<1>6. NumsOK(db)'
  BY DEF NumInv, NumsOK
<1>7. QED
  BY <1>2, <1>5, <1>6 DEF NumInv

(* Statements at which the numbers do not matter any more. *)
Late == {"clear", "update", "zone", "place", "store", "commit", "unreport", "report"}

(* A statement that writes no list. *)
LEMMA LateNum ==
    ASSUME BaseInv, NumInv, NEW c \in Clients, NEW p \in Late, NEW a, Moves(c, p, a),
           UNCHANGED <<db, listType>>, \A d \in Clients \ {c} : put'[d] = put[d],
           \A r \in DOMAIN put'[c] : r[1] = "list" => r \in DOMAIN put[c] /\ put'[c][r] = put[c][r]
    PROVE  NumInv'
<1>1. PICK w, v : w = put'[c] /\ v = put[c]
  OBVIOUS
<1>2. \A r \in DOMAIN v : r[1] = "list" =>
          IF r \in DOMAIN db THEN v[r].line = db[r].line ELSE NewId(db, r[2], v[r].line)
  BY <1>1 DEF NumInv, NumOK
<1>3. \A r \in DOMAIN w : r[1] = "list" => r \in DOMAIN v /\ w[r] = v[r]
  BY <1>1
<1>4. \A r \in DOMAIN w : r[1] = "list" =>
          IF r \in DOMAIN db THEN w[r].line = db[r].line ELSE NewId(db, r[2], w[r].line)
  BY <1>2, <1>3
<1>5. NumOK(p, a, w, db)
  BY <1>4 DEF NumOK, Late
<1>6. QED
  BY <1>1, <1>5, NumStep

(* A call that begins, and one without a selection. *)
LEMMA EarlyNum ==
    ASSUME BaseInv, NumInv, NEW c \in Clients, pc[c] = "idle", NEW p \in {"idle", "maxid"}, NEW a,
           Moves(c, p, a), UNCHANGED <<listType, db, put>>
    PROVE  NumInv'
<1>1. PICK w : w = put[c] /\ w = put'[c]
  OBVIOUS
<1>2. \A r \in DOMAIN w : r[1] # "list"
  BY <1>1 DEF NumInv, NumOK
<1>3. NumOK(p, a, w, db)
  BY <1>2 DEF NumOK
<1>4. QED
  BY <1>1, <1>3, NumStep

(* The first statement of every call. *)
LEMMA BeginNum ==
    ASSUME BaseInv, NumInv
    PROVE  /\ \A c \in Editors : SaveNothing(c) => NumInv'
           /\ \A c \in Editors, name \in Names, line \in Lines, sel \in Selections :
                BeginSave(c, name, line, sel) => NumInv'
           /\ \A d \in Devices : \A id : BeginReport(d, id) => NumInv'
<1>1. ASSUME NEW c \in Editors, SaveNothing(c) PROVE NumInv'
  <2>1. c \in Clients /\ Return(c, -1) /\ UNCHANGED <<listType, db, put>> /\ pc[c] = "idle"
    BY <1>1 DEF Clients, SaveNothing
  <2>2. PICK a : Moves(c, "idle", a)
    BY <2>1, ReturnMoves
  <2>3. QED
    BY <2>1, <2>2, EarlyNum
<1>2. ASSUME NEW c \in Editors, NEW name \in Names, NEW line \in Lines,
             NEW sel \in Selections, BeginSave(c, name, line, sel)
      PROVE  NumInv'
  <2>1. c \in Clients /\ UNCHANGED <<listType, db, put>> /\ pc[c] = "idle"
    BY <1>2 DEF Clients, BeginSave
  <2>2. PICK p \in {"maxid", "clear", "update"}, a \in ArgRec : Moves(c, p, a)
    BY <1>2, BeginSaveMoves
  <2>3. CASE p = "maxid"
    BY <2>1, <2>2, <2>3, EarlyNum
  <2>4. CASE p # "maxid"
    <3>1. p \in Late
      BY <2>2, <2>4 DEF Late
    <3>2. QED
      BY <2>1, <2>2, <3>1, LateNum
  <2>5. QED
    BY <2>3, <2>4
<1>3. ASSUME NEW d \in Devices, NEW id, BeginReport(d, id) PROVE NumInv'
  <2>1. d \in Clients /\ UNCHANGED <<listType, db, put>>
    BY <1>3 DEF Clients, BeginReport
  <2>2. PICK a : Moves(d, "unreport", a)
    BY <1>3 DEF BeginReport, Moves, Goto
  <2>3. "unreport" \in Late
    BY DEF Late
  <2>4. QED
    BY <2>1, <2>2, <2>3, LateNum
<1>4. QED
  BY <1>1, <1>2, <1>3

(* A failed call has written nothing. *)
LEMMA AbortNum ==
    ASSUME BaseInv, NumInv, NEW c \in Clients, Abort(c), UNCHANGED listType
    PROVE  NumInv'
<1>1. Return(c, 0) /\ EndTransaction(c) /\ db' = db
  BY DEF Abort
<1>2. PICK a \in ArgRec : Moves(c, "idle", a)
  BY <1>1, ReturnMoves
<1>3. PICK w : w = put'[c]
  OBVIOUS
<1>4. DOMAIN w = {} /\ \A d \in Clients \ {c} : put'[d] = put[d]
  BY <1>1, <1>3, EndRows
<1>5. NumOK("idle", a, w, db)
  BY <1>4 DEF NumOK
<1>6. QED
  BY <1>1, <1>2, <1>3, <1>4, <1>5, NumStep

(* The select for the largest number, before the transaction has a list. *)
LEMMA MaxNumFacts ==
    ASSUME ServerOK, NEW c \in Clients, \A r \in DOMAIN put[c] : r[1] # "list",
           NEW line, NEW m, m = MaxNum(c, line)
    PROVE  \/ m = -1 /\ OfLine(db, line) = {}
           \/ /\ m \in 0 .. Word - 1 /\ \E q \in OfLine(db, line) : q[2][2] = m
              /\ \A q \in OfLine(db, line) : q[2][2] \in 0 .. Word - 1 /\ q[2][2] <= m
<1>1. \A r \in gone[c] : r[1] # "list"
  BY DEF ServerOK, TransactionOK
<1>2. \A r : r \in ListsSeen(c) <=> r \in DOMAIN db /\ r[1] = "list"
  BY <1>1 DEF ListsSeen, Seen
<1>3. \A r \in ListsSeen(c) : View(c, r) = db[r]
  BY <1>2 DEF View
<1>4. {r \in ListsSeen(c) : View(c, r).line = line} = OfLine(db, line)
  BY <1>2, <1>3 DEF OfLine
<1>5. PICK L : L = OfLine(db, line)
  OBVIOUS
<1>6. m = IF L = {} THEN -1 ELSE Max({r[2][2] : r \in L})
  BY <1>4, <1>5 DEF MaxNum
<1>7. CASE L = {}
  BY <1>5, <1>6, <1>7
<1>8. CASE L # {}
  <2>1. \A r \in L : r[2][2] \in 0 .. Word - 1
    BY <1>5, ListRowType DEF OfLine, ServerOK
  <2>2. PICK S : S = {r[2][2] : r \in L}
    OBVIOUS
  <2>3. S \subseteq 0 .. Word - 1 /\ S # {} /\ Word - 1 \in Nat
    BY <1>8, <2>1, <2>2, SizesAssumption, CapacityNat
  <2>4. Max(S) \in S /\ \A x \in S : Max(S) >= x
    BY <2>3, MaxOfBounded
  <2>5. m = Max(S)
    BY <1>6, <1>8, <2>2
  <2>6. QED
    BY <1>5, <2>1, <2>2, <2>3, <2>4, <2>5
<1>9. QED
  BY <1>7, <1>8

(* The number after the largest one. *)
LEMMA NextIsNew ==
    ASSUME ServerOK, RoomLeft, NEW c \in Clients, \A r \in DOMAIN put[c] : r[1] # "list",
           NEW line \in Lines, NEW id,
           id = <<FlagOf[line], IF listType = 2
                                  THEN IncreaseDefaultCode(MaxNum(c, line))
                                  ELSE IncreaseCode(MaxNum(c, line))>>
    PROVE  NewId(db, id, line)
<1>1. PICK m : m = MaxNum(c, line)
  OBVIOUS
<1>2. CASE m = -1 /\ OfLine(db, line) = {}
  <2>1. id = <<FlagOf[line], 1>>
    BY <1>1, <1>2 DEF IncreaseCode, IncreaseDefaultCode
  <2>2. QED
    BY <1>2, <2>1 DEF NewId
<1>3. CASE /\ m \in 0 .. Word - 1 /\ \E q \in OfLine(db, line) : q[2][2] = m
           /\ \A q \in OfLine(db, line) : q[2][2] \in 0 .. Word - 1 /\ q[2][2] <= m
  <2>1. PICK q \in OfLine(db, line) : q[2][2] = m
    BY <1>3
  <2>2. listType # 2 => m + 1 < Word
    BY <2>1 DEF RoomLeft, OfLine
  <2>3. listType # 2 => (m + 1) % Word = m + 1
    BY <1>3, <2>2, SizesAssumption
  <2>4. id = <<FlagOf[line], m + 1>>
    BY <1>1, <1>3, <2>3 DEF IncreaseCode, IncreaseDefaultCode
  <2>5. id[1] = FlagOf[line] /\ id[2] = m + 1 /\ m \in Nat
    BY <1>3, <2>4
  <2>6. \A r \in OfLine(db, line) : r[2][2] < id[2]
    BY <1>3, <2>5
  <2>7. id[2] >= 1 /\ id[2] - 1 = m
    BY <2>5
  <2>8. QED
    BY <2>1, <2>5, <2>6, <2>7 DEF NewId
<1>4. QED
  BY <1>1, <1>2, <1>3, MaxNumFacts

(* GetPlayListID takes a new identifier, or fails and takes none. *)
LEMMA GetPlayListIDNum ==
    ASSUME BaseInv, NumInv, RoomLeft, NEW c \in Editors, GetPlayListID(c)
    PROVE  NumInv'
<1>1. c \in Clients /\ UNCHANGED <<listType, db, put>> /\ pc[c] = "maxid"
  BY DEF Clients, GetPlayListID
<1>2. PICK a \in ArgRec : a = arg[c] /\ CallOK(c, "maxid", a, db)
  BY <1>1, CallFacts
<1>3. a.line \in Lines
  BY <1>2 DEF CallOK
<1>4. PICK id : id = <<FlagOf[a.line], IF listType = 2
                                  THEN IncreaseDefaultCode(MaxNum(c, a.line))
                                  ELSE IncreaseCode(MaxNum(c, a.line))>>
  OBVIOUS
<1>5. PICK w : w = put[c] /\ w = put'[c]
  BY <1>1
<1>6. \A r \in DOMAIN w : r[1] # "list"
  BY <1>1, <1>5 DEF NumInv, NumOK
<1>7. NewId(db, id, a.line)
  BY <1>1, <1>3, <1>4, <1>5, <1>6, NextIsNew DEF BaseInv
<1>8. CASE arg' = [arg EXCEPT ![c].id = id, ![c].idok = TRUE] /\ Goto(c, "title")
  <2>1. PICK b : b = [a EXCEPT !.id = id, !.idok = TRUE]
    OBVIOUS
  <2>2. b.id = id /\ b.line = a.line
    BY <1>2, <2>1 DEF ArgRec
  <2>3. Moves(c, "title", b)
    BY <1>1, <1>2, <1>8, <2>1 DEF Moves, Goto, BaseInv, Shape
  <2>4. NumOK("title", b, w, db)
    BY <1>6, <1>7, <2>2 DEF NumOK
  <2>5. QED
    BY <1>1, <1>5, <2>3, <2>4, NumStep
<1>9. CASE Goto(c, "zone") /\ UNCHANGED arg
  <2>1. Moves(c, "zone", a) /\ "zone" \in Late
    BY <1>1, <1>2, <1>9, StayMoves DEF Late
  <2>2. QED
    BY <1>1, <2>1, LateNum
<1>10. QED
  BY <1>2, <1>4, <1>8, <1>9 DEF GetPlayListID

(* The number of five digits leads to a list that is there. *)
LEMMA CheckTitleNum ==
    ASSUME BaseInv, NumInv, NEW c \in Editors, CheckTitle(c)
    PROVE  NumInv'
<1>1. c \in Clients /\ UNCHANGED <<listType, db, put>> /\ pc[c] = "title"
  BY DEF Clients, CheckTitle
<1>2. PICK a \in ArgRec : a = arg[c] /\ CallOK(c, "title", a, db)
  BY <1>1, CallFacts
<1>3. a.id \in Ids /\ (listType = 2 => a.id[2] <= Capacity)
  BY <1>2 DEF CallOK, ArgRec
<1>4. PICK id : id = ShortenID(a.id)
  OBVIOUS
<1>5. id \in Ids
  BY <1>3, <1>4, ShortenIDType
<1>6. PICK b \in ArgRec : Moves(c, "insert", b) /\ b.id = id /\ b.line = a.line
  BY <1>2, <1>4, <1>5, CheckTitleMoves
<1>7. PICK w : w = put[c] /\ w = put'[c]
  BY <1>1
<1>8. \A r \in DOMAIN w : r[1] # "list"
  BY <1>1, <1>7 DEF NumInv, NumOK
<1>9. ListRow(a.id) \in DOMAIN db \/ NewId(db, a.id, a.line)
  BY <1>1, <1>2 DEF NumInv, NumOK
<1>10. ListRow(id) \in DOMAIN db \/ NewId(db, id, b.line)
  <2>1. CASE ~(listType = 2 /\ a.id[2] >= Capacity)
    <3>1. id = a.id
      BY <1>4, <2>1 DEF ShortenID
    <3>2. QED
      BY <1>6, <1>9, <3>1
  <2>2. CASE listType = 2 /\ a.id[2] >= Capacity
    <3>1. a.id[2] = Capacity /\ Capacity \in Nat /\ Capacity # 1 /\ Capacity - 1 >= Cube
      BY <1>3, <2>2, IdPair, CapacityNat, CubeFacts
    <3>2. id = <<a.id[1], Cube>>
      BY <1>4, <2>2, <3>1, ShortenFirst
    <3>3. ListRow(a.id) \notin DOMAIN db
      <4>1. SmallNums(db)
        BY DEF BaseInv, ServerOK
      <4>2. PICK r : r = ListRow(a.id)
        OBVIOUS
      <4>3. r[1] = "list" /\ r[2] = a.id
        BY <4>2 DEF ListRow
      <4>4. ~(r[2][2] < Capacity)
        BY <3>1, <4>3
      <4>5. QED
        BY <2>2, <4>1, <4>2, <4>3, <4>4 DEF SmallNums
    <3>4. NewId(db, a.id, a.line)
      BY <1>9, <3>3
    <3>5. PICK q \in OfLine(db, a.line) : q[2][2] = Capacity - 1
      BY <3>1, <3>4 DEF NewId
    <3>6. q \in DOMAIN db /\ q[1] = "list" /\ db[q].line = a.line
      BY DEF OfLine
    <3>7. q[2][1] = FlagOf[a.line] /\ ListRow(<<q[2][1], Cube>>) \in DOMAIN db
      BY <2>2, <3>1, <3>5, <3>6 DEF NumInv, NumsOK
    <3>8. a.id[1] = FlagOf[a.line]
      BY <3>4 DEF NewId
    <3>9. QED
      BY <3>2, <3>7, <3>8
  <2>3. QED
    BY <2>1, <2>2
<1>11. NumOK("insert", b, w, db)
  BY <1>6, <1>8, <1>10 DEF NumOK
<1>12. QED
  BY <1>1, <1>6, <1>7, <1>11, NumStep

(* A list that is inserted has a new identifier. *)
LEMMA InsertListNum ==
    ASSUME BaseInv, NumInv, NEW c \in Editors, InsertList(c)
    PROVE  NumInv'
<1>1. c \in Clients /\ UNCHANGED listType /\ pc[c] = "insert"
  BY DEF Clients, InsertList
<1>2. CASE Abort(c)
  BY <1>1, <1>2, AbortNum
<1>3. CASE ~Abort(c)
  <2>1. PICK a : a = arg[c]
    OBVIOUS
  <2>2. PICK v, row : row = ListRow(a.id) /\ v = [name |-> a.name, title |-> a.title,
                      line |-> a.line, stamp |-> a.stamp]
    OBVIOUS
  <2>3. /\ Write(c, row, v) /\ row \notin Seen(c)
        /\ Goto(c, "zone") /\ UNCHANGED <<db, arg>>
    BY <1>3, <2>1, <2>2 DEF InsertList
  <2>4. v.line = a.line /\ row[1] = "list" /\ row[2] = a.id
    BY <2>2, RowKinds
  <2>5. row \notin DOMAIN db
    BY <1>1, <2>3, <2>4 DEF Seen, BaseInv, ServerOK, TransactionOK
  <2>6. NewId(db, a.id, a.line) /\ \A r \in DOMAIN put[c] : r[1] # "list"
    BY <1>1, <2>1, <2>2, <2>5 DEF NumInv, NumOK
  <2>7. PICK w : w = put'[c]
    OBVIOUS
  <2>8. /\ w = [r \in DOMAIN put[c] \cup {row} |-> IF r = row THEN v ELSE put[c][r]]
        /\ \A d \in Clients \ {c} : put'[d] = put[d]
    BY <1>1, <2>3, <2>7, WriteRows
  <2>9. \A r \in DOMAIN w : r[1] = "list" => r = row /\ w[r] = v
    BY <2>6, <2>8
  <2>10. NumOK("zone", a, w, db)
    BY <2>4, <2>5, <2>6, <2>9 DEF NumOK
  <2>11. Moves(c, "zone", a)
    BY <1>1, <2>1, <2>3, StayMoves
  <2>12. QED
    BY <1>1, <2>3, <2>7, <2>8, <2>10, <2>11, NumStep
<1>4. QED
  BY <1>2, <1>3

(* An update keeps the line of its list. *)
LEMMA UpdateListNum ==
    ASSUME BaseInv, NumInv, NEW c \in Editors, UpdateList(c)
    PROVE  NumInv'
<1>1. c \in Clients /\ UNCHANGED <<listType, db, arg>> /\ pc[c] = "update" /\ Goto(c, "zone")
  BY DEF Clients, UpdateList
<1>2. PICK a \in ArgRec : a = arg[c] /\ CallOK(c, "update", a, db)
  BY <1>1, CallFacts
<1>3. PICK row : row = ListRow(a.id) /\ row[1] = "list" /\ row \in DOMAIN db
  BY <1>2, RowKinds DEF CallOK
<1>4. PICK u, v : u = View(c, row) /\ v = [u EXCEPT !.stamp = a.stamp]
  OBVIOUS
<1>5. Write(c, row, v)
  BY <1>2, <1>3, <1>4 DEF UpdateList
<1>6. row \in Seen(c)
  BY <1>1, <1>3 DEF Seen, BaseInv, ServerOK, TransactionOK
<1>7. v.line = u.line
  <2>1. u \in ListValues
    BY <1>1, <1>3, <1>4, <1>6, ViewType DEF BaseInv
  <2>2. QED
    BY <1>4, <2>1 DEF ListValues
<1>8. \A r \in DOMAIN put[c] : r[1] = "list" =>
          IF r \in DOMAIN db THEN put[c][r].line = db[r].line ELSE NewId(db, r[2], put[c][r].line)
  BY <1>1 DEF NumInv, NumOK
<1>9. u.line = db[row].line
  BY <1>3, <1>4, <1>8 DEF View
<1>10. PICK w : w = put'[c]
  OBVIOUS
<1>11. /\ w = [r \in DOMAIN put[c] \cup {row} |-> IF r = row THEN v ELSE put[c][r]]
       /\ \A d \in Clients \ {c} : put'[d] = put[d]
  BY <1>1, <1>5, <1>10, WriteRows
<1>12. ASSUME NEW r \in DOMAIN w, r[1] = "list"
       PROVE  IF r \in DOMAIN db THEN w[r].line = db[r].line ELSE NewId(db, r[2], w[r].line)
  <2>1. CASE r = row
    BY <1>3, <1>7, <1>9, <1>11, <2>1
  <2>2. CASE r # row
    <3>1. r \in DOMAIN put[c] /\ w[r] = put[c][r]
      BY <1>11, <2>2
    <3>2. QED
      BY <1>8, <1>12, <3>1
  <2>3. QED
    BY <2>1, <2>2
<1>13. NumOK("zone", a, w, db)
  BY <1>12 DEF NumOK
<1>14. Moves(c, "zone", a)
  BY <1>1, <1>2, StayMoves
<1>15. QED
  BY <1>1, <1>10, <1>11, <1>13, <1>14, NumStep

(* A deletion. *)
LEMMA DeleteNum ==
    ASSUME BaseInv, NumInv, NEW c \in Clients, NEW rows, Delete(c, rows), NEW p \in Late,
           Goto(c, p), UNCHANGED <<listType, db, arg>>
    PROVE  NumInv'
<1>1. /\ put'[c] = [r \in DOMAIN put[c] \ (rows \cap Seen(c)) |-> put[c][r]]
      /\ \A d \in Clients \ {c} : put'[d] = put[d]
  BY DeleteRows
<1>2. PICK a : a = arg[c]
  OBVIOUS
<1>3. Moves(c, p, a)
  BY <1>2, StayMoves
<1>4. \A r \in DOMAIN put'[c] : r \in DOMAIN put[c] /\ put'[c][r] = put[c][r]
  BY <1>1
<1>5. QED
  BY <1>1, <1>3, <1>4, LateNum

(* An insertion into another table. *)
LEMMA PutNum ==
    ASSUME BaseInv, NumInv, NEW c \in Clients, NEW row, NEW v, Write(c, row, v), row[1] # "list",
           NEW p \in Late, NEW a, Moves(c, p, a), UNCHANGED <<listType, db>>
    PROVE  NumInv'
<1>1. /\ put'[c] = [r \in DOMAIN put[c] \cup {row} |-> IF r = row THEN v ELSE put[c][r]]
      /\ \A d \in Clients \ {c} : put'[d] = put[d]
  BY WriteRows
<1>2. \A r \in DOMAIN put'[c] : r[1] = "list" => r \in DOMAIN put[c] /\ put'[c][r] = put[c][r]
  BY <1>1
<1>3. QED
  BY <1>1, <1>2, LateNum

(* The statements of a save that follow the list's record. *)
LEMMA PlacesNum ==
    ASSUME BaseInv, NumInv, NEW c \in Editors,
           ClearStatus(c) \/ DeleteScope(c) \/ IsExistStation(c) \/ InsertPlace(c)
    PROVE  NumInv'
<1>0. c \in Clients
  BY DEF Clients
<1>1. CASE ClearStatus(c)
  <2>1. "update" \in Late
    BY DEF Late
  <2>2. QED
    BY <1>0, <1>1, <2>1, DeleteNum DEF ClearStatus
<1>2. CASE DeleteScope(c)
  <2>1. PICK p \in Late : Goto(c, p)
    BY <1>2 DEF DeleteScope, Late
  <2>2. QED
    BY <1>0, <1>2, <2>1, DeleteNum DEF DeleteScope
<1>3. ASSUME NextPlace(c), pc[c] \in {"place", "store"}, UNCHANGED listType
      PROVE  \E p \in Late : \E b : Moves(c, p, b)
  <2>1. PICK a \in ArgRec : a = arg[c] /\ CallOK(c, pc[c], a, db)
    BY <1>0, CallFacts
  <2>2. PICK p \in {"place", "commit"}, b \in ArgRec : Moves(c, p, b)
    BY <1>3, <2>1, NextPlaceMoves
  <2>3. QED
    BY <2>2 DEF Late
<1>4. CASE IsExistStation(c)
  <2>1. UNCHANGED <<listType, db, put>> /\ pc[c] = "place"
    BY <1>4 DEF IsExistStation
  <2>2. CASE Goto(c, "store") /\ UNCHANGED arg
    <3>1. PICK a : a = arg[c]
      OBVIOUS
    <3>2. Moves(c, "store", a) /\ "store" \in Late
      BY <1>0, <2>2, <3>1, StayMoves DEF Late
    <3>3. QED
      BY <1>0, <2>1, <3>2, LateNum
  <2>3. CASE NextPlace(c)
    <3>1. PICK p, b : p \in Late /\ Moves(c, p, b)
      BY <1>3, <2>1, <2>3
    <3>2. QED
      BY <1>0, <2>1, <3>1, LateNum
  <2>4. QED
    BY <1>4, <2>2, <2>3 DEF IsExistStation
<1>5. CASE InsertPlace(c) /\ Abort(c)
  BY <1>0, <1>5, AbortNum DEF InsertPlace
<1>6. CASE InsertPlace(c) /\ ~Abort(c)
  <2>1. PICK row, v : row = ScopeRow(arg[c].id, arg[c].sel[arg[c].i]) /\ v = arg[c].stamp
    OBVIOUS
  <2>2. Write(c, row, v) /\ NextPlace(c) /\ UNCHANGED <<listType, db>> /\ pc[c] = "store"
    BY <1>6, <2>1 DEF InsertPlace
  <2>3. PICK p, b : p \in Late /\ Moves(c, p, b)
    BY <1>3, <2>2
  <2>4. row[1] # "list"
    BY <2>1, RowKinds
  <2>5. QED
    BY <1>0, <2>2, <2>3, <2>4, PutNum
<1>7. QED
  BY <1>1, <1>2, <1>4, <1>5, <1>6

(* The statements of a device's report. *)
LEMMA DeviceNum ==
    ASSUME BaseInv, NumInv, NEW d \in Devices, DeleteStatus(d) \/ InsertStatus(d)
    PROVE  NumInv'
<1>1. d \in Clients /\ "report" \in Late /\ "commit" \in Late
  BY DEF Clients, Late
<1>2. CASE DeleteStatus(d)
  BY <1>1, <1>2, DeleteNum DEF DeleteStatus
<1>3. CASE InsertStatus(d) /\ Abort(d)
  BY <1>1, <1>3, AbortNum DEF InsertStatus
<1>4. CASE InsertStatus(d) /\ ~Abort(d)
  <2>1. PICK row, v, a : row = StatusRow(arg[d].id, d) /\ v = arg[d].stamp /\ a = arg[d]
    OBVIOUS
  <2>2. Write(d, row, v) /\ Goto(d, "commit") /\ UNCHANGED <<listType, db, arg>>
    BY <1>4, <2>1 DEF InsertStatus
  <2>3. Moves(d, "commit", a)
    BY <1>1, <2>1, <2>2, StayMoves
  <2>4. row[1] # "list"
    BY <2>1, RowKinds
  <2>5. QED
    BY <1>1, <2>2, <2>3, <2>4, PutNum
<1>5. QED
  BY <1>2, <1>3, <1>4

(* A commit adds lists with new identifiers. *)
LEMMA CommitAdds ==
    ASSUME BaseInv, NumInv, BaseInv', NEW c \in Clients, Commit(c)
    PROVE  Adds(db, db')
<1>1. RowsOK(db) /\ RowsOK(db')
  BY DEF BaseInv, ServerOK, RowsOK
<1>2. /\ DOMAIN db' = (DOMAIN db \ gone[c]) \cup DOMAIN put[c]
      /\ \A r \in DOMAIN db' : db'[r] = IF r \in DOMAIN put[c] THEN put[c][r] ELSE db[r]
  BY CommitRows
<1>3. \A r \in gone[c] : r[1] # "list"
  BY DEF BaseInv, ServerOK, TransactionOK
<1>4. \A r \in DOMAIN put[c] : r[1] = "list" =>
          IF r \in DOMAIN db THEN put[c][r].line = db[r].line ELSE NewId(db, r[2], put[c][r].line)
  BY DEF NumInv, NumOK
<1>5. ASSUME NEW r \in DOMAIN db, r[1] = "list" PROVE r \in DOMAIN db' /\ db'[r].line = db[r].line
  BY <1>2, <1>3, <1>4, <1>5
<1>6. ASSUME NEW r \in DOMAIN db', r[1] = "list", r \notin DOMAIN db
      PROVE  NewId(db, r[2], db'[r].line)
  BY <1>2, <1>4, <1>6
<1>7. QED
  BY <1>1, <1>5, <1>6 DEF Adds

(* What the commit of c adds leaves the numbers of the others right. *)
LEMMA CommitNum ==
    ASSUME BaseInv, NumInv, BaseInv', NEW c \in Clients, Commit(c)
    PROVE  NumInv'
<1>1. PICK rows, new : rows = db /\ new = db'
  OBVIOUS
<1>2. Adds(rows, new) /\ RowsOK(rows)
  BY <1>1, CommitAdds DEF BaseInv, ServerOK
<1>3. EndTransaction(c) /\ UNCHANGED listType /\ \E value : Return(c, value)
  BY DEF Commit
<1>4. PICK a \in ArgRec : Moves(c, "idle", a)
  BY <1>3, ReturnMoves
<1>5. /\ pc'[c] = "idle" /\ arg'[c] = a
      /\ \A d \in Clients \ {c} : pc'[d] = pc[d] /\ arg'[d] = arg[d]
  BY <1>4 DEF Moves, BaseInv, Shape
<1>6. /\ DOMAIN put'[c] = {}
      /\ \A d \in Clients \ {c} : put'[d] = put[d]
  BY <1>3, EndRows
<1>7. NumsOK(db)'
  <2>1. NumsOK(new)
    BY <1>1, <1>2, NumsStay DEF NumInv
  <2>2. QED
    BY <1>1, <1>3, <2>1 DEF NumsOK
<1>8. NumOK(pc'[c], arg'[c], put'[c], new)
  BY <1>5, <1>6 DEF NumOK
<1>9. ASSUME NEW d \in Clients \ {c} PROVE NumOK(pc'[d], arg'[d], put'[d], new)
  <2>1. PICK p, b, w : p = pc[d] /\ b = arg[d] /\ w = put[d]
    OBVIOUS
  <2>2. NumOK(p, b, w, rows)
    BY <1>1, <2>1 DEF NumInv
  <2>3. b.id \in Ids /\ RowsOK(w)
    BY <2>1 DEF BaseInv, Shape, ArgRec, ServerOK, TransactionOK
  <2>4. ASSUME p \in {"title", "insert"}
        PROVE  ListRow(b.id) \in DOMAIN new \/ NewId(new, b.id, b.line)
    <3>1. CASE ListRow(b.id) \in DOMAIN rows
      BY <1>2, <3>1, RowKinds DEF Adds
    <3>2. CASE NewId(rows, b.id, b.line)
      BY <1>2, <2>3, <3>2, NewStays
    <3>3. QED
      BY <2>2, <2>4, <3>1, <3>2 DEF NumOK
  <2>5. ASSUME NEW r \in DOMAIN w, r[1] = "list"
        PROVE  IF r \in DOMAIN new THEN w[r].line = new[r].line ELSE NewId(new, r[2], w[r].line)
    <3>1. r \notin DOMAIN put[c]
      BY <2>1, <2>5 DEF BaseInv, ServerOK, LocksApart, Locks
    <3>2. r \in DOMAIN new => r \in DOMAIN rows
      BY <1>1, <3>1, CommitRows
    <3>3. CASE r \in DOMAIN rows
      BY <1>2, <2>2, <2>5, <3>3 DEF Adds, NumOK
    <3>4. CASE r \notin DOMAIN rows
      <4>1. NewId(rows, r[2], w[r].line)
        BY <2>2, <2>5, <3>4 DEF NumOK
      <4>2. r[2] \in Ids /\ r = ListRow(r[2])
        BY <2>3, <2>5, ListRowType
      <4>3. ListRow(r[2]) \in DOMAIN new \/ NewId(new, r[2], w[r].line)
        BY <1>2, <4>1, <4>2, NewStays
      <4>4. r \notin DOMAIN new
        BY <3>2, <3>4
      <4>5. NewId(new, r[2], w[r].line)
        BY <4>2, <4>3, <4>4
      <4>6. QED
        BY <4>4, <4>5
    <3>5. QED
      BY <3>3, <3>4
  <2>6. NumOK(p, b, w, new)
    BY <2>2, <2>4, <2>5 DEF NumOK
  <2>7. QED
    BY <1>5, <1>6, <2>1, <2>6
<1>10. QED
  BY <1>1, <1>7, <1>8, <1>9 DEF NumInv

(* The stocked lists have the flags of their lines. *)
LEMMA StockNums ==
    ASSUME NEW t \in ListTypes, listType = t, 2 \in ListTypes => StockWhole
    PROVE  NumsOK(StockDb(Stock[t]))
<1>1. PICK S : S = Stock[t]
  OBVIOUS
<1>2. t = 2 => \A s \in S : s.num >= Cube =>
                 \E u \in S : FlagOf[u.line] = FlagOf[s.line] /\ u.num = Cube
  BY <1>1 DEF StockWhole
<1> DEFINE IdOf(s) == <<FlagOf[s.line], s.num>>
           named == {s \in S : s.name # NoName}
           lists == {ListRow(IdOf(s)) : s \in S}
           others == UNION {{ScopeRow(IdOf(s), p) : p \in Places}
                              \cup {StatusRow(IdOf(s), d) : d \in Devices} : s \in named}
           saved(r) == CHOOSE s \in S : IdOf(s) = r[2]
<1>3. PICK D : D = StockDb(S)
  OBVIOUS
<1>4. D = [r \in lists \cup others |->
             IF r[1] = "list"
               THEN [name |-> saved(r).name, title |-> saved(r).name,
                     line |-> saved(r).line, stamp |-> 0]
               ELSE 0]
  BY <1>3 DEF StockDb
<1>5. ASSUME NEW r \in lists PROVE saved(r) \in S /\ r[2] = IdOf(saved(r))
  <2>1. PICK s \in S : r = ListRow(IdOf(s))
    BY <1>5
  <2>2. r[2] = IdOf(s)
    BY <2>1, RowKinds
  <2>3. QED
    BY <2>1, <2>2
<1>6. ASSUME NEW r \in others PROVE r[1] # "list"
  <2>1. PICK s \in named : \/ \E p \in Places : r = ScopeRow(IdOf(s), p)
                           \/ \E d \in Devices : r = StatusRow(IdOf(s), d)
    BY <1>6
  <2>2. QED
    BY <2>1 DEF ScopeRow, StatusRow
<1>7. \A s \in S : ListRow(IdOf(s)) \in lists
  OBVIOUS
<1> HIDE DEF lists, others, named, saved
<1>8. DOMAIN D = lists \cup others
  BY <1>4
<1>9. SUFFICES ASSUME NEW r \in DOMAIN D, r[1] = "list"
               PROVE  /\ r[2][1] = FlagOf[D[r].line]
                      /\ t = 2 /\ r[2][2] >= Cube => ListRow(<<r[2][1], Cube>>) \in DOMAIN D
  BY <1>1, <1>3 DEF NumsOK
<1>10. PICK s : s = saved(r)
  OBVIOUS
<1>11. s \in S /\ r[2] = <<FlagOf[s.line], s.num>>
  BY <1>5, <1>6, <1>8, <1>9, <1>10
<1>12. D[r] = [name |-> s.name, title |-> s.name, line |-> s.line, stamp |-> 0]
  BY <1>4, <1>8, <1>9, <1>10
<1>13. r[2][1] = FlagOf[D[r].line]
  BY <1>11, <1>12
<1>14. ASSUME t = 2, r[2][2] >= Cube PROVE ListRow(<<r[2][1], Cube>>) \in DOMAIN D
  <2>1. PICK u \in S : FlagOf[u.line] = FlagOf[s.line] /\ u.num = Cube
    BY <1>2, <1>11, <1>14
  <2>2. IdOf(u) = <<r[2][1], Cube>>
    BY <1>11, <2>1
  <2>3. QED
    BY <1>7, <1>8, <2>1, <2>2
<1>15. QED
  BY <1>13, <1>14

(* No call is under way at first. *)
LEMMA InitNum ==
    ASSUME 2 \in ListTypes => StockWhole
    PROVE  Init => NumInv
<1>1. SUFFICES ASSUME Init PROVE NumInv
  OBVIOUS
<1>2. PICK t \in ListTypes : listType = t /\ db = StockDb(Stock[t])
  BY <1>1 DEF Init
<1>3. NumsOK(db)
  BY <1>2, StockNums
<1>4. ASSUME NEW c \in Clients PROVE NumOK(pc[c], arg[c], put[c], db)
  <2>1. pc[c] = "idle" /\ DOMAIN put[c] = {}
    BY <1>1 DEF Init, EmptyRows
  <2>2. QED
    BY <2>1 DEF NumOK
<1>5. QED
  BY <1>3, <1>4 DEF NumInv

(* Every step keeps the numbers. *)
LEMMA StepNum == BaseInv /\ NumInv /\ RoomLeft /\ [Next]_vars => NumInv'
<1> SUFFICES ASSUME BaseInv, NumInv, RoomLeft, [Next]_vars PROVE NumInv'
  OBVIOUS
<1>1. BaseInv'
  BY StepBase
<1>2. CASE UNCHANGED vars
  BY <1>2 DEF vars, NumInv, NumsOK, NumOK, NewId, OfLine
<1>3. ASSUME NEW c \in Editors, SaveStatement(c) PROVE NumInv'
  <2>1. c \in Clients
    BY DEF Clients
  <2>2. QED
    BY <1>1, <1>3, <2>1, GetPlayListIDNum, CheckTitleNum, InsertListNum, UpdateListNum,
       PlacesNum, CommitNum DEF SaveStatement
<1>4. ASSUME NEW d \in Devices, SetDownloadStatus(d) PROVE NumInv'
  <2>1. d \in Clients
    BY DEF Clients
  <2>2. QED
    BY <1>1, <1>4, <2>1, DeviceNum, CommitNum DEF SetDownloadStatus
<1>5. ASSUME NEW c \in Clients, Fail(c) PROVE NumInv'
  BY <1>5, AbortNum DEF Fail
<1>6. CASE Next
  BY <1>3, <1>4, <1>5, <1>6, BeginNum
     DEF Next, Statement, UpdatePlayListRecord, UpdateDefaultPlayListRecord
<1>7. QED
  BY <1>2, <1>6

(* The identifier of a list that is added is above those of all lists of   *)
(* its line, whatever fails and whoever saves at the same time, when the   *)
(* stocked Default_Lists have no gap at four digits and the largest number *)
(* of a UINT has not been given out.                                       *)
THEOREM Grow ==
    ASSUME 2 \in ListTypes => StockWhole
    PROVE  Spec /\ []RoomLeft => NewIdsGrow
<1>1. Init => BaseInv /\ NumInv
  BY InitBase, InitNum
<1>2. BaseInv /\ NumInv /\ RoomLeft /\ [Next]_vars => BaseInv' /\ NumInv'
  BY StepBase, StepNum
<1>3. BaseInv /\ NumInv /\ [Next]_vars
        => [\A r \in DOMAIN db' \ DOMAIN db, q \in DOMAIN db :
              (r[1] = "list" /\ q[1] = "list" /\ db[q].line = db'[r].line)
                => r[2][2] > q[2][2]]_vars
  <2>1. SUFFICES ASSUME BaseInv, NumInv, Next,
                        NEW r \in DOMAIN db' \ DOMAIN db, NEW q \in DOMAIN db,
                        r[1] = "list", q[1] = "list", db[q].line = db'[r].line
                 PROVE  r[2][2] > q[2][2]
    OBVIOUS
  <2>2. PICK c \in Clients : Commit(c)
    BY <2>1, OnlyCommit
  <2>3. BaseInv'
    BY <2>1, StepBase
  <2>4. Adds(db, db')
    BY <2>1, <2>2, <2>3, CommitAdds
  <2>5. NewId(db, r[2], db'[r].line)
    BY <2>1, <2>4 DEF Adds
  <2>6. q \in OfLine(db, db'[r].line)
    BY <2>1 DEF OfLine
  <2>7. q[2][2] < r[2][2]
    BY <2>5, <2>6 DEF NewId
  <2>8. r[2] \in Ids /\ q[2] \in Ids
    BY <2>1, <2>4, ListRowType DEF Adds
  <2>9. r[2][2] \in Nat /\ q[2][2] \in Nat
    BY <2>8, IdPair
  <2>10. QED
    BY <2>7, <2>9
<1>4. QED
  BY <1>1, <1>2, <1>3, PTL DEF Spec, NewIdsGrow

-----------------------------------------------------------------------------
(* What a call that adds a list leaves alone                               *)

(* What a call that adds a list has deleted, at p with the record a: nothing *)
(* before its record is inserted, then only rows of its own list, which is   *)
(* not in the table until the call commits.                                  *)
AddOK(p, a, g, rows) ==
    /\ p = "idle" => g = {}
    /\ a.upd = 0 =>
         /\ p \notin {"clear", "update"}
         /\ p \in {"maxid", "title", "insert"} => g = {}
         /\ p \in Writing => ListRow(a.id) \notin DOMAIN rows /\ \A r \in g : r[2] = a.id

(* For every editor. *)
AddInv == \A c \in Editors : AddOK(pc[c], arg[c], gone[c], db)

(* A step of c that leaves the tables alone. *)
LEMMA AddStep ==
    ASSUME BaseInv, AddInv, NEW c \in Clients, NEW p, NEW a, NEW g, Moves(c, p, a), db' = db,
           g = gone'[c], \A d \in Clients \ {c} : gone'[d] = gone[d],
           c \in Editors => AddOK(p, a, g, db)
    PROVE  AddInv'
<1>1. /\ pc'[c] = p /\ arg'[c] = a
      /\ \A d \in Clients \ {c} : pc'[d] = pc[d] /\ arg'[d] = arg[d]
  BY DEF Moves, BaseInv, Shape
<1>2. PICK rows : rows = db /\ rows = db'
  OBVIOUS
<1>3. c \in Editors => AddOK(pc'[c], arg'[c], gone'[c], rows)
  BY <1>1, <1>2
<1>4. \A d \in Editors \ {c} : AddOK(pc'[d], arg'[d], gone'[d], rows)
  BY <1>1, <1>2 DEF AddInv, Clients
<1>5. QED
  BY <1>2, <1>3, <1>4 DEF AddInv

(* A call that has returned. *)
LEMMA ReturnAdd ==
    ASSUME BaseInv, AddInv, NEW c \in Clients, NEW value, Return(c, value), db' = db,
           EndTransaction(c) \/ (pc[c] = "idle" /\ UNCHANGED gone)
    PROVE  AddInv'
<1>1. PICK a \in ArgRec : Moves(c, "idle", a)
  BY ReturnMoves
<1>2. PICK g : g = gone'[c]
  OBVIOUS
<1>3. /\ c \in Editors => g = {}
      /\ \A d \in Clients \ {c} : gone'[d] = gone[d]
  <2>1. CASE EndTransaction(c)
    BY <1>2, <2>1, EndRows
  <2>2. CASE pc[c] = "idle" /\ UNCHANGED gone
    BY <1>2, <2>2 DEF AddInv, AddOK
  <2>3. QED
    BY <2>1, <2>2
<1>4. c \in Editors => AddOK("idle", a, g, db)
  BY <1>3 DEF AddOK, Writing
<1>5. QED
  BY <1>1, <1>2, <1>3, <1>4, AddStep

(* The first statement of a save. *)
LEMMA BeginAdd ==
    ASSUME BaseInv, AddInv, NEW c \in Editors, NEW name \in Names, NEW line \in Lines,
           NEW sel \in Selections, BeginSave(c, name, line, sel)
    PROVE  AddInv'
<1>1. c \in Clients /\ UNCHANGED <<db, gone>> /\ pc[c] = "idle" /\ pc \in [Clients -> Labels]
      /\ arg \in [Clients -> ArgRec]
  BY DEF Clients, BeginSave, BaseInv, Shape
<1>2. PICK g : g = gone[c] /\ g = gone'[c] /\ g = {}
  BY <1>1 DEF AddInv, AddOK
<1>3. \E a, p : Moves(c, p, a) /\ (p = "maxid" \/ a.upd = 1)
  <2>1. CASE /\ \E id \in {NoID, arg[c].id} :
                   arg' = [arg EXCEPT ![c] =
                             [NoArg EXCEPT !.id = id, !.name = name, !.title = name,
                                           !.line = line, !.sel = sel, !.stamp = calls + 1]]
             /\ Goto(c, "maxid")
    BY <1>1, <2>1 DEF Moves, Goto
  <2>2. CASE \E id \in IsExistName(name), changed \in BOOLEAN :
                /\ arg' = [arg EXCEPT ![c] =
                             [NoArg EXCEPT !.upd = 1, !.id = id, !.name = name, !.line = line,
                                           !.sel = sel, !.changed = changed, !.idok = TRUE,
                                           !.stamp = calls + 1]]
                /\ Goto(c, IF changed THEN "clear" ELSE "update")
    <3>1. PICK id, changed, a :
                /\ a = [NoArg EXCEPT !.upd = 1, !.id = id, !.name = name, !.line = line,
                                     !.sel = sel, !.changed = changed, !.idok = TRUE,
                                     !.stamp = calls + 1]
                /\ arg' = [arg EXCEPT ![c] = a]
                /\ Goto(c, IF changed THEN "clear" ELSE "update")
      BY <2>2
    <3>2. a.upd = 1
      BY <3>1 DEF NoArg
    <3>3. QED
      BY <1>1, <3>1, <3>2 DEF Moves, Goto
  <2>3. QED
    BY <2>1, <2>2 DEF BeginSave
<1>4. PICK a, p : Moves(c, p, a) /\ (p = "maxid" \/ a.upd = 1)
  BY <1>3
<1>5. AddOK(p, a, g, db)
  BY <1>2, <1>4 DEF AddOK, Writing
<1>6. QED
  BY <1>1, <1>2, <1>4, <1>5, AddStep

(* GetPlayListID and CheckTitle, before the record is inserted. *)
LEMMA EarlyAdd ==
    ASSUME BaseInv, AddInv, "id" \notin Faults, NEW c \in Editors,
           GetPlayListID(c) \/ CheckTitle(c)
    PROVE  AddInv'
<1>1. /\ c \in Clients /\ UNCHANGED <<db, gone>> /\ pc[c] \in {"maxid", "title"}
      /\ arg[c] \in ArgRec
  BY DEF Clients, GetPlayListID, CheckTitle, BaseInv, Shape
<1>2. PICK p, a : Moves(c, p, a) /\ p \in {"title", "insert"} /\ a.upd = arg[c].upd
  <2>1. CASE GetPlayListID(c)
    <3>1. PICK id : /\ arg' = [arg EXCEPT ![c].id = id, ![c].idok = TRUE]
                    /\ Goto(c, "title")
      BY <2>1 DEF GetPlayListID, Outcome
    <3>2. PICK a : a = [arg[c] EXCEPT !.id = id, !.idok = TRUE]
      OBVIOUS
    <3>3. a.upd = arg[c].upd
      BY <1>1, <3>2 DEF ArgRec
    <3>4. Moves(c, "title", a)
      BY <1>1, <3>1, <3>2 DEF Moves, Goto, BaseInv, Shape
    <3>5. QED
      BY <3>3, <3>4
  <2>2. CASE CheckTitle(c)
    <3>1. PICK title, id : arg' = [arg EXCEPT ![c].title = title, ![c].id = id]
      BY <2>2 DEF CheckTitle
    <3>2. PICK a : a = [arg[c] EXCEPT !.title = title, !.id = id]
      OBVIOUS
    <3>3. a.upd = arg[c].upd
      BY <1>1, <3>2 DEF ArgRec
    <3>4. Moves(c, "insert", a)
      BY <1>1, <2>2, <3>1, <3>2 DEF Moves, Goto, CheckTitle, BaseInv, Shape
    <3>5. QED
      BY <3>3, <3>4
  <2>3. QED
    BY <2>1, <2>2
<1>3. PICK g : g = gone[c] /\ g = gone'[c]
  BY <1>1
<1>4. AddOK(p, a, g, db)
  BY <1>1, <1>2, <1>3 DEF AddInv, AddOK, Writing
<1>5. QED
  BY <1>1, <1>2, <1>3, <1>4, AddStep

(* The record of the list: a new row, or that of a call that updates. *)
LEMMA RecordAdd ==
    ASSUME BaseInv, AddInv, NEW c \in Editors, InsertList(c) \/ ClearStatus(c) \/ UpdateList(c)
    PROVE  AddInv'
<1>1. c \in Clients
  BY DEF Clients
<1>2. PICK a : a = arg[c] /\ AddOK(pc[c], a, gone[c], db)
  BY DEF AddInv
<1>3. PICK g : g = gone'[c]
  OBVIOUS
<1>4. CASE InsertList(c) /\ Abort(c)
  BY <1>1, <1>4, ReturnAdd DEF Abort
<1>5. CASE InsertList(c) /\ ~Abort(c)
  <2>1. PICK row, v : row = ListRow(a.id) /\ Write(c, row, v)
                      /\ Goto(c, "zone") /\ UNCHANGED <<db, arg>> /\ row \notin Seen(c)
    BY <1>2, <1>5 DEF InsertList
  <2>2. row \notin DOMAIN db
    <3>1. row[1] = "list"
      BY <2>1 DEF ListRow
    <3>2. row \notin gone[c]
      BY <1>1, <3>1 DEF BaseInv, ServerOK, TransactionOK
    <3>3. QED
      BY <2>1, <3>2 DEF Seen
  <2>3. g = gone[c] /\ \A d \in Clients \ {c} : gone'[d] = gone[d]
    BY <1>1, <1>3, <2>1, WriteRows
  <2>4. pc[c] = "insert"
    BY <1>5 DEF InsertList
  <2>5. AddOK("zone", a, g, db)
    BY <1>2, <2>1, <2>2, <2>3, <2>4 DEF AddOK, Writing
  <2>6. Moves(c, "zone", a)
    BY <1>1, <1>2, <2>1, StayMoves
  <2>7. QED
    BY <1>1, <1>3, <2>1, <2>3, <2>5, <2>6, AddStep
<1>6. CASE ClearStatus(c) \/ UpdateList(c)
  <2>1. pc[c] \in {"clear", "update"} /\ UNCHANGED <<db, arg>>
    BY <1>6 DEF ClearStatus, UpdateList
  <2>2. a.upd # 0
    BY <1>2, <2>1 DEF AddOK
  <2>3. PICK p \in {"update", "zone"} : Goto(c, p)
    BY <1>6 DEF ClearStatus, UpdateList
  <2>4. Moves(c, p, a)
    BY <1>1, <1>2, <2>1, <2>3, StayMoves
  <2>5. AddOK(p, a, g, db)
    BY <2>2, <2>3 DEF AddOK
  <2>6. \A d \in Clients \ {c} : gone'[d] = gone[d]
    BY <1>1, <1>6, WriteRows, DeleteRows DEF ClearStatus, UpdateList
  <2>7. QED
    BY <1>1, <1>3, <2>1, <2>4, <2>5, <2>6, AddStep
<1>7. QED
  BY <1>4, <1>5, <1>6

(* The statements on the scope delete rows of the call's own list. *)
LEMMA ScopeAdd ==
    ASSUME BaseInv, AddInv, NEW c \in Editors,
           DeleteScope(c) \/ IsExistStation(c) \/ InsertPlace(c)
    PROVE  AddInv'
<1>1. c \in Clients
  BY DEF Clients
<1>2. PICK a \in ArgRec : a = arg[c] /\ CallOK(c, pc[c], a, db)
  BY <1>1, CallFacts
<1>3. PICK g, h : g = gone'[c] /\ h = gone[c]
  OBVIOUS
<1>4. AddOK(pc[c], a, h, db)
  BY <1>2, <1>3 DEF AddInv
<1>5. CASE DeleteScope(c)
  <2>1. PICK rows : rows = {ScopeRow(a.id, p) : p \in Places} /\ Delete(c, rows)
    BY <1>2, <1>5 DEF DeleteScope
  <2>2. /\ g = h \cup ((rows \cap Seen(c)) \cap DOMAIN db)
        /\ \A d \in Clients \ {c} : gone'[d] = gone[d]
    BY <1>1, <1>3, <2>1, DeleteRows
  <2>3. \A r \in rows : r[2] = a.id
    BY <2>1 DEF ScopeRow
  <2>4. PICK p \in {"place", "commit"} : Goto(c, p) /\ UNCHANGED <<db, arg>> /\ pc[c] = "zone"
    BY <1>5 DEF DeleteScope
  <2>5. AddOK(p, a, g, db)
    BY <1>4, <2>2, <2>3, <2>4 DEF AddOK, Writing
  <2>6. Moves(c, p, a)
    BY <1>1, <1>2, <2>4, StayMoves
  <2>7. QED
    BY <1>1, <1>3, <2>2, <2>4, <2>5, <2>6, AddStep
<1>6. ASSUME pc[c] \in {"place", "store"}, g = h, UNCHANGED db,
             \A d \in Clients \ {c} : gone'[d] = gone[d],
             NEW p \in Writing, NEW b, Moves(c, p, b), b.id = a.id, b.upd = a.upd
      PROVE  AddInv'
  <2>1. AddOK(p, b, g, db)
    BY <1>4, <1>6 DEF AddOK, Writing
  <2>2. QED
    BY <1>1, <1>3, <1>6, <2>1, AddStep
<1>7. ASSUME NextPlace(c)
      PROVE  \E p \in Writing : \E b : Moves(c, p, b) /\ b.id = a.id /\ b.upd = a.upd
  <2>1. PICK b : b = [a EXCEPT !.i = @ + 1]
    OBVIOUS
  <2>2. b.id = a.id /\ b.upd = a.upd
    BY <1>2, <2>1 DEF ArgRec
  <2>3. arg' = [arg EXCEPT ![c] = b]
    BY <1>1, <1>2, <1>7, <2>1 DEF NextPlace, BaseInv, Shape
  <2>4. PICK p \in {"place", "commit"} : pc' = [pc EXCEPT ![c] = p]
    BY <1>7 DEF NextPlace, Goto
  <2>5. QED
    BY <2>2, <2>3, <2>4 DEF Moves, Writing
<1>8. CASE IsExistStation(c)
  <2>1. pc[c] = "place" /\ UNCHANGED <<db, gone>>
    BY <1>8 DEF IsExistStation
  <2>2. CASE Goto(c, "store") /\ UNCHANGED arg
    <3>1. Moves(c, "store", a) /\ "store" \in Writing
      BY <1>1, <1>2, <2>2, StayMoves DEF Writing
    <3>2. QED
      BY <1>3, <1>6, <2>1, <3>1
  <2>3. CASE NextPlace(c)
    BY <1>3, <1>6, <1>7, <2>1, <2>3
  <2>4. QED
    BY <1>8, <2>2, <2>3 DEF IsExistStation
<1>9. CASE InsertPlace(c) /\ Abort(c)
  BY <1>1, <1>9, ReturnAdd DEF Abort
<1>10. CASE InsertPlace(c) /\ ~Abort(c)
  <2>1. PICK row, v : Write(c, row, v) /\ NextPlace(c) /\ UNCHANGED db /\ pc[c] = "store"
    BY <1>10 DEF InsertPlace
  <2>2. g = h /\ \A d \in Clients \ {c} : gone'[d] = gone[d]
    BY <1>1, <1>3, <2>1, WriteRows
  <2>3. QED
    BY <1>6, <1>7, <2>1, <2>2
<1>11. QED
  BY <1>5, <1>8, <1>9, <1>10

(* A commit brings no list that another call is about to add: that call     *)
(* holds its row.                                                           *)
LEMMA CommitAdd ==
    ASSUME BaseInv, HeldInv, AddInv, NEW c \in Clients, Commit(c)
    PROVE  AddInv'
<1>1. EndTransaction(c) /\ \E value : Return(c, value)
  BY DEF Commit
<1>2. PICK a \in ArgRec : Moves(c, "idle", a)
  BY <1>1, ReturnMoves
<1>3. /\ pc'[c] = "idle" /\ arg'[c] = a
      /\ \A d \in Clients \ {c} : pc'[d] = pc[d] /\ arg'[d] = arg[d]
  BY <1>2 DEF Moves, BaseInv, Shape
<1>4. /\ gone'[c] = {}
      /\ \A d \in Clients \ {c} : gone'[d] = gone[d]
  BY <1>1, EndRows
<1>5. PICK new : new = db' /\ DOMAIN new = (DOMAIN db \ gone[c]) \cup DOMAIN put[c]
  BY CommitRows
<1>6. c \in Editors => AddOK(pc'[c], arg'[c], gone'[c], new)
  BY <1>3, <1>4 DEF AddOK, Writing
<1>7. ASSUME NEW d \in Editors, d # c PROVE AddOK(pc'[d], arg'[d], gone'[d], new)
  <2>1. PICK p, b, g : p = pc[d] /\ b = arg[d] /\ g = gone[d] /\ AddOK(p, b, g, db)
    BY DEF AddInv
  <2>2. d \in Clients
    BY DEF Clients
  <2>3. ASSUME p \in Writing, b.upd = 0 PROVE ListRow(b.id) \notin DOMAIN new
    <3>1. d \notin Devices
      BY ClientsDisjoint
    <3>2. ListRow(b.id) \in DOMAIN put[d]
      BY <2>1, <2>2, <2>3, <3>1 DEF HeldInv, HeldOK
    <3>3. ListRow(b.id) \notin DOMAIN put[c]
      BY <1>7, <2>2, <3>2 DEF BaseInv, ServerOK, LocksApart, Locks
    <3>4. ListRow(b.id) \notin DOMAIN db
      BY <2>1, <2>3 DEF AddOK
    <3>5. QED
      BY <1>5, <3>3, <3>4
  <2>4. AddOK(p, b, g, new)
    BY <2>1, <2>3 DEF AddOK
  <2>5. QED
    BY <1>3, <1>4, <1>7, <2>1, <2>2, <2>4
<1>8. QED
  BY <1>5, <1>6, <1>7 DEF AddInv

(* A device adds no list. *)
LEMMA DeviceAdd ==
    ASSUME BaseInv, AddInv, NEW d \in Devices,
           DeleteStatus(d) \/ InsertStatus(d) \/ \E id : BeginReport(d, id)
    PROVE  AddInv'
<1>1. d \in Clients /\ d \notin Editors
  BY ClientsDisjoint DEF Clients
<1>2. CASE InsertStatus(d) /\ Abort(d)
  BY <1>1, <1>2, ReturnAdd DEF Abort
<1>3. CASE ~(InsertStatus(d) /\ Abort(d))
  <2>1. db' = db /\ \A c \in Clients \ {d} : gone'[c] = gone[c]
    <3>1. CASE DeleteStatus(d)
      BY <1>1, <3>1, DeleteRows DEF DeleteStatus
    <3>2. CASE InsertStatus(d)
      BY <1>1, <1>3, <3>2, WriteRows DEF InsertStatus
    <3>3. CASE \E id : BeginReport(d, id)
      BY <3>3 DEF BeginReport
    <3>4. QED
      BY <3>1, <3>2, <3>3
  <2>2. PICK p, a : Moves(d, p, a)
    <3>1. CASE UNCHANGED arg /\ \E p : Goto(d, p)
      BY <1>1, <3>1, StayMoves
    <3>2. CASE \E id : BeginReport(d, id)
      BY <3>2 DEF BeginReport, Moves, Goto
    <3>3. QED
      BY <1>3, <3>1, <3>2 DEF DeleteStatus, InsertStatus
  <2>3. PICK g : g = gone'[d]
    OBVIOUS
  <2>4. QED
    BY <1>1, <2>1, <2>2, <2>3, AddStep
<1>4. QED
  BY <1>2, <1>3

(* Every step keeps what the calls that add lists have deleted. *)
LEMMA StepAdd ==
    ASSUME "id" \notin Faults
    PROVE  BaseInv /\ HeldInv /\ AddInv /\ [Next]_vars => AddInv'
<1> SUFFICES ASSUME BaseInv, HeldInv, AddInv, [Next]_vars PROVE AddInv'
  OBVIOUS
<1>1. CASE UNCHANGED vars
  BY <1>1 DEF vars, AddInv, AddOK
<1>2. ASSUME NEW c \in Editors, SaveStatement(c) PROVE AddInv'
  <2>1. c \in Clients
    BY DEF Clients
  <2>2. QED
    BY <1>2, <2>1, EarlyAdd, RecordAdd, ScopeAdd, CommitAdd DEF SaveStatement
<1>3. ASSUME NEW d \in Devices, SetDownloadStatus(d) PROVE AddInv'
  <2>1. d \in Clients
    BY DEF Clients
  <2>2. QED
    BY <1>3, <2>1, DeviceAdd, CommitAdd DEF SetDownloadStatus
<1>4. ASSUME NEW c \in Clients, Fail(c) PROVE AddInv'
  BY <1>4, ReturnAdd DEF Fail, Abort
<1>5. ASSUME NEW c \in Editors, SaveNothing(c) PROVE AddInv'
  <2>1. c \in Clients /\ pc[c] = "idle" /\ Return(c, -1) /\ UNCHANGED <<db, gone>>
    BY <1>5 DEF Clients, SaveNothing
  <2>2. QED
    BY <2>1, ReturnAdd
<1>6. CASE Next
  BY <1>2, <1>3, <1>4, <1>5, <1>6, BeginAdd, DeviceAdd
     DEF Next, Statement, UpdatePlayListRecord, UpdateDefaultPlayListRecord
<1>7. QED
  BY <1>1, <1>6

(* A call that adds a list leaves the rows of the lists that exist alone,   *)
(* whatever else fails, as long as the select for the new identifier does   *)
(* not: that failure alone lets it go on with a list that is not its own.   *)
THEOREM Adding ==
    ASSUME "id" \notin Faults PROVE Spec => AddOnlyAdds
<1>1. Init => BaseInv /\ HeldInv /\ NoMixedScope /\ AddInv
  <2>1. Init => AddInv
    BY DEF Init, AddInv, AddOK, Clients, Writing
  <2>2. QED
    BY <2>1, InitBase, InitHeld
<1>2. BaseInv /\ HeldInv /\ NoMixedScope /\ AddInv /\ [Next]_vars
        => BaseInv' /\ HeldInv' /\ NoMixedScope' /\ AddInv'
  BY StepBase, StepHeld, StepAdd
<1>3. BaseInv /\ HeldInv /\ AddInv /\ [Next]_vars
        => [\A c \in Editors, r \in DOMAIN db :
              (/\ pc[c] = "commit" /\ pc'[c] = "idle" /\ arg[c].upd = 0
               /\ ListRow(r[2]) \in DOMAIN db)
              => r \in DOMAIN db' /\ db'[r] = db[r]]_vars
  <2>1. SUFFICES ASSUME BaseInv, HeldInv, AddInv, Next, NEW c \in Editors, NEW r \in DOMAIN db,
                        pc[c] = "commit", pc'[c] = "idle", arg[c].upd = 0,
                        ListRow(r[2]) \in DOMAIN db
                 PROVE  r \in DOMAIN db' /\ db'[r] = db[r]
    OBVIOUS
  <2>2. CASE db' = db
    BY <2>2
  <2>3. CASE \E d \in Clients : Commit(d)
    <3>1. PICK d \in Clients : Commit(d)
      BY <2>3
    <3>2. d = c
      <4>1. c \in Clients /\ \E value : Return(d, value)
        BY <3>1 DEF Clients, Commit
      <4>2. PICK b : Moves(d, "idle", b)
        BY <2>1, <4>1, ReturnMoves
      <4>3. QED
        BY <2>1, <4>1, <4>2 DEF Moves, BaseInv, Shape
    <3>3. c \notin Devices /\ c \in Clients
      BY ClientsDisjoint DEF Clients
    <3>4. PICK a : a = arg[c] /\ AddOK("commit", a, gone[c], db)
      BY <2>1 DEF AddInv
    <3>5. r[2] # a.id /\ \A q \in gone[c] : q[2] = a.id
      BY <2>1, <3>4 DEF AddOK, Writing
    <3>6. \A q \in DOMAIN put[c] : q[2] = a.id
      <4>1. \A q \in DOMAIN put[c] : q = ListRow(a.id) \/ q[2] = a.id
        BY <2>1, <3>3, <3>4 DEF HeldInv, HeldOK, Writing
      <4>2. QED
        BY <4>1 DEF ListRow
    <3>7. r \notin gone[c] /\ r \notin DOMAIN put[c]
      BY <3>5, <3>6
    <3>8. QED
      BY <3>1, <3>2, <3>7, CommitRows
  <2>4. QED
    BY <2>1, <2>2, <2>3, OnlyCommit
<1>4. QED
  BY <1>1, <1>2, <1>3, PTL DEF Spec, AddOnlyAdds
=============================================================================

-------------------------- MODULE WSAndHttpProofs --------------------------
(***************************************************************************)
(* What holds of CWSAndHttpManager for every set of ports, connections,    *)
(* paths and handlers, and every sequence of StartAction, StopAction and   *)
(* RegisterApi.                                                            *)
(*                                                                         *)
(* Three invariants carry it.  LifeInv follows the two server pointers     *)
(* through StartAction and StopAction: which servers exist at every place, *)
(* and which were deleted.  ConnInv ties the table of connections of a     *)
(* server to the connections that are open.  TableInv says that the table  *)
(* of handlers holds, for every path and method, the handler registered    *)
(* last, and holds it once.                                                *)
(*                                                                         *)
(* The last part is about the query of a request: the loop of the parser   *)
(* is followed over the text that a client makes of any list of            *)
(* parameters, pair by pair (ParseEncode).                                 *)
(***************************************************************************)
EXTENDS WSAndHttp, FiniteSetTheorems, TLAPS

Loops == {"none", "created", "run", "failed"}

(* The values of m_connections: session numbers of some connections. *)
Sessions == UNION {[S -> Nat] : S \in SUBSET Conns}

ServerRec == [of : Ports, deleted : Nat, loop : Loops, m_httpCB : BOOLEAN,
              m_next_sessionid : Nat, m_connections : Sessions]

WsTypes ==
    /\ m_acParam \in Ports
    /\ owner \in {"idle", "http", "callback", "stop"}
    /\ server \in Seq(ServerRec)
    /\ m_wsServer \in 0 .. Len(server)
    /\ m_httpServer \in 0 .. Len(server)
    /\ open \in [Conns -> 0 .. Len(server)]

-----------------------------------------------------------------------------
(* What DeletedOnce asks of a server. *)
Exempt(n) == server[n].of.http = 0 /\ server[n].of.ws # 0
Done(n) == server[n].deleted = 1 \/ Exempt(n)

(* Server n exists, made by the last StartAction. *)
Fresh(n) == n \in Servers /\ server[n].deleted = 0 /\ server[n].of = m_acParam

(* Both pointers lead to servers, two or one of them; all others are gone. *)
BothMade ==
    /\ Fresh(m_wsServer) /\ Fresh(m_httpServer)
    /\ m_wsServer # m_httpServer <=> TwoServers(m_acParam)
    /\ \A n \in Servers : n \notin {m_wsServer, m_httpServer} => Done(n)

LifeInv ==
    /\ owner = "idle" /\ m_wsServer = 0 =>
           /\ \A n \in Servers : Done(n)
           /\ m_acParam.http # m_acParam.ws => m_httpServer = 0
    /\ owner = "http" => Fresh(m_wsServer) /\ \A n \in Servers : n # m_wsServer => Done(n)
    /\ owner = "callback" => BothMade
    /\ owner = "idle" /\ m_wsServer # 0 => BothMade /\ server[m_httpServer].m_httpCB
    /\ owner = "stop" =>
           /\ m_wsServer = 0
           /\ \A n \in Servers : n # m_httpServer => Done(n)
           /\ m_httpServer # 0 =>
                  IF m_acParam.http # m_acParam.ws
                  THEN Fresh(m_httpServer) \/ Exempt(m_httpServer)
                  ELSE Done(m_httpServer)

-----------------------------------------------------------------------------
ConnInv ==
    \A n \in Servers :
        LET cons == server[n].m_connections
        IN  /\ DOMAIN cons = {c \in Conns : open[c] = n}
            /\ \A c \in DOMAIN cons : cons[c] < server[n].m_next_sessionid
            /\ \A c, d \in DOMAIN cons : cons[c] = cons[d] => c = d

-----------------------------------------------------------------------------
(* A table of handlers: one entry at most for each path and method. *)
IsTable(table) ==
    \A p \in DOMAIN table :
        /\ table[p] \in Seq(Methods \X Handlers)
        /\ \A i, j \in DOMAIN table[p] : table[p][i][1] = table[p][j][1] => i = j

(* The table holds handler h for path p and method m. *)
Holds(table, p, m, h) == p \in DOMAIN table /\ \E i \in DOMAIN table[p] : table[p][i] = <<m, h>>

Fits(p, m) == {i \in DOMAIN regs : regs[i].path = p /\ regs[i].method \in {m, "ANY"}}

Reg == [path : Paths \ {Outside}, method : Methods \cup {"ANY"}, handler : Handlers]

TableInv ==
    /\ IsTable(m_apiMapList)
    /\ regs \in Seq(Reg)
    /\ \A p \in Paths, m \in Methods :
           \/ /\ Fits(p, m) = {}
              /\ \A h \in Handlers : ~Holds(m_apiMapList, p, m, h)
           \/ \E i \in Fits(p, m) :
                  /\ \A j \in Fits(p, m) : j <= i
                  /\ \A h \in Handlers : Holds(m_apiMapList, p, m, h) <=> h = regs[i].handler

WsInv == WsTypes /\ LifeInv /\ ConnInv /\ TableInv /\ LastRegistered

-----------------------------------------------------------------------------
(* AddApi (HttpHandle.cpp:116-137) keeps one entry for each path and       *)
(* method, and changes the handler of one method of one path only.         *)
LEMMA AddApiHolds ==
    ASSUME NEW T, IsTable(T), NEW p, NEW m \in Methods, NEW h \in Handlers,
           NEW U, U = AddApi(T, p, m, h)
    PROVE  /\ IsTable(U)
           /\ \A q, k, x : Holds(U, q, k, x) <=> IF q = p /\ k = m THEN x = h ELSE Holds(T, q, k, x)
<1> DEFINE list == IF p \in DOMAIN T THEN T[p] ELSE <<>>
           known == \E i \in DOMAIN list : list[i][1] = m
           new == IF known THEN Replaced(list, m, h) ELSE Append(list, <<m, h>>)
           Entry == Methods \X Handlers
<1>1. U = [q \in DOMAIN T \cup {p} |-> IF q = p THEN new ELSE T[q]]
  BY DEF AddApi
<1>2. list \in Seq(Entry) /\ \A i, j \in DOMAIN list : list[i][1] = list[j][1] => i = j
  BY DEF IsTable
<1>3. \A k, x : Holds(T, p, k, x) <=> \E i \in DOMAIN list : list[i] = <<k, x>>
  BY DEF Holds
<1> HIDE DEF list
<1>4. /\ new \in Seq(Entry)
      /\ \A i, j \in DOMAIN new : new[i][1] = new[j][1] => i = j
      /\ \A k, x : (\E i \in DOMAIN new : new[i] = <<k, x>>)
                     <=> IF k = m THEN x = h ELSE \E i \in DOMAIN list : list[i] = <<k, x>>
  <2>1. CASE known
    <3>1. /\ new = [i \in DOMAIN list |-> IF list[i][1] = m THEN <<m, h>> ELSE list[i]]
          /\ DOMAIN new = DOMAIN list
      BY <2>1 DEF Replaced
    <3>2. \A i \in DOMAIN list : list[i] \in Entry /\ list[i] = <<list[i][1], list[i][2]>>
      BY <1>2
    <3>3. \A i \in DOMAIN list : new[i] \in Entry /\ new[i][1] = list[i][1]
      BY <3>1, <3>2
    <3>4. new \in Seq(Entry)
      <4>0. PICK N : N = new
        OBVIOUS
      <4>1. PICK n \in Nat : DOMAIN list = 1 .. n
        <5> HIDE DEF new, known, Entry
        <5>1. QED
          BY <1>2
      <4>2. N = [i \in 1 .. n |-> N[i]] /\ \A i \in 1 .. n : N[i] \in Entry
        BY <3>1, <3>3, <4>0, <4>1
      <4> HIDE DEF new
      <4>3. N \in Seq(Entry)
        BY <4>2
      <4>4. QED
        BY <4>0, <4>3
    <3>5. \A i, j \in DOMAIN new : new[i][1] = new[j][1] => i = j
      BY <1>2, <3>1, <3>3
    <3>6. ASSUME NEW k, NEW x
          PROVE  (\E i \in DOMAIN new : new[i] = <<k, x>>)
                     <=> IF k = m THEN x = h ELSE \E i \in DOMAIN list : list[i] = <<k, x>>
      <4>1. CASE k = m
        <5>1. PICK i \in DOMAIN list : list[i][1] = m
          BY <2>1
        <5>2. new[i] = <<m, h>>
          BY <3>1, <5>1
        <5>3. ASSUME NEW j \in DOMAIN new, new[j] = <<m, x>> PROVE x = h
          <6>1. j = i
            BY <3>1, <3>5, <5>1, <5>2, <5>3
          <6>2. QED
            BY <5>2, <5>3, <6>1
        <5>4. QED
          BY <3>1, <4>1, <5>1, <5>2, <5>3
      <4>2. CASE k # m
        <5>1. ASSUME NEW i \in DOMAIN list PROVE new[i] = <<k, x>> <=> list[i] = <<k, x>>
          BY <3>1, <3>2, <4>2
        <5>2. QED
          BY <3>1, <4>2, <5>1
      <4>3. QED
        BY <4>1, <4>2
    <3>7. QED
      BY <3>4, <3>5, <3>6
  <2>2. CASE ~known
    <3>1. new = Append(list, <<m, h>>) /\ <<m, h>> \in Entry
      BY <2>2
    <3>2. PICK n \in Nat : n = Len(list) /\ DOMAIN list = 1..n
      BY <1>2
    <3>3. /\ new \in Seq(Entry) /\ DOMAIN new = 1..n + 1 /\ new[n + 1] = <<m, h>>
          /\ \A i \in 1..n : new[i] = list[i] /\ new[i][1] # m
      BY <1>2, <2>2, <3>1, <3>2
    <3> HIDE DEF new
    <3>4. \A i \in 1..n + 1 : i \in 1..n \/ i = n + 1
      BY <3>2
    <3>5. \A i, j \in DOMAIN new : new[i][1] = new[j][1] => i = j
      BY <1>2, <3>2, <3>3, <3>4
    <3>6. ASSUME NEW k, NEW x
          PROVE  (\E i \in DOMAIN new : new[i] = <<k, x>>)
                     <=> IF k = m THEN x = h ELSE \E i \in DOMAIN list : list[i] = <<k, x>>
      <4>1. CASE k = m
        BY <3>2, <3>3, <3>4, <4>1
      <4>2. CASE k # m
        <5>1. ASSUME NEW i \in 1..n + 1, new[i] = <<k, x>> PROVE i \in 1..n
          <6>1. new[i][1] = k
            BY <5>1
          <6>2. QED
            BY <3>3, <3>4, <4>2, <6>1
        <5>2. \A i \in 1..n : i \in 1..n + 1 /\ new[i] = list[i]
          BY <3>2, <3>3
        <5>3. QED
          BY <3>2, <3>3, <4>2, <5>1, <5>2
      <4>3. QED
        BY <4>1, <4>2
    <3>7. QED
      BY <3>3, <3>5, <3>6
  <2>3. QED
    BY <2>1, <2>2
<1> HIDE DEF new
<1>5. IsTable(U)
  BY <1>1, <1>4 DEF IsTable
<1>6. ASSUME NEW q, NEW k, NEW x
      PROVE  Holds(U, q, k, x) <=> IF q = p /\ k = m THEN x = h ELSE Holds(T, q, k, x)
  <2>1. CASE q = p
    <3>1. p \in DOMAIN U /\ U[p] = new
      BY <1>1
    <3>2. Holds(U, p, k, x) <=> \E i \in DOMAIN new : new[i] = <<k, x>>
      BY <3>1, Zenon DEF Holds
    <3>3. (\E i \in DOMAIN new : new[i] = <<k, x>>)
              <=> IF k = m THEN x = h ELSE \E i \in DOMAIN list : list[i] = <<k, x>>
      BY <1>4, Zenon
    <3>4. Holds(T, p, k, x) <=> \E i \in DOMAIN list : list[i] = <<k, x>>
      BY <1>3, Zenon
    <3>5. QED
      BY <2>1, <3>2, <3>3, <3>4
  <2>2. CASE q # p
    BY <1>1, <2>2 DEF Holds
  <2>3. QED
    BY <2>1, <2>2
<1>7. QED
  BY <1>5, <1>6

(* RegisterApi (HttpHandle.cpp:26-51): HTTP_METHOD_ANY registers the       *)
(* handler for every method, any other value for that one.                 *)
LEMMA AddApisHolds ==
    ASSUME NEW T, IsTable(T), NEW p, NEW m \in Methods \cup {"ANY"}, NEW h \in Handlers,
           NEW U, U = AddApis(T, p, m, h)
    PROVE  /\ IsTable(U)
           /\ \A q : \A k \in Methods : \A x :
                  Holds(U, q, k, x) <=>
                      IF q = p /\ m \in {k, "ANY"} THEN x = h ELSE Holds(T, q, k, x)
<1> DEFINE A == AddApi(T, p, "GET", h)
           B == AddApi(A, p, "POST", h)
           C == AddApi(B, p, "PUT", h)
           D == AddApi(C, p, "DELETE", h)
<1>1. CASE m = "ANY"
  <2>0. /\ Methods = {"GET", "POST", "PUT", "DELETE"}
        /\ "GET" \in Methods /\ "POST" \in Methods /\ "PUT" \in Methods /\ "DELETE" \in Methods
    BY DEF Methods
  <2>1. IsTable(A) /\ \A q, k, x :
            Holds(A, q, k, x) <=> IF q = p /\ k = "GET" THEN x = h ELSE Holds(T, q, k, x)
    BY <2>0, AddApiHolds
  <2> HIDE DEF A
  <2>2. IsTable(B) /\ \A q, k, x :
            Holds(B, q, k, x) <=> IF q = p /\ k = "POST" THEN x = h ELSE Holds(A, q, k, x)
    <3>1. IsTable(A) /\ "POST" \in Methods
      BY <2>0, <2>1
    <3>2. QED
      BY <3>1, AddApiHolds
  <2> HIDE DEF B
  <2>3. IsTable(C) /\ \A q, k, x :
            Holds(C, q, k, x) <=> IF q = p /\ k = "PUT" THEN x = h ELSE Holds(B, q, k, x)
    <3>1. IsTable(B) /\ "PUT" \in Methods
      BY <2>0, <2>2
    <3>2. QED
      BY <3>1, AddApiHolds
  <2> HIDE DEF C
  <2>4. IsTable(D) /\ \A q, k, x :
            Holds(D, q, k, x) <=> IF q = p /\ k = "DELETE" THEN x = h ELSE Holds(C, q, k, x)
    <3>1. IsTable(C) /\ "DELETE" \in Methods
      BY <2>0, <2>3
    <3>2. QED
      BY <3>1, AddApiHolds
  <2>5. U = D
    BY <1>1 DEF AddApis, A, B, C
  <2> HIDE DEF D
  <2>6. ASSUME NEW q, NEW k \in Methods, NEW x
        PROVE  Holds(D, q, k, x) <=> IF q = p THEN x = h ELSE Holds(T, q, k, x)
    BY <2>0, <2>1, <2>2, <2>3, <2>4
  <2>7. QED
    BY <1>1, <2>4, <2>5, <2>6
<1>2. CASE m \in Methods
  <2>1. m # "ANY"
    BY <1>2 DEF Methods
  <2>2. U = AddApi(T, p, m, h)
    BY <2>1 DEF AddApis
  <2>3. IsTable(U) /\ \A q, k, x :
            Holds(U, q, k, x) <=> IF q = p /\ k = m THEN x = h ELSE Holds(T, q, k, x)
    BY <1>2, <2>2, AddApiHolds
  <2>4. QED
    BY <2>1, <2>3
<1>3. QED
  BY <1>1, <1>2

(* Only RegisterApi changes the table. *)
LEMMA TableStep == TableInv /\ [Next]_wsvars => TableInv'
<1> SUFFICES ASSUME TableInv, [Next]_wsvars
             PROVE  TableInv'
  OBVIOUS
<1>1. ASSUME NEW p \in Paths \ {Outside}, NEW h \in Handlers, NEW m \in Methods \cup {"ANY"},
             RegisterApi(p, h, m)
      PROVE  TableInv'
  <2> DEFINE reg == [path |-> p, method |-> m, handler |-> h]
  <2>1. IsTable(m_apiMapList) /\ regs \in Seq(Reg)
    BY DEF TableInv
  <2>2. PICK T, R : T = m_apiMapList /\ R = regs
    OBVIOUS
  <2>3. PICK n \in Nat : R \in Seq(Reg) /\ DOMAIN R = 1..n /\ n = Len(R)
    BY <2>1, <2>2
  <2>4. regs' = Append(R, reg) /\ m_apiMapList' = AddApis(T, p, m, h)
    BY <1>1, <2>2 DEF RegisterApi
  <2>5. PICK U, Q : U = m_apiMapList' /\ Q = regs'
    OBVIOUS
  <2>6. /\ IsTable(U)
        /\ \A q : \A k \in Methods : \A x :
               Holds(U, q, k, x) <=>
                   IF q = p /\ m \in {k, "ANY"} THEN x = h ELSE Holds(T, q, k, x)
    BY <2>1, <2>2, <2>4, <2>5, AddApisHolds
  <2>7. reg \in Reg /\ reg.path = p /\ reg.method = m /\ reg.handler = h
    BY DEF Reg
  <2> HIDE DEF reg
  <2>8. /\ Q \in Seq(Reg) /\ DOMAIN Q = 1..n + 1 /\ Q[n + 1] = reg
        /\ \A i \in 1..n : Q[i] = R[i]
    BY <2>3, <2>4, <2>5, <2>7
  <2>9. ASSUME NEW q \in Paths, NEW k \in Methods
        PROVE  (\/ /\ Fits(q, k) = {}
                   /\ \A x \in Handlers : ~Holds(m_apiMapList, q, k, x)
                \/ \E i \in Fits(q, k) :
                       /\ \A j \in Fits(q, k) : j <= i
                       /\ \A x \in Handlers : Holds(m_apiMapList, q, k, x) <=> x = regs[i].handler)'
    <3> DEFINE F == {i \in DOMAIN R : R[i].path = q /\ R[i].method \in {k, "ANY"}}
               G == {i \in DOMAIN Q : Q[i].path = q /\ Q[i].method \in {k, "ANY"}}
    <3>1. F = Fits(q, k) /\ G = Fits(q, k)'
      BY <2>2, <2>5 DEF Fits
    <3>2. \/ F = {} /\ \A x \in Handlers : ~Holds(T, q, k, x)
          \/ \E i \in F : /\ \A j \in F : j <= i
                          /\ \A x \in Handlers : Holds(T, q, k, x) <=> x = R[i].handler
      BY <2>2, <3>1 DEF TableInv
    <3>3. F \subseteq 1..n
      BY <2>3
    <3>4. CASE q = p /\ m \in {k, "ANY"}
      <4>1. n + 1 \in G /\ \A j \in G : j <= n + 1
        BY <2>7, <2>8, <3>4
      <4>2. \A x \in Handlers : Holds(U, q, k, x) <=> x = Q[n + 1].handler
        BY <2>6, <2>7, <2>8, <3>4
      <4> HIDE DEF G
      <4>3. QED
        BY <2>5, <3>1, <4>1, <4>2
    <3>5. CASE ~(q = p /\ m \in {k, "ANY"})
      <4>1. G = F
        <5>1. n + 1 \notin G
          BY <2>7, <2>8, <3>5
        <5>2. \A i \in 1..n + 1 : i = n + 1 \/ i \in 1..n
          OBVIOUS
        <5>3. \A i \in 1..n : i \in G <=> i \in F
          BY <2>3, <2>8
        <5>4. G \subseteq 1..n + 1
          BY <2>8
        <5> HIDE DEF F, G
        <5>5. QED
          BY <3>3, <5>1, <5>2, <5>3, <5>4
      <4>2. \A x \in Handlers : Holds(U, q, k, x) <=> Holds(T, q, k, x)
        BY <2>6, <3>5
      <4>3. \A i \in F : Q[i].handler = R[i].handler
        BY <2>8, <3>3
      <4> HIDE DEF F, G
      <4>4. \/ G = {} /\ \A x \in Handlers : ~Holds(U, q, k, x)
            \/ \E i \in G : /\ \A j \in G : j <= i
                            /\ \A x \in Handlers : Holds(U, q, k, x) <=> x = Q[i].handler
        BY <3>2, <4>1, <4>2, <4>3, Zenon
      <4>5. QED
        BY <2>5, <3>1, <4>4
    <3>6. QED
      BY <3>4, <3>5
  <2>10. QED
    BY <2>5, <2>6, <2>8, <2>9 DEF TableInv
<1>2. ASSUME UNCHANGED <<m_apiMapList, regs>> PROVE TableInv'
  BY <1>2 DEF TableInv, Fits
<1>3. CASE UNCHANGED wsvars
  BY <1>2, <1>3 DEF wsvars
<1>4. ASSUME NEW n \in Servers,
             \/ StartRunServer(n)
             \/ \E c \in Conns : on_open(n, c) \/ on_close(n, c)
             \/ \E p \in Paths, m \in Methods, q \in Queries : on_http(n, p, m, q)
      PROVE  UNCHANGED <<m_apiMapList, regs>>
  BY <1>4 DEF StartRunServer, on_open, on_close, on_http
<1>5. ASSUME Answered \/ (\E param \in Ports : StartWs(param))
             \/ StartHttp \/ SetHttpMsgCallBack \/ StopWs \/ StopHttp
      PROVE  UNCHANGED <<m_apiMapList, regs>>
  BY <1>5 DEF Answered, StartWs, StartHttp, SetHttpMsgCallBack, StopWs, StopHttp
<1>6. QED
  BY <1>1, <1>2, <1>3, <1>4, <1>5 DEF Next

(* GetApi (HttpHandle.cpp:53-83) finds the handler registered last. *)
LEMMA GetApiRegistered ==
    ASSUME TableInv, NEW p \in Paths, NEW m \in Methods
    PROVE  GetApi(p, m) = Registered(p, m)
<1> DEFINE list == IF p # Outside /\ p \in DOMAIN m_apiMapList THEN m_apiMapList[p] ELSE <<>>
           match == {i \in DOMAIN list : list[i][1] = m}
           fits == Fits(p, m)
<1>0. /\ IsTable(m_apiMapList) /\ regs \in Seq(Reg)
      /\ \/ fits = {} /\ \A h \in Handlers : ~Holds(m_apiMapList, p, m, h)
         \/ \E i \in fits :
                  /\ \A j \in fits : j <= i
                  /\ \A h \in Handlers : Holds(m_apiMapList, p, m, h) <=> h = regs[i].handler
  BY DEF TableInv
<1>1. GetApi(p, m) = IF match = {} THEN NoHandler ELSE list[Min(match)][2]
  BY DEF GetApi
<1>2. Registered(p, m) = IF fits = {} THEN NoHandler ELSE regs[Max(fits)].handler
  BY DEF Registered, Fits
<1>3. list \in Seq(Methods \X Handlers) /\ \A i, j \in DOMAIN list : list[i][1] = list[j][1] => i = j
  BY <1>0 DEF IsTable
<1>11. ASSUME NEW i \in fits
       PROVE  i \in Nat /\ regs[i].path = p /\ regs[i].path # Outside /\ regs[i].handler \in Handlers
  <2>1. i \in DOMAIN regs /\ regs[i].path = p
    BY DEF Fits
  <2>2. i \in Nat /\ regs[i] \in Reg
    BY <1>0, <2>1
  <2>3. QED
    BY <2>1, <2>2 DEF Reg
<1>4. p = Outside => fits = {}
  BY <1>11
<1>5. p # Outside => \A h : Holds(m_apiMapList, p, m, h) <=> \E i \in DOMAIN list : list[i] = <<m, h>>
  BY DEF Holds
<1>6. p = Outside => list = <<>>
  OBVIOUS
<1> HIDE DEF list
<1>7. \A i \in DOMAIN list : list[i] = <<list[i][1], list[i][2]>> /\ list[i][2] \in Handlers
                             /\ i \in Nat
  BY <1>3
<1>8. CASE fits = {}
  <2>1. match = {}
    <3>1. CASE p = Outside
      BY <1>6, <3>1
    <3>2. CASE p # Outside
      <4>1. \A h \in Handlers : ~Holds(m_apiMapList, p, m, h)
        BY <1>0, <1>8
      <4>2. QED
        BY <1>5, <1>7, <3>2, <4>1
    <3>3. QED
      BY <3>1, <3>2
  <2>2. QED
    BY <1>1, <1>2, <1>8, <2>1
<1>9. CASE fits # {}
  <2>0. p # Outside
    BY <1>4, <1>9
  <2>1. PICK i \in fits :
            /\ \A j \in fits : j <= i
            /\ \A h \in Handlers : Holds(m_apiMapList, p, m, h) <=> h = regs[i].handler
    BY <1>0, <1>9
  <2>2. fits \subseteq Nat /\ regs[i].handler \in Handlers
    BY <1>11
  <2> HIDE DEF fits
  <2>3. Max(fits) = i
    <3>1. \A x \in fits : (\A y \in fits : x >= y) => x = i
      BY <2>1, <2>2
    <3>2. i \in fits /\ \A y \in fits : i >= y
      BY <2>1, <2>2
    <3>3. QED
      BY <3>1, <3>2 DEF Max
  <2>4. PICK j \in DOMAIN list : list[j] = <<m, regs[i].handler>>
    BY <1>5, <2>0, <2>1, <2>2
  <2>5. match = {j}
    BY <1>3, <2>4
  <2>6. Min(match) = j
    <3>1. \A y \in {j} : j <= y
      BY <1>7
    <3>2. QED
      BY <2>5, <3>1 DEF Min
  <2>7. QED
    BY <1>1, <1>2, <1>9, <2>3, <2>4, <2>5, <2>6
<1>10. QED
  BY <1>8, <1>9

-----------------------------------------------------------------------------
(* The tables of connections before, during and after a session. *)
LEMMA SessionsFacts ==
    /\ [c \in {} |-> 0] \in Sessions
    /\ \A f \in Sessions : DOMAIN f \subseteq Conns /\ \A c \in DOMAIN f : f[c] \in Nat
    /\ \A f \in Sessions, c \in Conns, id \in Nat :
           [d \in DOMAIN f \cup {c} |-> IF d = c THEN id ELSE f[d]] \in Sessions
    /\ \A f \in Sessions, c \in Conns : Erase(f, c) \in Sessions
<1>1. [c \in {} |-> 0] \in Sessions
  <2>1. [c \in {} |-> 0] \in [{} -> Nat] /\ {} \in SUBSET Conns
    OBVIOUS
  <2>2. QED
    BY <2>1, Zenon DEF Sessions
<1>2. ASSUME NEW f \in Sessions
      PROVE  DOMAIN f \subseteq Conns /\ \A c \in DOMAIN f : f[c] \in Nat
  <2>1. PICK S \in SUBSET Conns : f \in [S -> Nat]
    BY Zenon DEF Sessions
  <2>2. QED
    BY <2>1
<1>3. ASSUME NEW f \in Sessions, NEW c \in Conns, NEW id \in Nat
      PROVE  [d \in DOMAIN f \cup {c} |-> IF d = c THEN id ELSE f[d]] \in Sessions
  <2>1. DOMAIN f \cup {c} \in SUBSET Conns
    BY <1>2
  <2>2. [d \in DOMAIN f \cup {c} |-> IF d = c THEN id ELSE f[d]] \in [DOMAIN f \cup {c} -> Nat]
    BY <1>2
  <2>3. QED
    BY <2>1, <2>2, Zenon DEF Sessions
<1>4. ASSUME NEW f \in Sessions, NEW c \in Conns PROVE Erase(f, c) \in Sessions
  <2>1. DOMAIN f \ {c} \in SUBSET Conns
    BY <1>2
  <2>2. Erase(f, c) \in [DOMAIN f \ {c} -> Nat]
    BY <1>2 DEF Erase
  <2>3. QED
    BY <2>1, <2>2, Zenon DEF Sessions
<1>5. QED
  BY <1>1, <1>2, <1>3, <1>4

(* Assigning a server, and appending one. *)
LEMMA PutServer ==
    ASSUME NEW s \in Seq(ServerRec), NEW n \in DOMAIN s, NEW r \in ServerRec,
           NEW t, t = [s EXCEPT ![n] = r]
    PROVE  /\ t \in Seq(ServerRec) /\ Len(t) = Len(s) /\ DOMAIN t = DOMAIN s
           /\ t[n] = r /\ \A k \in DOMAIN s : k # n => t[k] = s[k]
OBVIOUS

(* new CWebScoketServer: one more object, the others as they were. *)
LEMMA AddServer ==
    ASSUME NEW s \in Seq(ServerRec), NEW r \in ServerRec, NEW t, t = Append(s, r)
    PROVE  /\ t \in Seq(ServerRec) /\ Len(t) = Len(s) + 1 /\ DOMAIN t = DOMAIN s \cup {Len(s) + 1}
           /\ t[Len(s) + 1] = r /\ \A k \in DOMAIN s : t[k] = s[k] /\ k # Len(s) + 1
OBVIOUS

(* The constructor, and what delete leaves of a server. *)
LEMMA NewServerFacts ==
    ASSUME NEW param \in Ports, NEW threaded \in BOOLEAN, NEW r, r = NewServer(param, threaded)
    PROVE  /\ r \in ServerRec /\ r.of = param /\ r.deleted = 0
           /\ DOMAIN r.m_connections = {}
<1>1. [c \in {} |-> 0] \in Sessions
  BY SessionsFacts
<1>2. PICK e \in Sessions : e = [c \in {} |-> 0] /\ DOMAIN e = {}
  BY <1>1
<1>3. r = [of |-> param, deleted |-> 0, loop |-> IF threaded THEN "created" ELSE "none",
           m_httpCB |-> FALSE, m_next_sessionid |-> 1, m_connections |-> e]
  BY <1>2 DEF NewServer
<1>4. QED
  BY <1>2, <1>3 DEF ServerRec, Loops

(* What ~CWebScoketServer leaves: no connection, and one deletion more. *)
LEMMA DeleteFacts ==
    ASSUME NEW of \in Ports, NEW del \in Nat, NEW e \in Sessions, DOMAIN e = {}, NEW r,
           r = [of |-> of, deleted |-> del, loop |-> "none", m_httpCB |-> FALSE,
                m_next_sessionid |-> 1, m_connections |-> e]
    PROVE  r \in ServerRec /\ r.of = of /\ r.deleted = del /\ DOMAIN r.m_connections = {}
BY DEF ServerRec, Loops

-----------------------------------------------------------------------------
(* A step that changes neither what server objects there are nor the       *)
(* owner's variables keeps LifeInv; one that changes no connection keeps   *)
(* ConnInv.                                                                *)
LEMMA LifeFrame ==
    ASSUME WsTypes, LifeInv, UNCHANGED <<m_acParam, m_wsServer, m_httpServer, owner>>,
           DOMAIN server' = DOMAIN server,
           \A k \in Servers : /\ server'[k].of = server[k].of
                              /\ server'[k].deleted = server[k].deleted
                              /\ server'[k].m_httpCB = server[k].m_httpCB
    PROVE  LifeInv'
<1>1. \A k \in Servers : (Done(k)' <=> Done(k)) /\ (Exempt(k)' <=> Exempt(k))
  BY DEF Done, Exempt, Servers
<1>2. \A k : Fresh(k)' <=> Fresh(k)
  BY DEF Fresh, Servers
<1>3. (m_wsServer # 0 => m_wsServer \in Servers) /\ (m_httpServer # 0 => m_httpServer \in Servers)
  BY DEF WsTypes, Servers
<1>4. Servers' = Servers
  BY DEF Servers
<1>5. BothMade => BothMade'
  <2>1. Fresh(m_wsServer) => Fresh(m_wsServer)'
    BY DEF Fresh, Servers
  <2>2. Fresh(m_httpServer) => Fresh(m_httpServer)'
    BY DEF Fresh, Servers
  <2>3. QED
    BY <1>1, <1>4, <2>1, <2>2 DEF BothMade
<1>6. BothMade /\ server[m_httpServer].m_httpCB => server'[m_httpServer'].m_httpCB
  <2>1. BothMade => server'[m_httpServer'].m_httpCB = server[m_httpServer].m_httpCB
    BY DEF BothMade, Fresh
  <2>2. QED
    BY <2>1, Zenon
<1>7. ASSUME owner = "stop", m_httpServer # 0
      PROVE  IF m_acParam'.http # m_acParam'.ws
             THEN Fresh(m_httpServer)' \/ Exempt(m_httpServer)'
             ELSE Done(m_httpServer)'
  <2>1. m_httpServer \in Servers
    BY <1>3, <1>7
  <2>2. /\ Fresh(m_httpServer)' <=> Fresh(m_httpServer)
        /\ Exempt(m_httpServer)' <=> Exempt(m_httpServer)
        /\ Done(m_httpServer)' <=> Done(m_httpServer)
    BY <2>1 DEF Fresh, Exempt, Done, Servers
  <2>3. IF m_acParam.http # m_acParam.ws
        THEN Fresh(m_httpServer) \/ Exempt(m_httpServer)
        ELSE Done(m_httpServer)
    BY <1>7 DEF LifeInv
  <2>4. QED
    BY <2>2, <2>3
<1>8. /\ owner' = "idle" /\ m_wsServer' = 0 =>
           /\ \A n \in Servers' : Done(n)'
           /\ m_acParam'.http # m_acParam'.ws => m_httpServer' = 0
  BY <1>1, <1>4 DEF LifeInv
<1>9. owner' = "http" => Fresh(m_wsServer)' /\ \A n \in Servers' : n # m_wsServer' => Done(n)'
  <2>1. Fresh(m_wsServer) => Fresh(m_wsServer)'
    BY DEF Fresh, Servers
  <2>2. QED
    BY <1>1, <1>4, <2>1 DEF LifeInv
<1>10. owner' = "callback" => BothMade'
  BY <1>5 DEF LifeInv
<1>11. owner' = "idle" /\ m_wsServer' # 0 => BothMade' /\ server'[m_httpServer'].m_httpCB
  BY <1>5, <1>6 DEF LifeInv
<1>12. owner' = "stop" => m_wsServer' = 0 /\ \A n \in Servers' : n # m_httpServer' => Done(n)'
  BY <1>1, <1>4 DEF LifeInv
<1>13. QED
  BY <1>7, <1>8, <1>9, <1>10, <1>11, <1>12 DEF LifeInv

(* A step that opens and closes no connection, and hands out no session    *)
(* number, keeps ConnInv.                                                  *)
LEMMA ConnFrame ==
    ASSUME ConnInv, open' = open, DOMAIN server' = DOMAIN server,
           \A k \in Servers : /\ server'[k].m_connections = server[k].m_connections
                              /\ server'[k].m_next_sessionid = server[k].m_next_sessionid
    PROVE  ConnInv'
BY DEF ConnInv, Servers

(* Deleting a server ends its connections. *)
LEMMA DeleteStep ==
    ASSUME WsTypes, ConnInv, NEW n \in Servers, StopAndDelete(n)
    PROVE  /\ server' \in Seq(ServerRec) /\ Len(server') = Len(server)
           /\ open' \in [Conns -> 0 .. Len(server)]
           /\ Servers' = Servers
           /\ server'[n].of = server[n].of /\ server'[n].deleted = server[n].deleted + 1
           /\ \A k \in Servers : k # n => server'[k] = server[k]
           /\ ConnInv'
<1>1. server \in Seq(ServerRec) /\ n \in DOMAIN server /\ server[n] \in ServerRec
  BY DEF WsTypes, Servers
<1>2. PICK of \in Ports, del \in Nat : of = server[n].of /\ del = server[n].deleted + 1
  BY <1>1 DEF ServerRec
<1>11. PICK e \in Sessions : e = [c \in {} |-> 0] /\ DOMAIN e = {}
  BY SessionsFacts
<1>10. PICK r : r = [of |-> of, deleted |-> del, loop |-> "none", m_httpCB |-> FALSE,
                     m_next_sessionid |-> 1, m_connections |-> e]
  OBVIOUS
<1>3. /\ r \in ServerRec /\ r.of = of /\ r.deleted = del
      /\ DOMAIN r.m_connections = {}
  BY <1>10, <1>11, DeleteFacts
<1>4. server' = [server EXCEPT ![n] = r]
  <2>1. [NewServer(server[n].of, FALSE) EXCEPT !.deleted = server[n].deleted + 1] = r
    <3>1. [NewServer(of, FALSE) EXCEPT !.deleted = del] = r
      <4>1. PICK q : q = [NewServer(of, FALSE) EXCEPT !.deleted = del]
        OBVIOUS
      <4>2. q = [of |-> of, deleted |-> del, loop |-> "none", m_httpCB |-> FALSE,
                 m_next_sessionid |-> 1, m_connections |-> e]
        BY <1>11, <4>1 DEF NewServer
      <4>3. QED
        BY <1>10, <4>1, <4>2
    <3>2. QED
      BY <1>2, <3>1
  <2>2. QED
    BY <1>1, <2>1 DEF StopAndDelete
<1>5. /\ server' \in Seq(ServerRec) /\ Len(server') = Len(server) /\ Servers' = Servers
      /\ server'[n] = r /\ \A k \in Servers : k # n => server'[k] = server[k]
  BY <1>1, <1>3, <1>4 DEF Servers
<1>6. open' = [c \in Conns |-> IF open[c] = n THEN 0 ELSE open[c]]
  BY DEF StopAndDelete
<1>7. open' \in [Conns -> 0 .. Len(server)] /\ n # 0
  BY <1>1, <1>6 DEF WsTypes
<1>8. ConnInv'
  <2>1. ASSUME NEW k \in Servers, k # n
        PROVE  {c \in Conns : open'[c] = k} = {c \in Conns : open[c] = k}
    <3>1. k # 0
      BY <1>1 DEF Servers
    <3>2. QED
      BY <1>6, <2>1, <3>1
  <2>2. {c \in Conns : open'[c] = n} = {}
    BY <1>6, <1>7
  <2>3. ASSUME NEW k \in Servers
        PROVE  LET cons == server'[k].m_connections
               IN  /\ DOMAIN cons = {c \in Conns : open'[c] = k}
                   /\ \A c \in DOMAIN cons : cons[c] < server'[k].m_next_sessionid
                   /\ \A c, d \in DOMAIN cons : cons[c] = cons[d] => c = d
    <3>1. CASE k = n
      BY <1>3, <1>5, <2>2, <3>1
    <3>2. CASE k # n
      BY <1>5, <2>1, <3>2 DEF ConnInv
    <3>3. QED
      BY <3>1, <3>2
  <2>4. QED
    BY <1>5, <2>3 DEF ConnInv
<1>9. QED
  BY <1>2, <1>3, <1>5, <1>7, <1>8

(* What the steps keep together. *)
ServerInv == WsTypes /\ LifeInv /\ ConnInv

(* StartAction: the websocket server. *)
LEMMA StartWsStep == ASSUME ServerInv, NEW param \in Ports, StartWs(param) PROVE ServerInv'
<1> USE DEF ServerInv
<1>1. server \in Seq(ServerRec) /\ Len(server) \in Nat /\ open \in [Conns -> 0 .. Len(server)]
      /\ m_httpServer \in 0 .. Len(server)
  BY DEF WsTypes
<1>2. PICK n \in Nat, s \in Seq(ServerRec) : n = Len(server) /\ s = server
  BY <1>1
<1>3. PICK r \in ServerRec : /\ server' = Append(s, r) /\ r.of = param /\ r.deleted = 0
                             /\ DOMAIN r.m_connections = {}
  <2>1. PICK threaded \in BOOLEAN : NewServer(param, param.ws > 0) = NewServer(param, threaded)
    <3>1. CASE param.ws > 0
      BY <3>1 DEF NewServer
    <3>2. CASE ~(param.ws > 0)
      BY <3>2 DEF NewServer
    <3>3. QED
      BY <3>1, <3>2
  <2>2. PICK r : r = NewServer(param, threaded)
    OBVIOUS
  <2>3. r \in ServerRec /\ r.of = param /\ r.deleted = 0 /\ DOMAIN r.m_connections = {}
    BY <2>2, NewServerFacts
  <2>4. QED
    BY <1>2, <2>1, <2>2, <2>3 DEF StartWs
<1>4. /\ server' \in Seq(ServerRec) /\ Len(server') = n + 1 /\ DOMAIN server' = DOMAIN server \cup {n + 1}
      /\ server'[n + 1] = r /\ \A k \in DOMAIN server : server'[k] = server[k] /\ k # n + 1
  BY <1>2, <1>3, AddServer
<1>5. /\ owner = "idle" /\ owner' = "http" /\ m_wsServer = 0 /\ m_wsServer' = n + 1
      /\ m_acParam' = param /\ open' = open /\ m_httpServer' = m_httpServer
  BY <1>2 DEF StartWs
<1>6. WsTypes'
  BY <1>1, <1>2, <1>4, <1>5 DEF WsTypes
<1>7. LifeInv'
  <2>1. \A k \in Servers : Done(k)
    BY <1>5 DEF LifeInv
  <2>2. \A k \in Servers' : k # n + 1 => Done(k)'
    BY <1>4, <2>1 DEF Done, Exempt, Servers
  <2>3. Fresh(m_wsServer)'
    BY <1>3, <1>4, <1>5 DEF Fresh, Servers
  <2>4. QED
    BY <1>5, <2>2, <2>3 DEF LifeInv
<1>8. ConnInv'
  <2>1. {c \in Conns : open'[c] = n + 1} = {}
    BY <1>1, <1>2, <1>5
  <2>2. QED
    BY <1>3, <1>4, <1>5, <2>1 DEF ConnInv, Servers
<1>9. QED
  BY <1>6, <1>7, <1>8

(* StartAction: the HTTP server, a second one or the same. *)
LEMMA StartHttpStep == ASSUME ServerInv, StartHttp PROVE ServerInv'
<1> USE DEF ServerInv
<1>1. server \in Seq(ServerRec) /\ Len(server) \in Nat /\ open \in [Conns -> 0 .. Len(server)]
      /\ m_httpServer \in 0 .. Len(server) /\ m_wsServer \in 0 .. Len(server)
      /\ m_acParam \in Ports
  BY DEF WsTypes
<1>2. /\ owner = "http" /\ owner' = "callback" /\ m_acParam' = m_acParam
      /\ m_wsServer' = m_wsServer /\ open' = open
  BY DEF StartHttp
<1>3. Fresh(m_wsServer) /\ \A k \in Servers : k # m_wsServer => Done(k)
  BY <1>2 DEF LifeInv
<1>4. CASE TwoServers(m_acParam)
  <2>2. PICK n \in Nat, s \in Seq(ServerRec) : n = Len(server) /\ s = server
    BY <1>1
  <2>3. PICK r \in ServerRec : /\ server' = Append(s, r) /\ r.of = m_acParam /\ r.deleted = 0
                               /\ DOMAIN r.m_connections = {}
    <3>1. PICK param \in Ports : param = m_acParam
      BY <1>1
    <3>2. PICK r : r = NewServer(param, TRUE)
      OBVIOUS
    <3>3. r \in ServerRec /\ r.of = param /\ r.deleted = 0 /\ DOMAIN r.m_connections = {}
      BY <3>2, NewServerFacts
    <3>4. QED
      BY <1>4, <2>2, <3>1, <3>2, <3>3 DEF StartHttp
  <2>4. /\ server' \in Seq(ServerRec) /\ Len(server') = n + 1
        /\ DOMAIN server' = DOMAIN server \cup {n + 1}
        /\ server'[n + 1] = r /\ \A k \in DOMAIN server : server'[k] = server[k] /\ k # n + 1
    BY <2>2, <2>3, AddServer
  <2>5. m_httpServer' = n + 1
    BY <1>4, <2>2 DEF StartHttp
  <2>6. WsTypes'
    BY <1>1, <1>2, <2>2, <2>4, <2>5 DEF WsTypes
  <2>7. LifeInv'
    <3>1. \A k \in Servers : (Done(k)' <=> Done(k)) /\ k # n + 1
      BY <2>4 DEF Done, Exempt, Servers
    <3>2. Fresh(m_wsServer)' /\ m_wsServer # n + 1
      BY <1>2, <1>3, <2>4 DEF Fresh, Servers
    <3>3. Fresh(m_httpServer)'
      BY <1>2, <2>3, <2>4, <2>5 DEF Fresh, Servers
    <3>4. TwoServers(m_acParam)'
      BY <1>2, <1>4 DEF TwoServers
    <3>5. \A k \in Servers' : k \in Servers \/ k = n + 1
      BY <2>4 DEF Servers
    <3>6. BothMade'
      BY <1>2, <1>3, <2>5, <3>1, <3>2, <3>3, <3>4, <3>5 DEF BothMade
    <3>7. QED
      BY <1>2, <3>6 DEF LifeInv
  <2>8. ConnInv'
    <3>1. {c \in Conns : open'[c] = n + 1} = {}
      BY <1>1, <1>2, <2>2
    <3>2. QED
      BY <1>2, <2>3, <2>4, <3>1 DEF ConnInv, Servers
  <2>9. QED
    BY <2>6, <2>7, <2>8
<1>5. CASE ~TwoServers(m_acParam)
  <2>1. server' = server /\ m_httpServer' = m_wsServer
    BY <1>5 DEF StartHttp
  <2>2. WsTypes'
    BY <1>1, <1>2, <2>1 DEF WsTypes
  <2>3. ConnInv'
    BY <1>2, <2>1, ConnFrame
  <2>4. BothMade'
    BY <1>2, <1>3, <1>5, <2>1 DEF BothMade, Fresh, Done, Exempt, Servers, TwoServers
  <2>5. LifeInv'
    BY <1>2, <2>4 DEF LifeInv
  <2>6. QED
    BY <2>2, <2>3, <2>5
<1>6. QED
  BY <1>4, <1>5

(* The end of StartAction. *)
LEMMA SetCallBackStep == ASSUME ServerInv, SetHttpMsgCallBack PROVE ServerInv'
<1> USE DEF ServerInv
<1>1. /\ owner = "callback" /\ owner' = "idle"
      /\ UNCHANGED <<m_acParam, m_wsServer, m_httpServer, open>>
      /\ server' = [server EXCEPT ![m_httpServer].m_httpCB = TRUE]
  BY DEF SetHttpMsgCallBack
<1>2. BothMade
  BY <1>1 DEF LifeInv
<1>3. server \in Seq(ServerRec) /\ m_httpServer \in DOMAIN server
  BY <1>2 DEF WsTypes, BothMade, Fresh, Servers
<1>4. PICK s \in ServerRec : s = server[m_httpServer]
  BY <1>3
<1>5. PICK r \in ServerRec :
          /\ r = [s EXCEPT !.m_httpCB = TRUE]
          /\ r.of = s.of /\ r.deleted = s.deleted /\ r.m_httpCB = TRUE
          /\ r.m_connections = s.m_connections /\ r.m_next_sessionid = s.m_next_sessionid
  <2>1. [s EXCEPT !.m_httpCB = TRUE] \in ServerRec
    BY DEF ServerRec
  <2>2. PICK r \in ServerRec : r = [s EXCEPT !.m_httpCB = TRUE]
    BY <2>1
  <2>3. /\ r.of = s.of /\ r.deleted = s.deleted /\ r.m_httpCB = TRUE
        /\ r.m_connections = s.m_connections /\ r.m_next_sessionid = s.m_next_sessionid
    BY <2>2 DEF ServerRec
  <2>4. QED
    BY <2>2, <2>3
<1>6. server' = [server EXCEPT ![m_httpServer] = r]
  BY <1>1, <1>3, <1>4, <1>5
<1>7. /\ server' \in Seq(ServerRec) /\ Len(server') = Len(server) /\ DOMAIN server' = DOMAIN server
      /\ server'[m_httpServer] = r /\ \A k \in DOMAIN server : k # m_httpServer => server'[k] = server[k]
  BY <1>3, <1>6
<1>8. WsTypes'
  BY <1>1, <1>7 DEF WsTypes
<1>9. ConnInv'
  <2>1. \A k \in Servers : /\ server'[k].m_connections = server[k].m_connections
                           /\ server'[k].m_next_sessionid = server[k].m_next_sessionid
    BY <1>4, <1>5, <1>7 DEF Servers
  <2>2. QED
    BY <1>1, <1>7, <2>1, ConnFrame
<1>10. LifeInv'
  <2>1. \A k \in Servers : /\ server'[k].of = server[k].of
                           /\ server'[k].deleted = server[k].deleted
    BY <1>4, <1>5, <1>7 DEF Servers
  <2>2. BothMade'
    BY <1>1, <1>2, <1>7, <2>1 DEF BothMade, Fresh, Done, Exempt, Servers, TwoServers
  <2>3. server'[m_httpServer'].m_httpCB
    BY <1>1, <1>5, <1>7
  <2>4. m_wsServer' # 0
    BY <1>1, <1>2, <1>3 DEF BothMade, Fresh, Servers
  <2>5. QED
    BY <1>1, <2>2, <2>3, <2>4 DEF LifeInv
<1>11. QED
  BY <1>8, <1>9, <1>10

(* StopAction: the websocket server. *)
LEMMA StopWsStep == ASSUME ServerInv, StopWs PROVE ServerInv'
<1> USE DEF ServerInv
<1>1. /\ owner = "idle" /\ owner' = "stop" /\ m_wsServer' = 0
      /\ UNCHANGED <<m_acParam, m_httpServer>>
  BY DEF StopWs
<1>2. m_acParam \in Ports /\ m_acParam.ws \in Nat /\ m_acParam.http \in Nat
  BY WSAssumption DEF WsTypes
<1>3. CASE m_wsServer = 0
  <2>1. UNCHANGED <<server, open>>
    BY <1>3 DEF StopWs
  <2>2. WsTypes'
    BY <1>1, <2>1 DEF WsTypes
  <2>3. ConnInv'
    BY <2>1, ConnFrame
  <2>4. (\A n \in Servers : Done(n)) /\ (m_acParam.http # m_acParam.ws => m_httpServer = 0)
    BY <1>1, <1>3 DEF LifeInv
  <2>5. \A n \in Servers : Done(n)'
    BY <2>1, <2>4 DEF Done, Exempt
  <2>6. m_httpServer # 0 => m_httpServer \in Servers
    BY DEF WsTypes, Servers
  <2>7. Servers' = Servers
    BY <2>1 DEF Servers
  <2>8. m_httpServer' # 0 => Done(m_httpServer)' /\ m_acParam'.http = m_acParam'.ws
    BY <1>1, <2>4, <2>5, <2>6
  <2>9. LifeInv'
    BY <1>1, <2>5, <2>7, <2>8 DEF LifeInv
  <2>10. QED
    BY <2>2, <2>3, <2>9
<1>4. CASE m_wsServer # 0
  <2>1. BothMade /\ StopAndDelete(m_wsServer)
    BY <1>1, <1>4 DEF LifeInv, StopWs
  <2>2. PICK w \in Servers : w = m_wsServer
    BY <2>1 DEF BothMade, Fresh
  <2>3. /\ server' \in Seq(ServerRec) /\ Len(server') = Len(server)
        /\ open' \in [Conns -> 0 .. Len(server)]
        /\ Servers' = Servers
        /\ server'[w].of = server[w].of /\ server'[w].deleted = server[w].deleted + 1
        /\ \A k \in Servers : k # w => server'[k] = server[k]
        /\ ConnInv'
    BY <2>1, <2>2, DeleteStep
  <2>4. WsTypes'
    BY <1>1, <2>3 DEF WsTypes
  <2>5. server[w].deleted = 0 /\ server[w].of = m_acParam
    BY <2>1, <2>2 DEF BothMade, Fresh
  <2>6. Done(w)'
    BY <2>3, <2>5 DEF Done
  <2>7. \A k \in Servers : k \notin {w, m_httpServer} => Done(k)'
    BY <2>1, <2>2, <2>3 DEF BothMade, Done, Exempt
  <2>8. CASE m_httpServer = w
    <3>1. ~TwoServers(m_acParam)
      BY <2>1, <2>2, <2>8 DEF BothMade
    <3>2. m_acParam.http # m_acParam.ws => m_acParam.http = 0 /\ m_acParam.ws # 0
      BY <1>2, <3>1 DEF TwoServers
    <3>3. m_acParam'.http # m_acParam'.ws => Exempt(m_httpServer)'
      BY <1>1, <2>3, <2>5, <2>8, <3>2 DEF Exempt
    <3>4. LifeInv'
      BY <1>1, <2>3, <2>6, <2>7, <2>8, <3>3 DEF LifeInv
    <3>5. QED
      BY <2>3, <2>4, <3>4
  <2>9. CASE m_httpServer # w
    <3>1. TwoServers(m_acParam)
      BY <2>1, <2>2, <2>9 DEF BothMade
    <3>2. m_acParam'.http # m_acParam'.ws
      BY <1>1, <3>1 DEF TwoServers
    <3>3. Fresh(m_httpServer)'
      BY <1>1, <2>1, <2>3, <2>9 DEF BothMade, Fresh
    <3>4. LifeInv'
      BY <1>1, <2>3, <2>6, <2>7, <3>2, <3>3 DEF LifeInv
    <3>5. QED
      BY <2>3, <2>4, <3>4
  <2>10. QED
    BY <2>8, <2>9
<1>5. QED
  BY <1>3, <1>4

(* StopAction: the HTTP server. *)
LEMMA StopHttpStep == ASSUME ServerInv, StopHttp PROVE ServerInv'
<1> USE DEF ServerInv
<1>1. /\ owner = "stop" /\ owner' = "idle" /\ UNCHANGED <<m_acParam, m_wsServer>>
  BY DEF StopHttp
<1>2. /\ m_wsServer = 0
      /\ \A n \in Servers : n # m_httpServer => Done(n)
      /\ m_httpServer # 0 =>
             IF m_acParam.http # m_acParam.ws
             THEN Fresh(m_httpServer) \/ Exempt(m_httpServer)
             ELSE Done(m_httpServer)
  BY <1>1 DEF LifeInv
<1>3. CASE StopsHttp
  <2>1. StopAndDelete(m_httpServer) /\ m_httpServer' = 0
    BY <1>3 DEF StopHttp
  <2>2. PICK h \in Servers : h = m_httpServer
    BY <1>3 DEF StopsHttp, WsTypes, Servers
  <2>3. /\ server' \in Seq(ServerRec) /\ Len(server') = Len(server)
        /\ open' \in [Conns -> 0 .. Len(server)]
        /\ Servers' = Servers
        /\ server'[h].of = server[h].of /\ server'[h].deleted = server[h].deleted + 1
        /\ \A k \in Servers : k # h => server'[k] = server[k]
        /\ ConnInv'
    BY <2>1, <2>2, DeleteStep
  <2>4. WsTypes'
    BY <1>1, <2>1, <2>3 DEF WsTypes
  <2>5. Fresh(h) \/ Exempt(h)
    BY <1>2, <1>3, <2>2 DEF StopsHttp
  <2>6. Done(h)'
    <3>1. CASE Fresh(h)
      BY <2>3, <3>1 DEF Fresh, Done
    <3>2. CASE Exempt(h)
      BY <2>3, <3>2 DEF Exempt, Done
    <3>3. QED
      BY <2>5, <3>1, <3>2
  <2>7. \A k \in Servers : k # h => Done(k)'
    BY <1>2, <2>2, <2>3 DEF Done, Exempt
  <2>8. LifeInv'
    BY <1>1, <1>2, <2>1, <2>3, <2>6, <2>7 DEF LifeInv
  <2>9. QED
    BY <2>3, <2>4, <2>8
<1>4. CASE ~StopsHttp
  <2>1. UNCHANGED <<server, open, m_httpServer>>
    BY <1>4 DEF StopHttp
  <2>2. WsTypes'
    BY <1>1, <2>1 DEF WsTypes
  <2>3. ConnInv'
    BY <2>1, ConnFrame
  <2>4. \A k \in Servers : Done(k)
    <3>1. 0 \notin Servers
      BY DEF WsTypes, Servers
    <3>2. QED
      BY <1>2, <1>4, <3>1 DEF StopsHttp
  <2>5. \A k \in Servers' : Done(k)'
    BY <2>1, <2>4 DEF Done, Exempt, Servers
  <2>6. m_acParam'.http # m_acParam'.ws => m_httpServer' = 0
    BY <1>1, <1>4, <2>1 DEF StopsHttp
  <2>7. LifeInv'
    BY <1>1, <1>2, <2>5, <2>6 DEF LifeInv
  <2>8. QED
    BY <2>2, <2>3, <2>7
<1>5. QED
  BY <1>3, <1>4

(* A step of a loop thread gives one server new contents r and leaves the  *)
(* owner's variables alone.                                                *)
LEMMA LoopStep ==
    ASSUME ServerInv, NEW n \in Servers, NEW r \in ServerRec,
           server' = [server EXCEPT ![n] = r],
           r.of = server[n].of, r.deleted = server[n].deleted, r.m_httpCB = server[n].m_httpCB,
           UNCHANGED <<m_acParam, m_wsServer, m_httpServer, owner>>,
           open' \in [Conns -> 0 .. Len(server)]
    PROVE  /\ WsTypes' /\ LifeInv'
           /\ DOMAIN server' = DOMAIN server /\ server'[n] = r
           /\ \A k \in Servers : k # n => server'[k] = server[k]
<1> USE DEF ServerInv
<1>1. server \in Seq(ServerRec) /\ n \in DOMAIN server
  BY DEF WsTypes, Servers
<1>2. /\ server' \in Seq(ServerRec) /\ Len(server') = Len(server) /\ DOMAIN server' = DOMAIN server
      /\ server'[n] = r /\ \A k \in Servers : k # n => server'[k] = server[k]
  BY <1>1 DEF Servers
<1>3. WsTypes'
  BY <1>2 DEF WsTypes
<1>4. \A k \in Servers : /\ server'[k].of = server[k].of
                         /\ server'[k].deleted = server[k].deleted
                         /\ server'[k].m_httpCB = server[k].m_httpCB
  BY <1>2
<1>5. LifeInv'
  BY <1>2, <1>4, LifeFrame
<1>6. QED
  BY <1>2, <1>3, <1>5

(* StartRun, as the body of a loop thread, keeps the servers consistent. *)
LEMMA StartRunStep == ASSUME ServerInv, NEW n \in Servers, StartRunServer(n) PROVE ServerInv'
<1> USE DEF ServerInv
<1>1. server \in Seq(ServerRec) /\ n \in DOMAIN server
  BY DEF WsTypes, Servers
<1>2. PICK s \in ServerRec : s = server[n]
  BY <1>1
<1>3. PICK x \in {"run", "failed"} : server' = [server EXCEPT ![n].loop = x]
  BY DEF StartRunServer
<1>4. PICK r : r = [s EXCEPT !.loop = x]
  OBVIOUS
<1>5. r \in ServerRec
  BY <1>4 DEF ServerRec, Loops
<1>6. /\ r.of = s.of /\ r.deleted = s.deleted /\ r.m_httpCB = s.m_httpCB
      /\ r.m_connections = s.m_connections /\ r.m_next_sessionid = s.m_next_sessionid
  BY <1>4 DEF ServerRec
<1>7. server' = [server EXCEPT ![n] = r]
  BY <1>1, <1>2, <1>3, <1>4
<1>8. UNCHANGED <<m_acParam, m_wsServer, m_httpServer, owner, open>>
  BY DEF StartRunServer
<1>9. open' \in [Conns -> 0 .. Len(server)]
  BY <1>8 DEF WsTypes
<1>10. /\ WsTypes' /\ LifeInv'
       /\ DOMAIN server' = DOMAIN server /\ server'[n] = r
       /\ \A k \in Servers : k # n => server'[k] = server[k]
  BY <1>2, <1>5, <1>6, <1>7, <1>8, <1>9, LoopStep
<1>11. ConnInv'
  <2>1. \A k \in Servers : /\ server'[k].m_connections = server[k].m_connections
                           /\ server'[k].m_next_sessionid = server[k].m_next_sessionid
    BY <1>2, <1>6, <1>10
  <2>2. QED
    BY <1>8, <1>10, <2>1, ConnFrame
<1>12. QED
  BY <1>10, <1>11

(* on_open (WebScoketServer.cpp:89-100): the session number is new. *)
LEMMA OpenStep ==
    ASSUME ServerInv, NEW n \in Servers, NEW c \in Conns, on_open(n, c) PROVE ServerInv'
<1> USE DEF ServerInv
<1>1. server \in Seq(ServerRec) /\ n \in DOMAIN server /\ n # 0 /\ n \in 0 .. Len(server)
  BY DEF WsTypes, Servers
<1>2. PICK s \in ServerRec : s = server[n]
  BY <1>1
<1>3. PICK id \in Nat, cons \in Sessions : id = s.m_next_sessionid /\ cons = s.m_connections
  BY DEF ServerRec
<1>4. PICK new \in Sessions : new = [d \in DOMAIN cons \cup {c} |-> IF d = c THEN id ELSE cons[d]]
  BY SessionsFacts
<1>5. PICK r : r = [s EXCEPT !.m_next_sessionid = id + 1, !.m_connections = new]
  OBVIOUS
<1>6. r \in ServerRec
  <2>1. PICK q : q = [s EXCEPT !.m_next_sessionid = id + 1]
    OBVIOUS
  <2>2. q \in ServerRec
    BY <2>1 DEF ServerRec
  <2>3. [q EXCEPT !.m_connections = new] \in ServerRec
    BY <2>2 DEF ServerRec
  <2>4. r = [q EXCEPT !.m_connections = new]
    BY <1>5, <2>1
  <2>5. QED
    BY <2>3, <2>4
<1>7. /\ r.of = s.of /\ r.deleted = s.deleted /\ r.m_httpCB = s.m_httpCB
      /\ r.m_connections = new /\ r.m_next_sessionid = id + 1
  BY <1>5 DEF ServerRec
<1>8. server' = [server EXCEPT ![n] = r]
  <2>1. server' = [server EXCEPT ![n].m_next_sessionid = id + 1, ![n].m_connections = new]
    BY <1>2, <1>3, <1>4 DEF on_open
  <2>2. QED
    BY <1>1, <1>2, <1>5, <2>1
<1>9. /\ UNCHANGED <<m_acParam, m_wsServer, m_httpServer, owner>>
      /\ open[c] = 0 /\ open' = [open EXCEPT ![c] = n]
  BY DEF on_open
<1>10. open' \in [Conns -> 0 .. Len(server)]
  BY <1>1, <1>9 DEF WsTypes
<1>11. /\ WsTypes' /\ LifeInv'
       /\ DOMAIN server' = DOMAIN server /\ server'[n] = r
       /\ \A k \in Servers : k # n => server'[k] = server[k]
  BY <1>2, <1>6, <1>7, <1>8, <1>9, <1>10, LoopStep
<1>12. ConnInv'
  <2>1. /\ DOMAIN cons = {d \in Conns : open[d] = n}
        /\ \A d \in DOMAIN cons : cons[d] < id
        /\ \A d, f \in DOMAIN cons : cons[d] = cons[f] => d = f
    BY <1>2, <1>3 DEF ConnInv
  <2>2. /\ DOMAIN new = {d \in Conns : open'[d] = n}
        /\ \A d \in DOMAIN new : new[d] < id + 1
        /\ \A d, f \in DOMAIN new : new[d] = new[f] => d = f
    <3>1. \A d \in DOMAIN cons : cons[d] \in Nat
      BY SessionsFacts
    <3>2. c \notin DOMAIN cons
      BY <1>1, <1>9, <2>1
    <3>3. DOMAIN new = DOMAIN cons \cup {c} /\ new[c] = id
          /\ \A d \in DOMAIN cons : new[d] = cons[d]
      BY <1>4, <3>2
    <3>4. {d \in Conns : open'[d] = n} = {d \in Conns : open[d] = n} \cup {c}
      BY <1>9 DEF WsTypes
    <3>5. QED
      BY <2>1, <3>1, <3>2, <3>3, <3>4
  <2>3. ASSUME NEW k \in Servers, k # n
        PROVE  {d \in Conns : open'[d] = k} = {d \in Conns : open[d] = k}
    <3>1. k # 0
      BY <1>1 DEF Servers
    <3>2. QED
      BY <1>9, <2>3, <3>1 DEF WsTypes
  <2>4. QED
    BY <1>7, <1>11, <2>2, <2>3 DEF ConnInv, Servers
<1>13. QED
  BY <1>11, <1>12

(* on_close (WebScoketServer.cpp:102-111). *)
LEMMA CloseStep ==
    ASSUME ServerInv, NEW n \in Servers, NEW c \in Conns, on_close(n, c) PROVE ServerInv'
<1> USE DEF ServerInv
<1>1. server \in Seq(ServerRec) /\ n \in DOMAIN server /\ n # 0
  BY DEF WsTypes, Servers
<1>2. PICK s \in ServerRec : s = server[n]
  BY <1>1
<1>3. PICK id \in Nat, cons \in Sessions : id = s.m_next_sessionid /\ cons = s.m_connections
  BY DEF ServerRec
<1>4. PICK new \in Sessions : new = Erase(cons, c)
  BY SessionsFacts
<1>5. PICK r : r = [s EXCEPT !.m_connections = new]
  OBVIOUS
<1>6. r \in ServerRec
  BY <1>5 DEF ServerRec
<1>7. /\ r.of = s.of /\ r.deleted = s.deleted /\ r.m_httpCB = s.m_httpCB
      /\ r.m_connections = new /\ r.m_next_sessionid = id
  <2>1. /\ r.of = s.of /\ r.deleted = s.deleted /\ r.m_httpCB = s.m_httpCB
        /\ r.m_connections = new /\ r.m_next_sessionid = s.m_next_sessionid
    BY <1>5 DEF ServerRec
  <2>2. QED
    BY <1>3, <2>1
<1>8. server' = [server EXCEPT ![n] = r]
  <2>1. server' = [server EXCEPT ![n].m_connections = Erase(server[n].m_connections, c)]
    BY <1>1 DEF on_close
  <2>2. server' = [server EXCEPT ![n].m_connections = new]
    BY <1>2, <1>3, <1>4, <2>1
  <2>3. QED
    BY <1>1, <1>2, <1>5, <2>2
<1>9. /\ UNCHANGED <<m_acParam, m_wsServer, m_httpServer, owner>>
      /\ open[c] = n /\ open' = [open EXCEPT ![c] = 0]
  BY DEF on_close
<1>10. open' \in [Conns -> 0 .. Len(server)]
  BY <1>1, <1>9 DEF WsTypes
<1>11. /\ WsTypes' /\ LifeInv'
       /\ DOMAIN server' = DOMAIN server /\ server'[n] = r
       /\ \A k \in Servers : k # n => server'[k] = server[k]
  BY <1>2, <1>6, <1>7, <1>8, <1>9, <1>10, LoopStep
<1>12. ConnInv'
  <2>1. /\ DOMAIN cons = {d \in Conns : open[d] = n}
        /\ \A d \in DOMAIN cons : cons[d] < id
        /\ \A d, f \in DOMAIN cons : cons[d] = cons[f] => d = f
    BY <1>2, <1>3 DEF ConnInv
  <2>2. /\ DOMAIN new = {d \in Conns : open'[d] = n}
        /\ \A d \in DOMAIN new : new[d] < id
        /\ \A d, f \in DOMAIN new : new[d] = new[f] => d = f
    <3>1. DOMAIN new = DOMAIN cons \ {c} /\ \A d \in DOMAIN new : new[d] = cons[d]
      BY <1>4 DEF Erase
    <3>2. {d \in Conns : open'[d] = n} = {d \in Conns : open[d] = n} \ {c}
      BY <1>1, <1>9 DEF WsTypes
    <3>3. QED
      BY <2>1, <3>1, <3>2
  <2>3. ASSUME NEW k \in Servers, k # n
        PROVE  {d \in Conns : open'[d] = k} = {d \in Conns : open[d] = k}
    <3>1. k # 0
      BY <1>1 DEF Servers
    <3>2. QED
      BY <1>9, <2>3, <3>1 DEF WsTypes
  <2>4. QED
    BY <1>7, <1>11, <2>2, <2>3 DEF ConnInv, Servers
<1>13. QED
  BY <1>11, <1>12

-----------------------------------------------------------------------------
(* Every step of owner, loop threads and clients keeps the servers         *)
(* consistent.                                                             *)
LEMMA ServerInvStep == ServerInv /\ [Next]_wsvars => ServerInv'
<1> SUFFICES ASSUME ServerInv, [Next]_wsvars
             PROVE  ServerInv'
  OBVIOUS
<1>1. ASSUME UNCHANGED <<m_acParam, m_wsServer, m_httpServer, server, owner, open>>
      PROVE  ServerInv'
  <2>1. WsTypes'
    BY <1>1 DEF ServerInv, WsTypes
  <2>2. ConnInv'
    BY <1>1, ConnFrame DEF ServerInv
  <2>3. LifeInv'
    BY <1>1, LifeFrame DEF ServerInv
  <2>4. QED
    BY <2>1, <2>2, <2>3 DEF ServerInv
<1>2. ASSUME NEW p \in Paths \ {Outside}, NEW h \in Handlers, NEW m \in Methods \cup {"ANY"},
             RegisterApi(p, h, m)
      PROVE  ServerInv'
  BY <1>1, <1>2 DEF RegisterApi
<1>3. ASSUME NEW n \in Servers, NEW p \in Paths, NEW m \in Methods, NEW q \in Queries,
             on_http(n, p, m, q)
      PROVE  ServerInv'
  BY <1>1, <1>3 DEF on_http
<1>4. CASE Answered
  BY <1>1, <1>4 DEF Answered
<1>5. CASE UNCHANGED wsvars
  BY <1>1, <1>5 DEF wsvars
<1>6. QED
  BY <1>2, <1>3, <1>4, <1>5, StartWsStep, StartHttpStep, SetCallBackStep, StopWsStep,
     StopHttpStep, StartRunStep, OpenStep, CloseStep DEF Next

(* An answer is given by the table as it is when on_http runs; the record  *)
(* of it is gone before anything else happens.                             *)
LEMMA AnswerStep ==
    ServerInv /\ TableInv /\ LastRegistered /\ [Next]_wsvars => LastRegistered'
<1> SUFFICES ASSUME ServerInv, TableInv, LastRegistered, [Next]_wsvars
             PROVE  LastRegistered'
  OBVIOUS
<1>1. ASSUME NEW n \in Servers, NEW p \in Paths, NEW m \in Methods, NEW q \in Queries,
             on_http(n, p, m, q)
      PROVE  LastRegistered'
  <2> SUFFICES ASSUME reply'.method # "DELETE", owner' = "idle", m_wsServer' # 0,
                      reply'.server = m_httpServer'
               PROVE  reply'.code # 400 /\ reply'.handler = Registered(reply.path, reply.method)'
    BY DEF LastRegistered
  <2>1. UNCHANGED <<m_acParam, m_wsServer, m_httpServer, server, owner, m_apiMapList, open, regs>>
    BY <1>1 DEF on_http
  <2>2. PICK handler : handler = HandleHttpMsg(p, m)
    OBVIOUS
  <2>3. /\ reply'.server = n /\ reply'.path = p /\ reply'.method = m
        /\ reply'.code = CASE ~server[n].m_httpCB -> 400
                           [] handler = NoHandler -> 501
                           [] OTHER -> 200
        /\ reply'.handler = IF server[n].m_httpCB /\ handler # NoHandler THEN handler ELSE NoHandler
    BY <1>1, <2>2 DEF on_http
  <2>4. server[n].m_httpCB
    BY <2>1, <2>3 DEF ServerInv, LifeInv
  <2>5. reply'.code # 400 /\ reply'.handler = handler
    BY <2>3, <2>4
  <2>6. handler = GetApi(p, m)
    BY <2>2, <2>3 DEF HandleHttpMsg, GetMethodWithStr
  <2>7. GetApi(p, m) = Registered(p, m)
    BY GetApiRegistered
  <2>8. Registered(reply.path, reply.method)' = Registered(p, m)
    BY <2>1, <2>3 DEF Registered
  <2>9. QED
    BY <2>5, <2>6, <2>7, <2>8
<1>2. ASSUME reply' = NoReply PROVE LastRegistered'
  BY <1>2 DEF LastRegistered
<1>3. CASE UNCHANGED wsvars
  BY <1>3 DEF wsvars, LastRegistered, Registered
<1>4. QED
  BY <1>1, <1>2, <1>3
     DEF Next, Answered, StartWs, StartHttp, SetHttpMsgCallBack, StopWs, StopHttp, RegisterApi,
         StartRunServer, on_open, on_close, Quiet

(* The inductive invariant. *)
LEMMA WsInvariant == Spec => []WsInv
<1>1. Init => WsInv
  <2> SUFFICES ASSUME Init PROVE WsInv
    OBVIOUS
  <2>1. WsTypes
    BY DEF Init, WsTypes
  <2>2. Servers = {}
    BY DEF Init, Servers
  <2>3. LifeInv
    BY <2>2 DEF Init, LifeInv
  <2>4. ConnInv
    BY <2>2 DEF ConnInv
  <2>5. TableInv
    <3>1. DOMAIN m_apiMapList = {} /\ regs = <<>>
      BY DEF Init
    <3>2. IsTable(m_apiMapList) /\ regs \in Seq(Reg)
      BY <3>1 DEF IsTable
    <3>3. \A p, m : Fits(p, m) = {}
      BY <3>1 DEF Fits
    <3>4. \A p, m, h : ~Holds(m_apiMapList, p, m, h)
      BY <3>1 DEF Holds
    <3>5. QED
      BY <3>2, <3>3, <3>4 DEF TableInv
  <2>6. LastRegistered
    BY DEF Init, LastRegistered
  <2>7. QED
    BY <2>1, <2>3, <2>4, <2>5, <2>6 DEF WsInv
<1>2. WsInv /\ [Next]_wsvars => WsInv'
  BY ServerInvStep, TableStep, AnswerStep DEF WsInv, ServerInv
<1>3. QED
  BY <1>1, <1>2, PTL DEF Spec

(* The pointers lead to servers that were made, m_wsServer to one that     *)
(* still exists, and m_connections of a server (WebScoketServer.cpp:89-111)*)
(* is exactly the connections open at it, each with a number of its own.   *)
THEOREM WsTypeCorrect == Spec => []TypeOKWs
<1>1. WsInv => TypeOKWs
  <2> SUFFICES ASSUME WsInv PROVE TypeOKWs
    OBVIOUS
  <2> USE DEF WsInv
  <2>1. m_wsServer # 0 => server[m_wsServer].deleted = 0
    BY DEF WsTypes, LifeInv, BothMade, Fresh
  <2>2. ASSUME NEW n \in Servers
        PROVE  LET cons == server[n].m_connections
               IN  /\ server[n].loop \in {"none", "created", "run", "failed"}
                   /\ DOMAIN cons = {c \in Conns : open[c] = n}
                   /\ \A c, d \in DOMAIN cons : cons[c] = cons[d] => c = d
    <3>1. server[n] \in ServerRec
      BY DEF WsTypes, Servers
    <3>2. server[n].loop \in {"none", "created", "run", "failed"}
      BY <3>1 DEF ServerRec, Loops
    <3>3. QED
      BY <3>2 DEF ConnInv
  <2>3. QED
    BY <2>1, <2>2 DEF WsTypes, TypeOKWs
<1>2. QED
  BY <1>1, WsInvariant, PTL

(* StopAction (WSAndHttpManager.cpp:207-222) deletes every server that     *)
(* StartAction made, and once, for all ports but an HTTP port of 0 beside  *)
(* a websocket port.                                                       *)
THEOREM Deleted == Spec => []DeletedOnce
<1>1. WsInv => DeletedOnce
  BY DEF WsInv, LifeInv, DeletedOnce, Done, Exempt
<1>2. QED
  BY <1>1, WsInvariant, PTL

(* A request to the HTTP server is answered by the handler registered last *)
(* for its path and method, for every sequence of RegisterApi and every    *)
(* moment of the request after StartAction has returned.                   *)
THEOREM Answers == Spec => []LastRegistered
<1>1. WsInv => LastRegistered
  BY DEF WsInv
<1>2. QED
  BY <1>1, WsInvariant, PTL

-----------------------------------------------------------------------------
(* One parameter as a client sends it (Encode). *)
Pair(kv) == Escape(kv[1]) \o <<"=">> \o Escape(kv[2])

(* The state in which ParseQueryParams begins. *)
First == [inKey |-> TRUE, key |-> 1, value |-> 0, key_len |-> 0, value_len |-> 0,
          params |-> [k \in {} |-> <<>>]]

(* Three folds over a sequence are unfolded here: "parse" is the loop of    *)
(* ParseQueryParams, "text" that of Encode, "params" the one of QueryExact.   *)
(* Base is what each begins with, One what an element adds.                  *)
Base(f) == IF f = "parse" THEN First ELSE IF f = "text" THEN <<>> ELSE [k \in {} |-> <<>>]

One(f, q, s, x) ==
    IF f = "parse" THEN ParseChar(q, s, x)
    ELSE IF f = "text" THEN (IF s = <<>> THEN Pair(x) ELSE s \o <<"&">> \o Pair(x))
    ELSE AddParam(s, x[1], x[2])

(* FoldLeft applies a function on the sets of indices, from the greatest *)
(* index down; IsFold says that g is that function.                      *)
FoldStep(f, q, e, g, S) ==
    IF S = {} THEN Base(f) ELSE One(f, q, g[S \ {Max(S)}], e[Max(S)])

IsFold(f, q, e, g) == g = [S \in SUBSET DOMAIN e |-> FoldStep(f, q, e, g, S)]

(* The same for one fold each, as FoldLeft of the library expands to it. *)
ParseStep(q, e, g, S) ==
    IF S = {} THEN First ELSE LET x == Max(S) IN ParseChar(q, g[S \ {x}], e[x])
TextStep(e, g, S) ==
    IF S = {} THEN <<>>
    ELSE LET x == Max(S)
         IN  IF g[S \ {x}] = <<>> THEN Pair(e[x]) ELSE g[S \ {x}] \o <<"&">> \o Pair(e[x])
ParamStep(e, g, S) ==
    IF S = {} THEN [k \in {} |-> <<>>]
    ELSE LET x == Max(S) IN AddParam(g[S \ {x}], e[x][1], e[x][2])

(* The indices of a text, over which the parser's loop runs. *)
Ixs(q) == [i \in DOMAIN q |-> i]

(* What the three folds are by the definitions of the library. *)
LEMMA ParseFold == ASSUME NEW q PROVE ParseQueryParams(q) =
   TakeParam(q, (CHOOSE g : g = [S \in SUBSET DOMAIN Ixs(q) |-> ParseStep(q, Ixs(q), g, S)])[DOMAIN Ixs(q)]).params
BY DEF ParseQueryParams, FoldLeft, MapThenFoldSet, ParseStep, First, Ixs

LEMMA TextFold == ASSUME NEW q PROVE Encode(q) =
   (CHOOSE g : g = [S \in SUBSET DOMAIN q |-> TextStep(q, g, S)])[DOMAIN q]
BY DEF Encode, FoldLeft, MapThenFoldSet, TextStep, Pair

(* The parameters of a list, the last value of a key kept: QueryExact's. *)
Params(q) == FoldLeft(LAMBDA params, kv : AddParam(params, kv[1], kv[2]), [k \in {} |-> <<>>], q)

LEMMA ParamFold == ASSUME NEW q PROVE Params(q) =
   (CHOOSE g : g = [S \in SUBSET DOMAIN q |-> ParamStep(q, g, S)])[DOMAIN q]
BY DEF Params, FoldLeft, MapThenFoldSet, ParamStep

(* Induction over the naturals, stated with a set. *)
LEMMA NatSetInduction ==
    ASSUME NEW S, 0 \in S, \A n \in Nat : n \in S => n + 1 \in S
    PROVE  Nat \subseteq S
<1>1. SUFFICES ASSUME Nat \ S # {} PROVE FALSE
  OBVIOUS
<1>2. PICK R : R = OpToRel(<, Nat)
  OBVIOUS
<1>3. IsWellFoundedOn(R, Nat)
  BY <1>2, NatLessThanWellFounded
<1>4. PICK x \in Nat \ S : \A y \in Nat \ S : ~ (<<y, x>> \in R)
  BY <1>1, <1>3, WFMin
<1>5. x # 0 /\ x - 1 \in Nat
  BY <1>4
<1>6. <<x - 1, x>> \in R
  BY <1>2, <1>5 DEF OpToRel
<1>7. QED
  BY <1>4, <1>5, <1>6

(* The greatest index of the first n + 1, and the indices without it. *)
LEMMA MaxRun ==
    ASSUME NEW n \in Nat
    PROVE  Max(1 .. n + 1) = n + 1 /\ (1 .. n + 1) \ {n + 1} = 1 .. n /\ 1 .. n + 1 # {}
<1>1. n + 1 \in 1 .. n + 1 /\ \A y \in 1 .. n + 1 : n + 1 >= y
  OBVIOUS
<1>2. PICK x : x = Max(1 .. n + 1)
  OBVIOUS
<1>3. x \in 1 .. n + 1 /\ \A y \in 1 .. n + 1 : x >= y
  BY <1>1, <1>2, Zenon DEF Max
<1>4. x = n + 1
  BY <1>1, <1>3
<1>5. (1 .. n + 1) \ {n + 1} = 1 .. n
  OBVIOUS
<1>6. QED
  BY <1>1, <1>2, <1>4, <1>5

(* A nonempty set of indices has a greatest one. *)
LEMMA MaxIn ==
    ASSUME NEW n \in Nat, NEW S \in SUBSET (1 .. n), S # {}
    PROVE  Max(S) \in S
<1> DEFINE M == {k \in Nat : (\A y \in S : k >= y) => \E x \in S : \A y \in S : x >= y}
<1>1. \A y \in S : y \in Nat /\ y > 0 /\ n >= y
  OBVIOUS
<1>2. 0 \in M
  <2>1. PICK y \in S : TRUE
    OBVIOUS
  <2>2. ~(0 >= y)
    BY <1>1
  <2>3. QED
    BY <2>2
<1>3. ASSUME NEW k \in Nat, k \in M PROVE k + 1 \in M
  <2>1. CASE k + 1 \in S
    BY <2>1
  <2>2. CASE k + 1 \notin S
    <3>1. (\A y \in S : k + 1 >= y) => \A y \in S : k >= y
      BY <1>1, <2>2
    <3>2. QED
      BY <1>3, <3>1
  <2>3. QED
    BY <2>1, <2>2
<1>4. Nat \subseteq M
  <2> HIDE DEF M
  <2>1. QED
    BY <1>2, <1>3, NatSetInduction
<1>5. \E x \in S : \A y \in S : x >= y
  <2>1. n \in M
    BY <1>4
  <2>2. QED
    BY <1>1, <2>1
<1>6. QED
  BY <1>5, Zenon DEF Max

(* The function that a fold applies exists: by induction on the number of *)
(* indices, one more of its values being right with every step.           *)
LEMMA FoldExists ==
    ASSUME NEW f, NEW q, NEW e, NEW n \in Nat, DOMAIN e = 1 .. n
    PROVE  \E g : IsFold(f, q, e, g)
<1> DEFINE D == DOMAIN e
           Upto(g, k) == \A S \in SUBSET D : Cardinality(S) <= k => g[S] = FoldStep(f, q, e, g, S)
           N == {k \in Nat : \E g : Upto(g, k)}
<1>0. IsFiniteSet(D)
  BY FS_Interval
<1>1. \A S \in SUBSET D : IsFiniteSet(S) /\ Cardinality(S) \in Nat
                            /\ (Cardinality(S) = 0 <=> S = {})
  BY <1>0, FS_Subset, FS_CardinalityType, FS_EmptySet
<1>2. 0 \in N
  <2>1. PICK g : g = [S \in SUBSET D |-> Base(f)]
    OBVIOUS
  <2>2. Upto(g, 0)
    BY <1>1, <2>1 DEF FoldStep
  <2>3. QED
    BY <2>2
<1>3. ASSUME NEW k \in Nat, k \in N PROVE k + 1 \in N
  <2>1. PICK g : Upto(g, k)
    BY <1>3
  <2>2. PICK h : h = [S \in SUBSET D |-> FoldStep(f, q, e, g, S)]
    OBVIOUS
  <2>3. ASSUME NEW S \in SUBSET D, Cardinality(S) <= k + 1
        PROVE  h[S] = FoldStep(f, q, e, h, S)
    <3>1. CASE S = {}
      BY <2>2, <3>1 DEF FoldStep
    <3>2. CASE S # {}
      <4>1. PICK x \in S : x = Max(S)
        BY <3>2, MaxIn
      <4>2. S \ {x} \in SUBSET D /\ Cardinality(S \ {x}) <= k
        BY <1>1, <2>3, <4>1, FS_RemoveElement
      <4>3. h[S \ {x}] = FoldStep(f, q, e, g, S \ {x}) /\ g[S \ {x}] = FoldStep(f, q, e, g, S \ {x})
        BY <2>1, <2>2, <4>2
      <4>4. h[S] = One(f, q, g[S \ {x}], e[x])
        BY <2>2, <3>2, <4>1 DEF FoldStep
      <4>5. FoldStep(f, q, e, h, S) = One(f, q, h[S \ {x}], e[x])
        BY <3>2, <4>1 DEF FoldStep
      <4>6. QED
        BY <4>3, <4>4, <4>5
    <3>3. QED
      BY <3>1, <3>2
  <2>4. Upto(h, k + 1)
    BY <2>3
  <2>5. QED
    BY <2>4
<1>4. Nat \subseteq N
  <2> HIDE DEF N
  <2>1. QED
    BY <1>2, <1>3, NatSetInduction
<1>5. PICK g : Upto(g, Cardinality(D))
  BY <1>1, <1>4
<1>6. PICK h : h = [S \in SUBSET D |-> g[S]]
  OBVIOUS
<1>7. \A S \in SUBSET D : g[S] = FoldStep(f, q, e, g, S)
  BY <1>0, <1>1, <1>5, FS_Subset
<1>8. ASSUME NEW S \in SUBSET D PROVE FoldStep(f, q, e, g, S) = FoldStep(f, q, e, h, S)
  <2>1. S \ {Max(S)} \in SUBSET D
    OBVIOUS
  <2>2. QED
    BY <1>6, <2>1 DEF FoldStep
<1>9. h = [S \in SUBSET D |-> FoldStep(f, q, e, h, S)]
  BY <1>6, <1>7, <1>8
<1>10. QED
  BY <1>9 DEF IsFold

(* st is the sequence of the states of a loop over the n elements of e. *)
Runs(f, q, e, st, n) ==
    st[0] = Base(f) /\ \A k \in 0 .. n - 1 : st[k + 1] = One(f, q, st[k], e[k + 1])

(* A fold is the last state of that loop. *)
LEMMA FoldRuns ==
    ASSUME NEW f, NEW q, NEW e, NEW n \in Nat, DOMAIN e = 1 .. n, NEW g, IsFold(f, q, e, g)
    PROVE  \E st : Runs(f, q, e, st, n) /\ st[n] = g[DOMAIN e]
<1>1. PICK st : st = [k \in 0 .. n |-> g[1 .. k]]
  OBVIOUS
<1>2. st[n] = g[DOMAIN e]
  BY <1>1
<1>3. \A k \in 0 .. n : 1 .. k \in SUBSET DOMAIN e /\ g[1 .. k] = FoldStep(f, q, e, g, 1 .. k)
  BY DEF IsFold
<1>4. st[0] = Base(f)
  <2>1. 0 \in 0 .. n /\ 1 .. 0 = {}
    OBVIOUS
  <2>2. QED
    BY <1>1, <1>3, <2>1 DEF FoldStep
<1>5. ASSUME NEW k \in 0 .. n - 1 PROVE st[k + 1] = One(f, q, st[k], e[k + 1])
  <2>1. k \in Nat /\ k \in 0 .. n /\ k + 1 \in 0 .. n
    OBVIOUS
  <2>2. Max(1 .. k + 1) = k + 1 /\ (1 .. k + 1) \ {k + 1} = 1 .. k /\ 1 .. k + 1 # {}
    BY <2>1, MaxRun
  <2>3. g[1 .. k + 1] = One(f, q, g[1 .. k], e[k + 1])
    BY <1>3, <2>1, <2>2 DEF FoldStep
  <2>4. QED
    BY <1>1, <2>1, <2>3
<1>6. QED
  BY <1>2, <1>4, <1>5 DEF Runs

(* So the parser, the client's encoder and the reference are loops. *)
LEMMA ParseRuns ==
    ASSUME NEW q, NEW n \in Nat, DOMAIN q = 1 .. n
    PROVE  \E st : Runs("parse", q, Ixs(q), st, n) /\ ParseQueryParams(q) = TakeParam(q, st[n]).params
<1>1. PICK e : e = Ixs(q)
  OBVIOUS
<1>2. DOMAIN e = 1 .. n
  BY <1>1 DEF Ixs
<1> DEFINE Is(g) == g = [S \in SUBSET DOMAIN e |-> ParseStep(q, e, g, S)]
<1>3. ASSUME NEW g PROVE Is(g) <=> IsFold("parse", q, e, g)
  <2>1. ASSUME NEW S \in SUBSET DOMAIN e
        PROVE  ParseStep(q, e, g, S) = FoldStep("parse", q, e, g, S)
    BY Zenon DEF ParseStep, FoldStep, Base, One
  <2>2. QED
    BY <2>1 DEF IsFold
<1>4. PICK h : h = CHOOSE g : Is(g)
  OBVIOUS
<1>5. Is(h)
  <2>1. \E g : Is(g)
    BY <1>2, <1>3, FoldExists
  <2> HIDE DEF Is
  <2>2. QED
    BY <1>4, <2>1
<1>6. PICK st : Runs("parse", q, e, st, n) /\ st[n] = h[DOMAIN e]
  <2>1. IsFold("parse", q, e, h)
    BY <1>3, <1>5
  <2>2. QED
    BY <1>2, <2>1, FoldRuns
<1>7. QED
  BY <1>1, <1>4, <1>6, ParseFold

LEMMA TextRuns ==
    ASSUME NEW q, NEW n \in Nat, DOMAIN q = 1 .. n
    PROVE  \E st : Runs("text", q, q, st, n) /\ Encode(q) = st[n]
<1>1. PICK e : e = q
  OBVIOUS
<1>2. DOMAIN e = 1 .. n
  BY <1>1
<1> DEFINE Is(g) == g = [S \in SUBSET DOMAIN e |-> TextStep(e, g, S)]
<1>3. ASSUME NEW g PROVE Is(g) <=> IsFold("text", q, e, g)
  <2>1. ASSUME NEW S \in SUBSET DOMAIN e
        PROVE  TextStep(e, g, S) = FoldStep("text", q, e, g, S)
    BY Zenon DEF TextStep, FoldStep, Base, One
  <2>2. QED
    BY <2>1 DEF IsFold
<1>4. PICK h : h = CHOOSE g : Is(g)
  OBVIOUS
<1>5. Is(h)
  <2>1. \E g : Is(g)
    BY <1>2, <1>3, FoldExists
  <2> HIDE DEF Is
  <2>2. QED
    BY <1>4, <2>1
<1>6. PICK st : Runs("text", q, e, st, n) /\ st[n] = h[DOMAIN e]
  <2>1. IsFold("text", q, e, h)
    BY <1>3, <1>5
  <2>2. QED
    BY <1>2, <2>1, FoldRuns
<1>7. QED
  BY <1>1, <1>4, <1>6, TextFold

LEMMA ParamRuns ==
    ASSUME NEW q, NEW n \in Nat, DOMAIN q = 1 .. n
    PROVE  \E st : Runs("params", q, q, st, n) /\ Params(q) = st[n]
<1>1. PICK e : e = q
  OBVIOUS
<1>2. DOMAIN e = 1 .. n
  BY <1>1
<1> DEFINE Is(g) == g = [S \in SUBSET DOMAIN e |-> ParamStep(e, g, S)]
<1>3. ASSUME NEW g PROVE Is(g) <=> IsFold("params", q, e, g)
  <2>1. ASSUME NEW S \in SUBSET DOMAIN e
        PROVE  ParamStep(e, g, S) = FoldStep("params", q, e, g, S)
    BY Zenon DEF ParamStep, FoldStep, Base, One
  <2>2. QED
    BY <2>1 DEF IsFold
<1>4. PICK h : h = CHOOSE g : Is(g)
  OBVIOUS
<1>5. Is(h)
  <2>1. \E g : Is(g)
    BY <1>2, <1>3, FoldExists
  <2> HIDE DEF Is
  <2>2. QED
    BY <1>4, <2>1
<1>6. PICK st : Runs("params", q, e, st, n) /\ st[n] = h[DOMAIN e]
  <2>1. IsFold("params", q, e, h)
    BY <1>3, <1>5
  <2>2. QED
    BY <1>2, <2>1, FoldRuns
<1>7. QED
  BY <1>1, <1>4, <1>6, ParamFold

(* The characters of an escaped key or value. *)
Coded == (Chars \ {"&", "="}) \cup {"%26", "%3D"}

(* url_unescape (HttpHandle.cpp) undoes what the client escaped, and an    *)
(* escaped text has no separator in it.                                   *)
LEMMA EscapeFacts ==
    ASSUME NEW w \in Seq(Chars)
    PROVE  /\ Escape(w) \in Seq(Coded) /\ Len(Escape(w)) = Len(w)
           /\ url_unescape(Escape(w)) = w
<1>1. PICK m \in Nat : m = Len(w) /\ DOMAIN w = 1 .. m /\ w \in [1 .. m -> Chars]
  OBVIOUS
<1>2. PICK e : e = Escape(w)
  OBVIOUS
<1>3. e = [i \in 1 .. m |-> CASE w[i] = "&" -> "%26" [] w[i] = "=" -> "%3D" [] OTHER -> w[i]]
  BY <1>1, <1>2 DEF Escape
<1>4. ASSUME NEW i \in 1 .. m
      PROVE  /\ e[i] \in Coded
             /\ w[i] = CASE e[i] = "%26" -> "&" [] e[i] = "%3D" -> "=" [] OTHER -> e[i]
  <2>1. w[i] \in Chars /\ w[i] # "%26" /\ w[i] # "%3D"
    BY <1>1, WSAssumption
  <2>2. e[i] = CASE w[i] = "&" -> "%26" [] w[i] = "=" -> "%3D" [] OTHER -> w[i]
    BY <1>3
  <2>3. CASE w[i] = "&"
    BY <2>2, <2>3 DEF Coded
  <2>4. CASE w[i] = "="
    BY <2>2, <2>4 DEF Coded
  <2>5. CASE w[i] # "&" /\ w[i] # "="
    BY <2>1, <2>2, <2>5 DEF Coded
  <2>6. QED
    BY <2>3, <2>4, <2>5
<1>5. DOMAIN e = 1 .. m
  BY <1>3
<1>6. e \in [1 .. m -> Coded]
  BY <1>3, <1>4, <1>5
<1>7. e \in Seq(Coded) /\ Len(e) = m
  BY <1>6
<1>8. url_unescape(e) = w
  <2>1. url_unescape(e) = [i \in 1 .. m |-> CASE e[i] = "%26" -> "&" [] e[i] = "%3D" -> "="
                                               [] OTHER -> e[i]]
    BY <1>5 DEF url_unescape
  <2>2. url_unescape(e) = [i \in 1 .. m |-> w[i]]
    BY <1>4, <2>1
  <2>3. QED
    BY <1>1, <2>2
<1>9. QED
  BY <1>1, <1>2, <1>7, <1>8

(* w stands in q behind place a. *)
Stands(q, a, w) == a + Len(w) <= Len(q) /\ \A i \in 1 .. Len(w) : q[a + i] = w[i]

(* The parser cuts out of q what stands there. *)
LEMMA TextFacts ==
    ASSUME NEW C, NEW q \in Seq(C), NEW w \in Seq(C), NEW a \in Nat, Stands(q, a, w)
    PROVE  Text(q, a + 1, Len(w)) = w
<1>1. PICK m \in Nat, n \in Nat : m = Len(w) /\ n = Len(q)
  OBVIOUS
<1>2. a + m <= n /\ \A i \in 1 .. m : q[a + i] = w[i]
  BY <1>1 DEF Stands
<1>3. Text(q, a + 1, m) = SubSeq(q, a + 1, a + m)
  <2>1. (a + 1) + m - 1 = a + m
    OBVIOUS
  <2>2. (IF a + m < n THEN a + m ELSE n) = a + m
    BY <1>2
  <2>3. QED
    BY <1>1, <2>1, <2>2 DEF Text
<1>4. PICK u : u = SubSeq(q, a + 1, a + m)
  OBVIOUS
<1>5. u \in Seq(C) /\ Len(u) = m /\ \A i \in 1 .. m : u[i] = q[a + i]
  BY <1>1, <1>2, <1>4
<1>6. u = w
  <2>1. u = [i \in 1 .. m |-> u[i]] /\ w = [i \in 1 .. m |-> w[i]]
    BY <1>1, <1>5
  <2>2. \A i \in 1 .. m : u[i] = w[i]
    BY <1>2, <1>5
  <2>3. QED
    BY <2>1, <2>2
<1>7. QED
  BY <1>1, <1>3, <1>4, <1>6

(* A state of the parser; b says whether it is in a key or in a value. *)
St(b, k, v, kl, vl, P) ==
    [inKey |-> b = "key", key |-> k, value |-> v, key_len |-> kl, value_len |-> vl, params |-> P]

(* A character that is no separator is counted. *)
Counted(b, k, v, kl, vl, P, m) ==
    IF b = "key" THEN St(b, k, v, kl + m, vl, P) ELSE St(b, k, v, kl, vl + m, P)

(* One character: neither separator. *)
LEMMA ReadOther ==
    ASSUME NEW q, NEW p, q[p] \notin {"&", "="}, NEW b \in {"key", "value"}, NEW k, NEW v,
           NEW kl \in Nat, NEW vl \in Nat, NEW P, NEW s, s = St(b, k, v, kl, vl, P)
    PROVE  ParseChar(q, s, p) = Counted(b, k, v, kl, vl, P, 1)
<1>1. ParseChar(q, s, p) = IF s.inKey THEN [s EXCEPT !.key_len = s.key_len + 1]
                           ELSE [s EXCEPT !.value_len = s.value_len + 1]
  <2>1. q[p] # "&" /\ q[p] # "="
    OBVIOUS
  <2>2. QED
    BY <2>1, Zenon DEF ParseChar
<1>2. CASE b = "key"
  <2>1. s.inKey /\ s.key_len = kl
    BY <1>2 DEF St
  <2>2. ParseChar(q, s, p) = [s EXCEPT !.key_len = kl + 1]
    BY <1>1, <2>1, Zenon
  <2>3. QED
    BY <1>2, <2>2 DEF St, Counted
<1>3. CASE b # "key"
  <2>1. ~s.inKey /\ s.value_len = vl
    BY <1>3 DEF St
  <2>2. ParseChar(q, s, p) = [s EXCEPT !.value_len = vl + 1]
    BY <1>1, <2>1, Zenon
  <2>3. QED
    BY <1>3, <2>2 DEF St, Counted
<1>4. QED
  BY <1>2, <1>3

(* One character: '=' begins the value. *)
LEMMA ReadEquals ==
    ASSUME NEW q, NEW p, q[p] = "=", NEW b, NEW k, NEW v, NEW kl, NEW vl, NEW P,
           NEW s, s = St(b, k, v, kl, vl, P)
    PROVE  ParseChar(q, s, p) = St("value", k, p + 1, kl, vl, P)
BY DEF ParseChar, St

(* The pair that is read. *)
Taken(q, k, v, kl, vl, P) ==
    AddParam(P, url_unescape(Text(q, k, kl)), url_unescape(Text(q, v, vl)))

(* What TakeParam makes of a key and a value that are not empty. *)
LEMMA TakePair ==
    ASSUME NEW q, NEW b, NEW k, NEW v, NEW kl \in Nat, NEW vl \in Nat, NEW P,
           kl # 0, vl # 0, NEW s, s = St(b, k, v, kl, vl, P)
    PROVE  TakeParam(q, s) = St(b, k, v, 0, 0, Taken(q, k, v, kl, vl, P))
BY DEF TakeParam, St, Taken

(* One character: '&' takes the pair and begins the next key. *)
LEMMA ReadAnd ==
    ASSUME NEW q, NEW p, q[p] = "&", NEW b, NEW k, NEW v, NEW kl \in Nat, NEW vl \in Nat, NEW P,
           kl # 0, vl # 0, NEW s, s = St(b, k, v, kl, vl, P)
    PROVE  ParseChar(q, s, p) = St("key", p + 1, v, 0, 0, Taken(q, k, v, kl, vl, P))
<1>1. PICK R : R = Taken(q, k, v, kl, vl, P)
  OBVIOUS
<1>2. TakeParam(q, s) = St(b, k, v, 0, 0, R)
  BY <1>1, TakePair
<1>3. ParseChar(q, s, p) = [St(b, k, v, 0, 0, R) EXCEPT !.inKey = TRUE, !.key = p + 1]
  BY <1>2, Zenon DEF ParseChar
<1>4. QED
  BY <1>1, <1>3 DEF St

(* st holds the states of the parser on text q. *)
Parsing(q, st) == st[0] = First /\ \A k \in 0 .. Len(q) - 1 : st[k + 1] = ParseChar(q, st[k], k + 1)

(* ParseQueryParams takes the last pair out of the last of those states. *)
LEMMA ParseStates ==
    ASSUME NEW C, NEW q \in Seq(C)
    PROVE  \E st : Parsing(q, st) /\ ParseQueryParams(q) = TakeParam(q, st[Len(q)]).params
<1>1. PICK n \in Nat : n = Len(q) /\ DOMAIN q = 1 .. n
  OBVIOUS
<1>2. PICK st : Runs("parse", q, Ixs(q), st, n) /\ ParseQueryParams(q) = TakeParam(q, st[n]).params
  BY <1>1, ParseRuns
<1>3. st[0] = First
  BY <1>2 DEF Runs, Base
<1>4. ASSUME NEW k \in 0 .. n - 1 PROVE st[k + 1] = ParseChar(q, st[k], k + 1)
  <2>1. k + 1 \in 1 .. n /\ Ixs(q)[k + 1] = k + 1
    BY <1>1 DEF Ixs
  <2>2. st[k + 1] = One("parse", q, st[k], k + 1)
    BY <1>2, <2>1 DEF Runs
  <2>3. QED
    BY <2>2 DEF One
<1>5. QED
  BY <1>1, <1>2, <1>3, <1>4 DEF Parsing

(* w is what the parser reads next at place a, in the state that is given. *)
Reads(C, q, st, w, a, b, k, v, kl, vl, P) ==
    /\ q \in Seq(C) /\ Parsing(q, st) /\ w \in Seq(Coded) /\ a \in Nat /\ Stands(q, a, w)
    /\ b \in {"key", "value"} /\ kl \in Nat /\ vl \in Nat
    /\ st[a] = St(b, k, v, kl, vl, P)

(* A run of characters that are not separators. *)
LEMMA PieceRun ==
    ASSUME NEW C, NEW q, NEW st, NEW w, NEW a, NEW b, NEW k, NEW v, NEW kl, NEW vl, NEW P,
           Reads(C, q, st, w, a, b, k, v, kl, vl, P)
    PROVE  st[a + Len(w)] = Counted(b, k, v, kl, vl, P, Len(w))
<1>0. /\ q \in Seq(C) /\ Parsing(q, st) /\ w \in Seq(Coded) /\ a \in Nat /\ Stands(q, a, w)
      /\ b \in {"key", "value"} /\ kl \in Nat /\ vl \in Nat
      /\ st[a] = St(b, k, v, kl, vl, P)
  BY DEF Reads
<1>1. PICK m \in Nat, n \in Nat : m = Len(w) /\ n = Len(q)
  BY <1>0
<1>2. a + m <= n /\ \A i \in 1 .. m : q[a + i] = w[i]
  BY <1>0, <1>1 DEF Stands
<1>3. \A i \in 1 .. m : q[a + i] \notin {"&", "="}
  <2>1. \A i \in 1 .. m : w[i] \in Coded
    BY <1>0, <1>1
  <2>2. QED
    BY <1>2, <2>1 DEF Coded
<1> DEFINE S == {j \in Nat : j <= m => st[a + j] = Counted(b, k, v, kl, vl, P, j)}
<1>4. 0 \in S
  <2>1. a + 0 = a /\ kl + 0 = kl /\ vl + 0 = vl
    BY <1>0
  <2>2. QED
    BY <1>0, <2>1 DEF Counted
<1>5. ASSUME NEW j \in Nat, j \in S PROVE j + 1 \in S
  <2> SUFFICES ASSUME j + 1 <= m PROVE st[a + (j + 1)] = Counted(b, k, v, kl, vl, P, j + 1)
    OBVIOUS
  <2>1. st[a + j] = Counted(b, k, v, kl, vl, P, j)
    BY <1>1, <1>5
  <2>2. a + j \in 0 .. n - 1 /\ j + 1 \in 1 .. m /\ (a + j) + 1 = a + (j + 1)
    BY <1>0, <1>1, <1>2
  <2>3. PICK p : p = a + (j + 1)
    OBVIOUS
  <2>4. st[p] = ParseChar(q, st[a + j], p)
    BY <1>0, <1>1, <2>2, <2>3 DEF Parsing
  <2>5. q[p] \notin {"&", "="}
    BY <1>3, <2>2, <2>3
  <2>6. CASE b = "key"
    <3>1. PICK c \in Nat : c = kl + j /\ c + 1 = kl + (j + 1)
      BY <1>0
    <3>2. st[a + j] = St(b, k, v, c, vl, P)
      BY <2>1, <2>6, <3>1, Zenon DEF Counted
    <3>3. st[p] = Counted(b, k, v, c, vl, P, 1)
      BY <1>0, <2>4, <2>5, <3>2, ReadOther
    <3>4. QED
      BY <2>3, <2>6, <3>1, <3>3, Zenon DEF Counted
  <2>7. CASE b # "key"
    <3>1. PICK c \in Nat : c = vl + j /\ c + 1 = vl + (j + 1)
      BY <1>0
    <3>2. st[a + j] = St(b, k, v, kl, c, P)
      BY <2>1, <2>7, <3>1, Zenon DEF Counted
    <3>3. st[p] = Counted(b, k, v, kl, c, P, 1)
      BY <1>0, <2>4, <2>5, <3>2, ReadOther
    <3>4. QED
      BY <2>3, <2>7, <3>1, <3>3, Zenon DEF Counted
  <2>8. QED
    BY <2>6, <2>7
<1>6. Nat \subseteq S
  <2> HIDE DEF S
  <2>1. QED
    BY <1>4, <1>5, NatSetInduction
<1>7. m \in S
  BY <1>6
<1>8. QED
  BY <1>1, <1>7

(* A pair of a key and a value that stands in q behind place a. *)
PairAt(q, a, k, v) ==
    /\ Stands(q, a, k) /\ Stands(q, a + Len(k) + 1, v)
    /\ q[a + Len(k) + 1] = "="

(* The parser has read the pair that ends text t. *)
ReadTo(q, st, t, kw, vw, P) ==
    \E k, v : /\ st[Len(t)] = St("value", k, v, Len(kw), Len(vw), P)
              /\ url_unescape(Text(q, k, Len(kw))) = kw
              /\ url_unescape(Text(q, v, Len(vw))) = vw

(* A whole pair, from the state in which its key begins. *)
LEMMA PairRun ==
    ASSUME NEW C, Coded \subseteq C, NEW q \in Seq(C), NEW st, Parsing(q, st), NEW kw \in Seq(Chars),
           NEW vw \in Seq(Chars), NEW a \in Nat, PairAt(q, a, Escape(kw), Escape(vw)),
           NEW v, NEW P, st[a] = St("key", a + 1, v, 0, 0, P),
           NEW t, Len(t) = a + Len(kw) + 1 + Len(vw)
    PROVE  ReadTo(q, st, t, kw, vw, P)
<1>1. PICK m \in Nat, n \in Nat, N \in Nat : m = Len(kw) /\ n = Len(vw) /\ N = Len(q)
  OBVIOUS
<1>2. PICK ke, ve : ke = Escape(kw) /\ ve = Escape(vw)
  OBVIOUS
<1>3. /\ ke \in Seq(Coded) /\ Len(ke) = m /\ url_unescape(ke) = kw
      /\ ve \in Seq(Coded) /\ Len(ve) = n /\ url_unescape(ve) = vw
  BY <1>1, <1>2, EscapeFacts
<1>4. PICK b \in Nat : b = a + m + 1 /\ b = (a + m) + 1
  OBVIOUS
<1>5. /\ Stands(q, a, ke) /\ Stands(q, b, ve) /\ q[b] = "="
  BY <1>2, <1>3, <1>4 DEF PairAt
<1>6. st[a + m] = St("key", a + 1, v, m, 0, P)
  <2>1. PICK k, z : k = a + 1 /\ z \in Nat /\ z = 0
    OBVIOUS
  <2>2. Reads(C, q, st, ke, a, "key", k, v, z, z, P)
    BY <1>3, <1>5, <2>1 DEF Reads
  <2>3. st[a + Len(ke)] = Counted("key", k, v, z, z, P, Len(ke))
    BY <2>2, PieceRun
  <2>4. QED
    BY <1>3, <2>1, <2>3 DEF Counted
<1>7. st[b] = St("value", a + 1, b + 1, m, 0, P)
  <2>1. a + m \in 0 .. N - 1
    <3>1. b + n <= N
      BY <1>1, <1>3, <1>5 DEF Stands
    <3>2. QED
      BY <1>4, <3>1
  <2>2. st[b] = ParseChar(q, st[a + m], b)
    BY <1>1, <1>4, <2>1 DEF Parsing
  <2>3. QED
    BY <1>5, <1>6, <2>2, ReadEquals
<1>8. st[b + n] = St("value", a + 1, b + 1, m, n, P)
  <2>1. PICK k, r, z : k = a + 1 /\ r = b + 1 /\ z \in Nat /\ z = 0
    OBVIOUS
  <2>2. Reads(C, q, st, ve, b, "value", k, r, m, z, P)
    BY <1>3, <1>5, <1>7, <2>1 DEF Reads
  <2>3. st[b + Len(ve)] = Counted("value", k, r, m, z, P, Len(ve))
    BY <2>2, PieceRun
  <2>4. QED
    BY <1>3, <2>1, <2>3 DEF Counted
<1>9. Text(q, a + 1, m) = ke /\ Text(q, b + 1, n) = ve
  <2>1. ke \in Seq(C) /\ ve \in Seq(C)
    BY <1>3
  <2>2. QED
    BY <1>3, <1>5, <2>1, TextFacts
<1>10. Len(t) = b + n
  BY <1>1, <1>4
<1>11. QED
  BY <1>1, <1>3, <1>8, <1>9, <1>10, Zenon DEF ReadTo

(* All the characters of a text. *)
Sent == Coded \cup {"&", "="}

(* Text u is text t behind text s. *)
Joined(C, s, t, u) == s \in Seq(C) /\ t \in Seq(C) /\ u = s \o t
JoinedTo(C, s, t, u) ==
    /\ u \in Seq(C) /\ Len(u) = Len(s) + Len(t)
    /\ Stands(u, 0, s) /\ Stands(u, Len(s), t)

(* Both parts stand in it. *)
LEMMA ConcatFacts ==
    ASSUME NEW C, NEW s, NEW t, NEW u, Joined(C, s, t, u)
    PROVE  JoinedTo(C, s, t, u)
<1>0. s \in Seq(C) /\ t \in Seq(C) /\ u = s \o t
  BY DEF Joined
<1>1. u \in Seq(C) /\ Len(u) = Len(s) + Len(t)
  BY <1>0
<1>2. \A i \in 1 .. Len(s) : u[0 + i] = s[i]
  BY <1>0
<1>3. \A i \in 1 .. Len(t) : u[Len(s) + i] = t[i]
  BY <1>0
<1>4. QED
  BY <1>0, <1>1, <1>2, <1>3 DEF Stands, JoinedTo

(* A text of one character. *)
LEMMA OneChar ==
    ASSUME NEW C, NEW c \in C
    PROVE  \E e : e = <<c>> /\ e \in Seq(C) /\ Len(e) = 1 /\ e[1] = c
<1>1. PICK e : e = <<c>>
  OBVIOUS
<1>2. Len(e) = 1 /\ e[1] = c
  BY <1>1
<1>3. e \in Seq(C)
  BY <1>1
<1>4. QED
  BY <1>1, <1>2, <1>3

(* What stands in a part of a text stands in the text. *)
LEMMA StandsIn ==
    ASSUME NEW C, NEW q \in Seq(C), NEW u \in Seq(C), NEW w \in Seq(C), NEW a \in Nat, NEW b \in Nat,
           Stands(q, a, u), Stands(u, b, w), NEW c, c = a + b
    PROVE  Stands(q, c, w)
<1>1. PICK m \in Nat, n \in Nat, l \in Nat : m = Len(u) /\ n = Len(w) /\ l = Len(q)
  OBVIOUS
<1>2. a + m <= l /\ \A i \in 1 .. m : q[a + i] = u[i]
  BY <1>1 DEF Stands
<1>3. b + n <= m /\ \A i \in 1 .. n : u[b + i] = w[i]
  BY <1>1 DEF Stands
<1>4. ASSUME NEW i \in 1 .. n PROVE q[c + i] = w[i]
  <2>1. b + i \in 1 .. m /\ a + (b + i) = c + i
    BY <1>3
  <2>2. q[a + (b + i)] = u[b + i]
    BY <1>2, <2>1
  <2>3. QED
    BY <1>3, <2>1, <2>2
<1>5. c + n <= l
  BY <1>2, <1>3
<1>6. QED
  BY <1>1, <1>4, <1>5 DEF Stands

(* Text u is text t and one more pair. *)
OnePair(t, kw, vw, u) ==
    u = IF t = <<>> THEN Pair(<<kw, vw>>) ELSE t \o <<"&">> \o Pair(<<kw, vw>>)

(* Where that pair begins. *)
Start(t) == IF t = <<>> THEN 0 ELSE Len(t) + 1

(* The text of one pair: key, '=', value. *)
LEMMA PairText ==
    ASSUME NEW kw \in Seq(Chars), NEW vw \in Seq(Chars), NEW w, w = Pair(<<kw, vw>>)
    PROVE  /\ w \in Seq(Sent) /\ Len(w) = Len(kw) + 1 + Len(vw)
           /\ PairAt(w, 0, Escape(kw), Escape(vw))
<1>1. PICK ke, ve : ke = Escape(kw) /\ ve = Escape(vw)
  OBVIOUS
<1>2. /\ ke \in Seq(Coded) /\ Len(ke) = Len(kw) /\ ve \in Seq(Coded) /\ Len(ve) = Len(vw)
  BY <1>1, EscapeFacts
<1>3. ke \in Seq(Sent) /\ ve \in Seq(Sent)
  BY <1>2 DEF Sent
<1>4. PICK e : e = <<"=">> /\ e \in Seq(Sent) /\ Len(e) = 1 /\ e[1] = "="
  <2>1. "=" \in Sent
    BY DEF Sent
  <2>2. QED
    BY <2>1, OneChar
<1>5. PICK p : p = ke \o e
  OBVIOUS
<1>6. p \in Seq(Sent) /\ Len(p) = Len(ke) + 1 /\ Stands(p, 0, ke) /\ Stands(p, Len(ke), e)
  <2>1. Joined(Sent, ke, e, p)
    BY <1>3, <1>4, <1>5 DEF Joined
  <2>2. JoinedTo(Sent, ke, e, p)
    BY <2>1, ConcatFacts
  <2>3. QED
    BY <1>4, <2>2 DEF JoinedTo
<1>7. w = p \o ve
  BY <1>1, <1>4, <1>5 DEF Pair
<1>8. w \in Seq(Sent) /\ Len(w) = Len(p) + Len(ve) /\ Stands(w, 0, p) /\ Stands(w, Len(p), ve)
  <2>1. Joined(Sent, p, ve, w)
    BY <1>3, <1>6, <1>7 DEF Joined
  <2>2. JoinedTo(Sent, p, ve, w)
    BY <2>1, ConcatFacts
  <2>3. QED
    BY <2>2 DEF JoinedTo
<1>9. PICK m \in Nat : m = Len(ke)
  BY <1>2
<1>10. Stands(w, 0, ke) /\ Stands(w, m, e)
  <2>1. 0 = 0 + 0 /\ m = 0 + m
    OBVIOUS
  <2>2. Stands(w, 0, ke)
    BY <1>3, <1>6, <1>8, <2>1, StandsIn
  <2>3. Stands(w, m, e)
    BY <1>4, <1>6, <1>8, <1>9, <2>1, StandsIn
  <2>4. QED
    BY <2>2, <2>3
<1>11. w[m + 1] = "="
  BY <1>4, <1>10 DEF Stands
<1>12. PairAt(w, 0, ke, ve)
  <2>1. 0 + Len(ke) + 1 = Len(p) /\ 0 + Len(ke) + 1 = m + 1
    BY <1>6, <1>9
  <2>2. QED
    BY <1>8, <1>10, <1>11, <2>1 DEF PairAt
<1>13. Len(w) = Len(kw) + 1 + Len(vw)
  BY <1>2, <1>6, <1>8
<1>14. QED
  BY <1>1, <1>8, <1>12, <1>13

(* A pair in a part of a text is a pair in the text. *)
LEMMA PairIn ==
    ASSUME NEW C, NEW q \in Seq(C), NEW w \in Seq(C), NEW a \in Nat, Stands(q, a, w),
           NEW ke \in Seq(C), NEW ve \in Seq(C), NEW b \in Nat, PairAt(w, b, ke, ve),
           NEW c, c = a + b
    PROVE  PairAt(q, c, ke, ve)
<1>1. PICK m \in Nat, n \in Nat : m = Len(ke) /\ n = Len(ve)
  OBVIOUS
<1>2. PICK d, f : d \in Nat /\ d = b + m + 1 /\ f = a + d /\ f = c + m + 1
  OBVIOUS
<1>3. Stands(w, b, ke) /\ Stands(w, d, ve) /\ w[d] = "="
  BY <1>1, <1>2 DEF PairAt
<1>4. Stands(q, c, ke)
  BY <1>3, StandsIn
<1>5. Stands(q, f, ve)
  BY <1>2, <1>3, StandsIn
<1>6. q[f] = "="
  <2>1. d \in 1 .. Len(w)
    BY <1>1, <1>2, <1>3 DEF Stands
  <2>2. q[a + d] = w[d]
    BY <2>1 DEF Stands
  <2>3. QED
    BY <1>2, <1>3, <2>2
<1>7. QED
  BY <1>1, <1>2, <1>4, <1>5, <1>6 DEF PairAt

(* What adding a pair makes of a text. *)
Added(t, kw, vw, u) ==
    /\ u \in Seq(Sent) /\ Len(u) = Start(t) + Len(kw) + 1 + Len(vw) /\ u # <<>>
    /\ Stands(u, 0, t) /\ PairAt(u, Start(t), Escape(kw), Escape(vw))
    /\ t # <<>> => Len(t) + 1 <= Len(u) /\ u[Len(t) + 1] = "&"

(* A pair is added with an '&' before it, unless it is the first. *)
LEMMA PairAdded ==
    ASSUME NEW kw \in Seq(Chars), NEW vw \in Seq(Chars), NEW t \in Seq(Sent), NEW u,
           OnePair(t, kw, vw, u)
    PROVE  Added(t, kw, vw, u)
<1>1. PICK w : w = Pair(<<kw, vw>>)
  OBVIOUS
<1>2. w \in Seq(Sent) /\ Len(w) = Len(kw) + 1 + Len(vw) /\ PairAt(w, 0, Escape(kw), Escape(vw))
  BY <1>1, PairText
<1>3. Len(kw) \in Nat /\ Len(vw) \in Nat /\ Len(t) \in Nat
  OBVIOUS
<1>4. CASE t = <<>>
  <2>1. u = w /\ Start(t) = 0
    BY <1>1, <1>4 DEF OnePair, Start
  <2>2. Len(u) = Start(t) + Len(kw) + 1 + Len(vw) /\ u # <<>>
    BY <1>2, <1>3, <2>1
  <2>3. Stands(u, 0, t)
    BY <1>2, <1>4, <2>1 DEF Stands
  <2>4. QED
    BY <1>2, <1>4, <2>1, <2>2, <2>3 DEF Added
<1>5. CASE t # <<>>
  <2>1. PICK d : d = <<"&">> /\ d \in Seq(Sent) /\ Len(d) = 1 /\ d[1] = "&"
    <3>1. "&" \in Sent
      BY DEF Sent
    <3>2. QED
      BY <3>1, OneChar
  <2>2. PICK r : r = t \o d
    OBVIOUS
  <2>3. u = r \o w
    BY <1>1, <1>5, <2>1, <2>2 DEF OnePair
  <2>4. JoinedTo(Sent, t, d, r)
    <3>1. Joined(Sent, t, d, r)
      BY <2>1, <2>2 DEF Joined
    <3>2. QED
      BY <3>1, ConcatFacts
  <2>5. r \in Seq(Sent) /\ Len(r) = Len(t) + 1 /\ Stands(r, 0, t) /\ Stands(r, Len(t), d)
    BY <2>1, <2>4 DEF JoinedTo
  <2>6. JoinedTo(Sent, r, w, u)
    <3>1. Joined(Sent, r, w, u)
      BY <1>2, <2>3, <2>5 DEF Joined
    <3>2. QED
      BY <3>1, ConcatFacts
  <2>7. u \in Seq(Sent) /\ Len(u) = Len(r) + Len(w) /\ Stands(u, 0, r) /\ Stands(u, Len(r), w)
    BY <2>6 DEF JoinedTo
  <2>8. PICK m \in Nat, n \in Nat, z \in Nat : m = Len(t) /\ n = Len(r) /\ z = 0
    BY <1>3, <2>5
  <2>9. Start(t) = n /\ n = m + 1
    BY <1>5, <2>5, <2>8 DEF Start
  <2>10. Len(u) = Start(t) + Len(kw) + 1 + Len(vw) /\ u # <<>>
    BY <1>2, <1>3, <2>7, <2>8, <2>9
  <2>11. Stands(u, z, t) /\ Stands(u, m, d)
    <3>1. z = z + z /\ m = z + m
      BY <2>8
    <3>2. Stands(u, z, r) /\ Stands(r, z, t) /\ Stands(r, m, d)
      BY <2>5, <2>7, <2>8
    <3>3. Stands(u, z, t)
      BY <2>5, <2>7, <3>1, <3>2, StandsIn
    <3>4. Stands(u, m, d)
      BY <2>1, <2>5, <2>7, <3>1, <3>2, StandsIn
    <3>5. QED
      BY <3>3, <3>4
  <2>12. m + 1 <= Len(u) /\ u[m + 1] = "&"
    BY <2>1, <2>11 DEF Stands
  <2>13. PairAt(u, n, Escape(kw), Escape(vw))
    <3>1. PICK ke, ve : ke = Escape(kw) /\ ve = Escape(vw)
      OBVIOUS
    <3>2. ke \in Seq(Sent) /\ ve \in Seq(Sent)
      <4>1. ke \in Seq(Coded) /\ ve \in Seq(Coded)
        BY <3>1, EscapeFacts
      <4>2. QED
        BY <4>1 DEF Sent
    <3>3. n = n + z /\ PairAt(w, z, ke, ve) /\ Stands(u, n, w)
      BY <1>2, <2>7, <2>8, <3>1
    <3>4. PairAt(u, n, ke, ve)
      BY <1>2, <2>7, <3>2, <3>3, PairIn
    <3>5. QED
      BY <3>1, <3>4
  <2>14. QED
    BY <2>7, <2>8, <2>9, <2>10, <2>11, <2>12, <2>13 DEF Added
<1>6. QED
  BY <1>4, <1>5

(* tx holds the text of the first parameters of the query, for each number. *)
Texts(query, n, tx) ==
    /\ query \in Seq(Seq(Chars) \X Seq(Chars)) /\ n = Len(query) /\ tx[0] = <<>>
    /\ \A j \in 0 .. n - 1 : OnePair(tx[j], query[j + 1][1], query[j + 1][2], tx[j + 1])

(* Every one of them is made by adding a pair, and stands in the last. *)
Builds(query, n, tx) ==
    \A j \in 0 .. n - 1 : /\ Added(tx[j], query[j + 1][1], query[j + 1][2], tx[j + 1])
                          /\ Stands(tx[n], 0, tx[j + 1])
                          /\ tx[j] = <<>> <=> j = 0

(* Encode is the last of those texts. *)
LEMMA TextsOf ==
    ASSUME NEW query \in Seq(Seq(Chars) \X Seq(Chars)), NEW n \in Nat, n = Len(query)
    PROVE  \E tx : Texts(query, n, tx) /\ Encode(query) = tx[n]
<1>1. DOMAIN query = 1 .. n
  OBVIOUS
<1>2. PICK tx : Runs("text", query, query, tx, n) /\ Encode(query) = tx[n]
  BY <1>1, TextRuns
<1>3. tx[0] = <<>>
  BY <1>2 DEF Runs, Base
<1>4. ASSUME NEW j \in 0 .. n - 1
      PROVE  OnePair(tx[j], query[j + 1][1], query[j + 1][2], tx[j + 1])
  <2>1. PICK x, t, u : x = query[j + 1] /\ t = tx[j] /\ u = tx[j + 1]
    OBVIOUS
  <2>2. u = One("text", query, t, x)
    BY <1>2, <2>1 DEF Runs
  <2>3. u = IF t = <<>> THEN Pair(x) ELSE t \o <<"&">> \o Pair(x)
    BY <2>2 DEF One
  <2>4. Pair(x) = Pair(<<x[1], x[2]>>)
    BY DEF Pair
  <2>5. OnePair(t, x[1], x[2], u)
    BY <2>3, <2>4 DEF OnePair
  <2>6. QED
    BY <2>1, <2>5
<1>5. QED
  BY <1>2, <1>3, <1>4 DEF Texts

(* By induction forwards, every text is well made; by induction backwards, *)
(* it stands at the beginning of what is sent.                             *)
LEMMA TextsBuild ==
    ASSUME NEW query, NEW n \in Nat, NEW tx, Texts(query, n, tx)
    PROVE  Builds(query, n, tx) /\ tx[n] \in Seq(Sent)
<1>0. tx[0] = <<>> /\ \A j \in 0 .. n - 1 : OnePair(tx[j], query[j + 1][1], query[j + 1][2], tx[j + 1])
  BY DEF Texts
<1>1. \A j \in 0 .. n - 1 : query[j + 1][1] \in Seq(Chars) /\ query[j + 1][2] \in Seq(Chars)
  <2>1. query \in Seq(Seq(Chars) \X Seq(Chars)) /\ n = Len(query)
    BY DEF Texts
  <2>2. \A j \in 0 .. n - 1 : query[j + 1] \in Seq(Chars) \X Seq(Chars)
    BY <2>1
  <2>3. QED
    BY <2>2
<1>2. ASSUME NEW j \in 0 .. n - 1, tx[j] \in Seq(Sent)
      PROVE  Added(tx[j], query[j + 1][1], query[j + 1][2], tx[j + 1])
  BY <1>0, <1>1, <1>2, PairAdded
<1> DEFINE S == {j \in Nat : j <= n => tx[j] \in Seq(Sent) /\ (tx[j] = <<>> <=> j = 0)}
<1>3. 0 \in S
  <2>1. <<>> \in Seq(Sent)
    OBVIOUS
  <2>2. tx[0] \in Seq(Sent) /\ tx[0] = <<>>
    BY <1>0, <2>1
  <2>3. QED
    BY <2>2
<1>4. ASSUME NEW j \in Nat, j \in S PROVE j + 1 \in S
  <2> SUFFICES ASSUME j + 1 <= n PROVE tx[j + 1] \in Seq(Sent) /\ tx[j + 1] # <<>>
    OBVIOUS
  <2>1. j \in 0 .. n - 1 /\ tx[j] \in Seq(Sent)
    BY <1>4
  <2>2. Added(tx[j], query[j + 1][1], query[j + 1][2], tx[j + 1])
    BY <1>2, <2>1
  <2>3. QED
    BY <2>2 DEF Added
<1>5. Nat \subseteq S
  <2> HIDE DEF S
  <2>1. QED
    BY <1>3, <1>4, NatSetInduction
<1>6. \A j \in 0 .. n : tx[j] \in Seq(Sent) /\ (tx[j] = <<>> <=> j = 0)
  BY <1>5
<1>7. \A j \in 0 .. n - 1 : Added(tx[j], query[j + 1][1], query[j + 1][2], tx[j + 1])
  BY <1>2, <1>6
<1> DEFINE T == {m \in Nat : m <= n => Stands(tx[n], 0, tx[n - m])}
<1>8. 0 \in T
  <2>1. n - 0 = n /\ tx[n] \in Seq(Sent)
    BY <1>6
  <2>2. Stands(tx[n], 0, tx[n])
    BY <2>1 DEF Stands
  <2>3. QED
    BY <2>1, <2>2
<1>9. ASSUME NEW m \in Nat, m \in T PROVE m + 1 \in T
  <2> SUFFICES ASSUME m + 1 <= n PROVE Stands(tx[n], 0, tx[n - (m + 1)])
    OBVIOUS
  <2>1. PICK j : j = n - (m + 1) /\ j \in 0 .. n - 1 /\ j + 1 = n - m /\ j + 1 \in 0 .. n /\ n \in 0 .. n /\ j \in 0 .. n
    OBVIOUS
  <2>2. Stands(tx[n], 0, tx[j + 1])
    BY <1>9, <2>1
  <2>3. Stands(tx[j + 1], 0, tx[j])
    BY <1>7, <2>1 DEF Added
  <2>4. PICK z \in Nat : z = 0 /\ z = z + z
    OBVIOUS
  <2>5. PICK q, u, w : q = tx[n] /\ u = tx[j + 1] /\ w = tx[j]
    OBVIOUS
  <2>6. q \in Seq(Sent) /\ u \in Seq(Sent) /\ w \in Seq(Sent) /\ Stands(q, z, u) /\ Stands(u, z, w)
    BY <1>6, <2>1, <2>2, <2>3, <2>4, <2>5
  <2>7. Stands(q, z, w)
    BY <2>4, <2>6, StandsIn
  <2>8. QED
    BY <2>1, <2>4, <2>5, <2>7
<1>10. Nat \subseteq T
  <2> HIDE DEF T
  <2>1. QED
    BY <1>8, <1>9, NatSetInduction
<1>11. ASSUME NEW j \in 0 .. n - 1 PROVE Stands(tx[n], 0, tx[j + 1])
  <2>1. PICK m \in Nat : m = n - (j + 1) /\ m <= n /\ n - m = j + 1
    OBVIOUS
  <2>2. m \in T
    BY <1>10
  <2>3. QED
    BY <2>1, <2>2
<1>12. \A j \in 0 .. n - 1 : tx[j] = <<>> <=> j = 0
  BY <1>6
<1>13. Builds(query, n, tx)
  <2> HIDE DEF S, T
  <2>1. QED
    BY <1>7, <1>11, <1>12 DEF Builds
<1>14. QED
  BY <1>6, <1>13

(* What the parser has gathered before it reads a pair. *)
Gathers(query, n, pf) ==
    /\ pf[0] = [k \in {} |-> <<>>]
    /\ \A j \in 0 .. n - 1 : pf[j + 1] = AddParam(pf[j], query[j + 1][1], query[j + 1][2])

(* The reference is the last of those tables. *)
LEMMA ParamsOf ==
    ASSUME NEW query, NEW n \in Nat, DOMAIN query = 1 .. n
    PROVE  \E pf : Gathers(query, n, pf) /\ Params(query) = pf[n]
<1>1. PICK pf : Runs("params", query, query, pf, n) /\ Params(query) = pf[n]
  BY ParamRuns
<1>2. pf[0] = [k \in {} |-> <<>>]
  BY <1>1 DEF Runs, Base
<1>3. ASSUME NEW j \in 0 .. n - 1 PROVE pf[j + 1] = AddParam(pf[j], query[j + 1][1], query[j + 1][2])
  <2>1. pf[j + 1] = One("params", query, pf[j], query[j + 1])
    BY <1>1 DEF Runs
  <2>2. QED
    BY <2>1 DEF One
<1>4. QED
  BY <1>1, <1>2, <1>3 DEF Gathers

(* The parser has read a pair, and a separator follows. *)
AtAnd(C, q, st, t, k1, v1, P, R) ==
    /\ Coded \subseteq C /\ q \in Seq(C) /\ Parsing(q, st) /\ Len(t) \in Nat
    /\ Len(k1) \in Nat \ {0} /\ Len(v1) \in Nat \ {0} /\ ReadTo(q, st, t, k1, v1, P)
    /\ Len(t) + 1 <= Len(q) /\ q[Len(t) + 1] = "&" /\ R = AddParam(P, k1, v1)

(* From one pair to the next. *)
LEMMA NextPair ==
    ASSUME NEW C, NEW q, NEW st, NEW t, NEW k1, NEW v1, NEW P, NEW R,
           AtAnd(C, q, st, t, k1, v1, P, R)
    PROVE  \E v : st[Len(t) + 1] = St("key", Len(t) + 2, v, 0, 0, R)
<1>0. /\ Coded \subseteq C /\ q \in Seq(C) /\ Parsing(q, st) /\ Len(t) \in Nat
      /\ Len(k1) \in Nat \ {0} /\ Len(v1) \in Nat \ {0} /\ ReadTo(q, st, t, k1, v1, P)
      /\ Len(t) + 1 <= Len(q) /\ q[Len(t) + 1] = "&" /\ R = AddParam(P, k1, v1)
  BY DEF AtAnd
<1>1. PICK l \in Nat, m \in Nat \ {0}, n \in Nat \ {0} : l = Len(t) /\ m = Len(k1) /\ n = Len(v1)
  BY <1>0
<1>2. PICK k, v : /\ st[l] = St("value", k, v, m, n, P)
                  /\ url_unescape(Text(q, k, m)) = k1 /\ url_unescape(Text(q, v, n)) = v1
  BY <1>0, <1>1 DEF ReadTo
<1>3. Taken(q, k, v, m, n, P) = R
  BY <1>0, <1>2 DEF Taken
<1>4. PICK p : p = l + 1 /\ p + 1 = l + 2
  OBVIOUS
<1>5. q[p] = "&"
  BY <1>0, <1>1, <1>4
<1>6. l \in 0 .. Len(q) - 1
  BY <1>0, <1>1
<1>7. st[p] = ParseChar(q, st[l], p)
  BY <1>0, <1>4, <1>6 DEF Parsing
<1>8. st[p] = St("key", p + 1, v, 0, 0, R)
  <2>1. m \in Nat /\ n \in Nat /\ m # 0 /\ n # 0
    OBVIOUS
  <2>2. QED
    BY <1>2, <1>3, <1>5, <1>7, <2>1, ReadAnd
<1>9. QED
  BY <1>1, <1>4, <1>8

(* ParseQueryParams (HttpHandle.cpp) reads back every list of parameters    *)
(* with keys and values that are not empty, whatever characters they have   *)
(* and however often a key is repeated: by induction on the pairs, the      *)
(* parser has at the end of a pair gathered all pairs before it, and has    *)
(* counted the key and the value of this one, which it takes at the next    *)
(* '&' or at the end of the text.                                           *)
THEOREM ParseEncode ==
    ASSUME NEW query \in Seq(Seq(Chars) \X Seq(Chars)),
           \A i \in DOMAIN query : query[i][1] # <<>> /\ query[i][2] # <<>>
    PROVE  ParseQueryParams(Encode(query)) = Params(query)
<1>1. PICK n \in Nat : n = Len(query) /\ DOMAIN query = 1 .. n
  OBVIOUS
<1>2. PICK tx : Texts(query, n, tx) /\ Encode(query) = tx[n]
  BY <1>1, TextsOf
<1>3. Builds(query, n, tx) /\ tx[n] \in Seq(Sent)
  BY <1>2, TextsBuild
<1>4. PICK pf : Gathers(query, n, pf) /\ Params(query) = pf[n]
  BY <1>1, ParamsOf
<1>5. PICK q : q = tx[n] /\ q \in Seq(Sent)
  BY <1>3
<1>6. PICK st : Parsing(q, st) /\ ParseQueryParams(q) = TakeParam(q, st[Len(q)]).params
  BY <1>5, ParseStates
<1>7. Coded \subseteq Sent
  BY DEF Sent
<1>8. \A j \in 0 .. n - 1 : /\ query[j + 1][1] \in Seq(Chars) /\ query[j + 1][2] \in Seq(Chars)
                            /\ query[j + 1][1] # <<>> /\ query[j + 1][2] # <<>>
  <2>1. \A j \in 0 .. n - 1 : j + 1 \in DOMAIN query /\ query[j + 1] \in Seq(Chars) \X Seq(Chars)
    BY <1>1
  <2>2. QED
    BY <2>1
<1>9. \A j \in 0 .. n - 1 : /\ Len(query[j + 1][1]) \in Nat \ {0}
                            /\ Len(query[j + 1][2]) \in Nat \ {0}
  BY <1>8
<1>10. \A j \in 0 .. n - 1 : /\ Added(tx[j], query[j + 1][1], query[j + 1][2], tx[j + 1])
                             /\ Stands(q, 0, tx[j + 1]) /\ (tx[j] = <<>> <=> j = 0)
  BY <1>3, <1>5 DEF Builds
<1>11. First = St("key", 1, 0, 0, 0, pf[0]) /\ tx[0] = <<>>
  BY <1>2, <1>4 DEF First, St, Gathers, Texts
(* One pair, from the state before it. *)
<1>12. ASSUME NEW j \in 0 .. n - 1, NEW v, NEW a \in Nat, a = Start(tx[j]),
              st[a] = St("key", a + 1, v, 0, 0, pf[j])
       PROVE  ReadTo(q, st, tx[j + 1], query[j + 1][1], query[j + 1][2], pf[j])
  <2>1. PICK kw, vw, u, P :
           /\ kw \in Seq(Chars) /\ vw \in Seq(Chars)
           /\ kw = query[j + 1][1] /\ vw = query[j + 1][2] /\ u = tx[j + 1] /\ P = pf[j]
    BY <1>8
  <2>2. /\ kw \in Seq(Chars) /\ vw \in Seq(Chars)
        /\ u \in Seq(Sent) /\ Len(u) = a + Len(kw) + 1 + Len(vw)
        /\ PairAt(u, a, Escape(kw), Escape(vw)) /\ Stands(q, 0, u)
    BY <1>10, <1>12, <2>1 DEF Added
  <2>3. PairAt(q, a, Escape(kw), Escape(vw))
    <3>1. PICK z, ke, ve : z \in Nat /\ z = 0 /\ a = z + a /\ ke = Escape(kw) /\ ve = Escape(vw)
      OBVIOUS
    <3>2. ke \in Seq(Sent) /\ ve \in Seq(Sent)
      <4>1. ke \in Seq(Coded) /\ ve \in Seq(Coded)
        BY <2>1, <3>1, EscapeFacts
      <4>2. QED
        BY <4>1 DEF Sent
    <3>3. PairAt(u, a, ke, ve) /\ Stands(q, z, u)
      BY <2>2, <3>1
    <3>4. PairAt(q, a, ke, ve)
      BY <1>5, <2>2, <3>1, <3>2, <3>3, PairIn
    <3>5. QED
      BY <3>1, <3>4
  <2>4. st[a] = St("key", a + 1, v, 0, 0, P)
    BY <1>12, <2>1
  <2>5. ReadTo(q, st, u, kw, vw, P)
    BY <1>5, <1>6, <1>7, <2>2, <2>3, <2>4, PairRun
  <2>6. QED
    BY <2>1, <2>5
<1> DEFINE S == {j \in Nat : j < n =>
                    ReadTo(q, st, tx[j + 1], query[j + 1][1], query[j + 1][2], pf[j])}
<1>13. 0 \in S
  <2> SUFFICES ASSUME 0 < n
               PROVE  ReadTo(q, st, tx[0 + 1], query[0 + 1][1], query[0 + 1][2], pf[0])
    OBVIOUS
  <2>1. PICK z \in Nat : z = 0 /\ z \in 0 .. n - 1 /\ z + 1 = 1
    OBVIOUS
  <2>2. z = Start(tx[z])
    BY <1>11, <2>1 DEF Start
  <2>3. st[z] = St("key", z + 1, z, 0, 0, pf[z])
    BY <1>6, <1>11, <2>1 DEF Parsing
  <2>4. ReadTo(q, st, tx[z + 1], query[z + 1][1], query[z + 1][2], pf[z])
    BY <1>12, <2>1, <2>2, <2>3
  <2>5. QED
    BY <2>1, <2>4
<1>14. ASSUME NEW i \in Nat, i \in S PROVE i + 1 \in S
  <2> SUFFICES ASSUME i + 1 < n
               PROVE  ReadTo(q, st, tx[(i + 1) + 1], query[(i + 1) + 1][1],
                             query[(i + 1) + 1][2], pf[i + 1])
    OBVIOUS
  <2>1. PICK j : j = i + 1 /\ j \in 0 .. n - 1 /\ i \in 0 .. n - 1 /\ j # 0
    OBVIOUS
  <2>2. PICK t, k1, v1, P, R :
           t = tx[j] /\ k1 = query[j][1] /\ v1 = query[j][2] /\ P = pf[i] /\ R = pf[j]
    OBVIOUS
  <2>3. ReadTo(q, st, t, k1, v1, P)
    BY <1>14, <2>1, <2>2
  <2>4. R = AddParam(P, k1, v1)
    BY <1>4, <2>1, <2>2 DEF Gathers
  <2>5. Len(k1) \in Nat \ {0} /\ Len(v1) \in Nat \ {0}
    BY <1>9, <2>1, <2>2
  <2>6. t \in Seq(Sent) /\ Len(t) \in Nat /\ t # <<>>
    <3>1. t \in Seq(Sent)
      BY <1>10, <2>1, <2>2 DEF Added
    <3>2. t # <<>>
      BY <1>10, <2>1, <2>2
    <3>3. QED
      BY <3>1, <3>2
  <2>7. Len(t) + 1 <= Len(q) /\ q[Len(t) + 1] = "&"
    <3>1. PICK u, l : u = tx[j + 1] /\ l = Len(t) + 1
      OBVIOUS
    <3>2. u \in Seq(Sent) /\ l <= Len(u) /\ u[l] = "&" /\ Stands(q, 0, u)
      BY <1>10, <2>1, <2>2, <2>6, <3>1 DEF Added
    <3>3. l \in 1 .. Len(u) /\ 0 + l = l /\ 0 + Len(u) = Len(u) /\ Len(q) \in Nat
      BY <1>5, <2>6, <3>1, <3>2
    <3>4. q[0 + l] = u[l] /\ 0 + Len(u) <= Len(q)
      BY <3>2, <3>3 DEF Stands
    <3>5. QED
      BY <3>1, <3>2, <3>3, <3>4
  <2>8. PICK v : st[Len(t) + 1] = St("key", Len(t) + 2, v, 0, 0, R)
    <3>1. AtAnd(Sent, q, st, t, k1, v1, P, R)
      BY <1>5, <1>6, <1>7, <2>3, <2>4, <2>5, <2>6, <2>7 DEF AtAnd
    <3>2. QED
      BY <3>1, NextPair
  <2>9. PICK a \in Nat : a = Len(t) + 1 /\ a + 1 = Len(t) + 2
    BY <2>6
  <2>10. a = Start(tx[j])
    BY <2>2, <2>6, <2>9 DEF Start
  <2>11. st[a] = St("key", a + 1, v, 0, 0, pf[j])
    BY <2>2, <2>8, <2>9
  <2>12. ReadTo(q, st, tx[j + 1], query[j + 1][1], query[j + 1][2], pf[j])
    BY <1>12, <2>1, <2>10, <2>11
  <2>13. QED
    BY <2>1, <2>12
<1>15. Nat \subseteq S
  <2> HIDE DEF S
  <2>1. QED
    BY <1>13, <1>14, NatSetInduction
<1>16. CASE n = 0
  <2>1. q = <<>> /\ Len(q) = 0
    BY <1>5, <1>11, <1>16
  <2>2. st[0] = St("key", 1, 0, 0, 0, pf[0])
    BY <1>6, <1>11 DEF Parsing
  <2>3. TakeParam(q, st[0]) = st[0]
    BY <2>2 DEF TakeParam, St
  <2>4. st[0].params = pf[0]
    BY <2>2 DEF St
  <2>5. QED
    BY <1>2, <1>4, <1>5, <1>6, <1>16, <2>1, <2>3, <2>4
<1>17. CASE n # 0
  <2>1. PICK j \in Nat : j = n - 1 /\ j \in 0 .. n - 1 /\ j + 1 = n
    BY <1>17
  <2>2. PICK k1, v1, P : k1 = query[n][1] /\ v1 = query[n][2] /\ P = pf[j]
    OBVIOUS
  <2>3. ReadTo(q, st, q, k1, v1, P)
    <3>1. j \in S
      BY <1>15
    <3>2. QED
      BY <1>5, <2>1, <2>2, <3>1
  <2>4. PICK l \in Nat, m \in Nat : l = Len(k1) /\ m = Len(v1) /\ l # 0 /\ m # 0
    BY <1>9, <2>1, <2>2
  <2>5. PICK k, v : /\ st[Len(q)] = St("value", k, v, l, m, P)
                    /\ url_unescape(Text(q, k, l)) = k1 /\ url_unescape(Text(q, v, m)) = v1
    BY <2>3, <2>4 DEF ReadTo
  <2>6. TakeParam(q, st[Len(q)]) = St("value", k, v, 0, 0, Taken(q, k, v, l, m, P))
    BY <2>4, <2>5, TakePair
  <2>7. Taken(q, k, v, l, m, P) = AddParam(P, k1, v1)
    BY <2>5 DEF Taken
  <2>8. AddParam(P, k1, v1) = pf[n]
    BY <1>4, <2>1, <2>2 DEF Gathers
  <2>9. TakeParam(q, st[Len(q)]).params = pf[n]
    BY <2>6, <2>7, <2>8 DEF St
  <2>10. QED
    BY <1>2, <1>4, <1>5, <1>6, <2>9
<1>18. QED
  BY <1>16, <1>17

(* What QueryExact says of one answer. *)
Told(r) ==
    r # NoReply /\ r.code = 200
    /\ (\A i \in DOMAIN r.query : r.query[i][1] # <<>> /\ r.query[i][2] # <<>>)
        => r.params = Params(r.query)

(* It says no more. *)
LEMMA ToldExact == QueryExact <=> Told(reply)
BY DEF QueryExact, Told, Params

(* The answer of on_http keeps to what the parser reads. *)
LEMMA QueryStep == Told(reply) /\ [Next]_wsvars => Told(reply')
<1> SUFFICES ASSUME Told(reply), [Next]_wsvars PROVE Told(reply')
  OBVIOUS
<1>1. ASSUME NEW n \in Servers, NEW p \in Paths, NEW m \in Methods, NEW query \in Queries,
             on_http(n, p, m, query)
      PROVE  Told(reply')
  <2>1. PICK handler : handler = HandleHttpMsg(p, m)
    OBVIOUS
  <2>2. PICK r : r = reply'
    OBVIOUS
  <2>3. /\ r.query = query
        /\ r.code = CASE ~server[n].m_httpCB -> 400
                      [] handler = NoHandler -> 501
                      [] OTHER -> 200
        /\ r.params = IF server[n].m_httpCB /\ handler # NoHandler
                      THEN ParseQueryParams(Encode(query)) ELSE <<>>
    BY <1>1, <2>1, <2>2 DEF on_http
  <2>4. ASSUME r.code = 200, \A i \in DOMAIN query : query[i][1] # <<>> /\ query[i][2] # <<>>
        PROVE  r.params = Params(r.query)
    <3>1. server[n].m_httpCB /\ handler # NoHandler
      BY <2>3, <2>4
    <3>2. r.params = ParseQueryParams(Encode(query))
      BY <2>3, <3>1, Zenon
    <3>3. query \in Seq(Seq(Chars) \X Seq(Chars))
      BY WSAssumption
    <3>4. ParseQueryParams(Encode(query)) = Params(query)
      BY <2>4, <3>3, ParseEncode
    <3>5. QED
      BY <2>3, <3>2, <3>4
  <2>5. QED
    BY <2>2, <2>3, <2>4 DEF Told
<1>2. ASSUME reply' = NoReply PROVE Told(reply')
  BY <1>2 DEF Told
<1>3. CASE UNCHANGED wsvars
  BY <1>3 DEF wsvars
<1>4. QED
  BY <1>1, <1>2, <1>3
     DEF Next, Answered, StartWs, StartHttp, SetHttpMsgCallBack, StopWs, StopHttp, RegisterApi,
         StartRunServer, on_open, on_close, Quiet

(* A handler is given exactly the parameters that the client sent, however *)
(* many they are and whichever characters and keys they have, as long as   *)
(* no key and no value is empty (ParseQueryParams, HttpHandle.cpp).        *)
THEOREM Exact == Spec => []QueryExact
<1>1. Init => Told(reply)
  BY DEF Init, Told
<1>2. Told(reply) /\ [Next]_wsvars => Told(reply)'
  BY QueryStep
<1>3. QED
  BY <1>1, <1>2, ToldExact, PTL DEF Spec
=============================================================================

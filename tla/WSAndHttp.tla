----------------------------- MODULE WSAndHttp -----------------------------
(***************************************************************************)
(* CWSAndHttpManager (WSAndHttp/WSAndHttpManager.cpp) with the             *)
(* CWebScoketServer objects it makes (WebScoketServer.cpp) and the table   *)
(* of handlers and the query parser of CHttpHandle (HttpHandle.cpp).       *)
(*                                                                         *)
(* StartAction and StopAction run in the owner's thread, one step per      *)
(* access to a shared object; a server's loop thread listens and then runs *)
(* its handlers one at a time, against the owner.  websocketpp and the     *)
(* clients are external.  The owner pairs StartAction with StopAction and  *)
(* calls either only when the loop threads of the last StartAction have    *)
(* read their server: the code has no defence of its own.                  *)
(***************************************************************************)
EXTENDS Naturals, Sequences, SequencesExt

CONSTANTS
    Ports,          \* values of ActionParam: [ws |-> port, http |-> port]
    Paths,          \* paths below the base URL, and Outside
    Outside,        \* an URI that does not begin with the base URL
    Handlers,       \* functions given to RegisterApi
    Conns,          \* websocket connections
    Chars,          \* characters of keys and values, before they are escaped
    Queries,        \* parameters of requests: sequences of <<key, value>>
    MaxServers,     \* bound: CWebScoketServer objects made
    MaxRegister,    \* bound: calls of RegisterApi
    MaxSessions,    \* bound: connections one server sees
    NoHandler, NoReply

ASSUME WSAssumption ==
    /\ Ports \subseteq [ws : Nat, http : Nat] /\ Outside \in Paths
    /\ NoHandler \notin Handlers
    /\ Queries \subseteq Seq(Seq(Chars) \X Seq(Chars))
    /\ {"%26", "%3D"} \cap Chars = {}      \* an escaped character is not one
    /\ {MaxServers, MaxRegister, MaxSessions} \subseteq Nat

VARIABLES
    m_acParam, m_wsServer, m_httpServer,    \* 0 is the null pointer
    server,     \* the servers made, deleted ones included
    owner,      \* where the owner's thread is
    m_apiMapList,
    open,       \* the server each connection is open at, 0 for none
    reply,      \* the request just answered, and how (history)
    regs        \* the registrations (history)

wsvars == <<m_acParam, m_wsServer, m_httpServer, server, owner, m_apiMapList, open, reply, regs>>

Servers == DOMAIN server

(* The record of an answer lasts for one state, and no other step sees it. *)
Quiet == reply = NoReply /\ reply' = NoReply

Methods == {"GET", "POST", "PUT", "DELETE"}

Init ==
    /\ m_acParam \in Ports
    /\ m_wsServer = 0 /\ m_httpServer = 0
    /\ server = <<>>
    /\ owner = "idle"
    /\ m_apiMapList = [p \in {} |-> <<>>]
    /\ open = [c \in Conns |-> 0]
    /\ reply = NoReply /\ regs = <<>>

-----------------------------------------------------------------------------
(* StartAction. *)

(* new CWebScoketServer, with or without a thread that is to run it. *)
NewServer(param, threaded) ==
    [of |-> param, deleted |-> 0, loop |-> IF threaded THEN "created" ELSE "none", m_httpCB |-> FALSE,
     m_next_sessionid |-> 1, m_connections |-> [c \in {} |-> 0]]

Settled == \A n \in Servers : server[n].loop # "created"

StartWs(param) ==
    /\ Quiet
    /\ owner = "idle" /\ m_wsServer = 0 /\ Settled
    /\ Len(server) + 1 < MaxServers
    /\ m_acParam' = param
    /\ server' = Append(server, NewServer(param, param.ws > 0))
    /\ m_wsServer' = Len(server) + 1
    /\ owner' = "http"
    /\ UNCHANGED <<m_httpServer, m_apiMapList, open, regs>>

TwoServers(param) == param.http > 0 /\ param.http # param.ws

StartHttp ==
    /\ Quiet
    /\ owner = "http"
    /\ IF TwoServers(m_acParam)
       THEN server' = Append(server, NewServer(m_acParam, TRUE)) /\ m_httpServer' = Len(server) + 1
       ELSE server' = server /\ m_httpServer' = m_wsServer
    /\ owner' = "callback"
    /\ UNCHANGED <<m_acParam, m_wsServer, m_apiMapList, open, regs>>

SetHttpMsgCallBack ==
    /\ Quiet
    /\ owner = "callback"
    /\ server' = [server EXCEPT ![m_httpServer].m_httpCB = TRUE]
    /\ owner' = "idle"
    /\ UNCHANGED <<m_acParam, m_wsServer, m_httpServer, m_apiMapList, open, regs>>

-----------------------------------------------------------------------------
(* StopAction, which is also the destructor. *)

(* m_server.stop and delete: the loop ends, the connections with it. *)
StopAndDelete(n) ==
    /\ server' = [server EXCEPT ![n] = [NewServer(@.of, FALSE) EXCEPT !.deleted = server[n].deleted + 1]]
    /\ open' = [c \in Conns |-> IF open[c] = n THEN 0 ELSE open[c]]

StopWs ==
    /\ Quiet
    /\ owner = "idle" /\ Settled
    /\ IF m_wsServer # 0 THEN StopAndDelete(m_wsServer) ELSE UNCHANGED <<server, open>>
    /\ m_wsServer' = 0
    /\ owner' = "stop"
    /\ UNCHANGED <<m_acParam, m_httpServer, m_apiMapList, regs>>

StopsHttpAlways == m_httpServer # 0

StopsHttp == m_acParam.http # m_acParam.ws /\ m_httpServer # 0

StopHttp ==
    /\ Quiet
    /\ owner = "stop"
    /\ IF StopsHttp
       THEN StopAndDelete(m_httpServer) /\ m_httpServer' = 0
       ELSE UNCHANGED <<server, open, m_httpServer>>
    /\ owner' = "idle"
    /\ UNCHANGED <<m_acParam, m_wsServer, m_apiMapList, regs>>

-----------------------------------------------------------------------------
(* The other calls of the owner. *)

(* AddApi: the handler of the method is replaced, or the method added. *)
Replaced(list, method, handler) ==
    [i \in DOMAIN list |-> IF list[i][1] = method THEN <<method, handler>> ELSE list[i]]

AddApiBehind(table, path, method, handler) ==
    LET list == IF path \in DOMAIN table THEN table[path] ELSE <<>>
    IN  [p \in DOMAIN table \cup {path} |->
            IF p = path THEN Append(list, <<method, handler>>) ELSE table[p]]

AddApi(table, path, method, handler) ==
    LET list == IF path \in DOMAIN table THEN table[path] ELSE <<>>
        known == \E i \in DOMAIN list : list[i][1] = method
        new == IF known THEN Replaced(list, method, handler)
               ELSE Append(list, <<method, handler>>)
    IN  [p \in DOMAIN table \cup {path} |-> IF p = path THEN new ELSE table[p]]

(* The calls of Handle, and so of AddApi, for one registration. *)
AddApis(table, path, method, handler) ==
    LET Handle(t, m) == AddApi(t, path, m, handler)
    IN  IF method = "ANY"
        THEN Handle(Handle(Handle(Handle(table, "GET"), "POST"), "PUT"), "DELETE")
        ELSE Handle(table, method)

RegisterApi(path, handler, method) ==
    /\ Quiet
    /\ owner = "idle" /\ Len(regs) < MaxRegister
    /\ m_apiMapList' = AddApis(m_apiMapList, path, method, handler)
    /\ regs' = Append(regs, [path |-> path, method |-> method, handler |-> handler])
    /\ UNCHANGED <<m_acParam, m_wsServer, m_httpServer, server, owner, open>>

-----------------------------------------------------------------------------
(* The loop thread of a server: StartRunServer and the handlers. *)

(* listen succeeds, or throws and ends the thread. *)
StartRunServer(n) ==
    /\ Quiet
    /\ server[n].loop = "created"
    /\ \E loop \in {"run", "failed"} : server' = [server EXCEPT ![n].loop = loop]
    /\ UNCHANGED <<m_acParam, m_wsServer, m_httpServer, owner, m_apiMapList, open, regs>>

(* A client's handshake is complete, and the open handler has run. *)
on_open(n, c) ==
    /\ Quiet
    /\ server[n].loop = "run" /\ open[c] = 0
    /\ server[n].m_next_sessionid <= MaxSessions
    /\ LET id == server[n].m_next_sessionid
           cons == server[n].m_connections
       IN  server' = [server EXCEPT
               ![n].m_next_sessionid = id + 1,
               ![n].m_connections = [d \in DOMAIN cons \cup {c} |-> IF d = c THEN id ELSE cons[d]]]
    /\ open' = [open EXCEPT ![c] = n]
    /\ UNCHANGED <<m_acParam, m_wsServer, m_httpServer, owner, m_apiMapList, regs>>

EraseNone(cons, c) == cons

Erase(cons, c) == [d \in DOMAIN cons \ {c} |-> cons[d]]

on_close(n, c) ==
    /\ Quiet
    /\ server[n].loop = "run" /\ open[c] = n
    /\ server' = [server EXCEPT ![n].m_connections = Erase(@, c)]
    /\ open' = [open EXCEPT ![c] = 0]
    /\ UNCHANGED <<m_acParam, m_wsServer, m_httpServer, owner, m_apiMapList, regs>>

GetMethodWithStr(method) == IF method = "DELETE" THEN "POST" ELSE method

GetApi(path, method) ==
    LET list == IF path # Outside /\ path \in DOMAIN m_apiMapList
                THEN m_apiMapList[path] ELSE <<>>
        match == {i \in DOMAIN list : list[i][1] = method}
    IN  IF match = {} THEN NoHandler ELSE list[Min(match)][2]

-----------------------------------------------------------------------------
(* ParseQueryParams, one character at a time.  A key or a value is read    *)
(* from the text at a remembered place, with a counted length.             *)

Text(q, from, len) == SubSeq(q, from, IF from + len - 1 < Len(q) THEN from + len - 1 ELSE Len(q))

url_unescape(s) == [i \in DOMAIN s |-> CASE s[i] = "%26" -> "&" [] s[i] = "%3D" -> "=" [] OTHER -> s[i]]

AddParam(params, key, value) ==
    [k \in DOMAIN params \cup {key} |-> IF k = key THEN value ELSE params[k]]

TakeParamUncounted(q, s) ==
    IF s.key_len = 0 \/ s.value_len = 0 THEN s
    ELSE [s EXCEPT !.params = AddParam(@, url_unescape(Text(q, s.key, s.key_len)),
                                          url_unescape(Text(q, s.value, s.value_len)))]

TakeParam(q, s) ==
    IF s.key_len = 0 \/ s.value_len = 0 THEN s
    ELSE [s EXCEPT !.params = AddParam(@, url_unescape(Text(q, s.key, s.key_len)),
                                          url_unescape(Text(q, s.value, s.value_len))),
                   !.key_len = 0, !.value_len = 0]

ParseChar(q, s, p) ==
    CASE q[p] = "&" -> [TakeParam(q, s) EXCEPT !.inKey = TRUE, !.key = p + 1]
      [] q[p] = "=" -> [s EXCEPT !.inKey = FALSE, !.value = p + 1]
      [] OTHER -> IF s.inKey THEN [s EXCEPT !.key_len = @ + 1] ELSE [s EXCEPT !.value_len = @ + 1]

ParseQueryParams(q) ==
    LET first == [inKey |-> TRUE, key |-> 1, value |-> 0, key_len |-> 0, value_len |-> 0,
                  params |-> [k \in {} |-> <<>>]]
        last == FoldLeft(LAMBDA s, p : ParseChar(q, s, p), first, [i \in DOMAIN q |-> i])
    IN  TakeParam(q, last).params

(* What a client sends for a list of parameters. *)
Escape(s) == [i \in DOMAIN s |-> CASE s[i] = "&" -> "%26" [] s[i] = "=" -> "%3D" [] OTHER -> s[i]]

Encode(query) ==
    LET pair(kv) == Escape(kv[1]) \o <<"=">> \o Escape(kv[2])
    IN  FoldLeft(LAMBDA text, kv : IF text = <<>> THEN pair(kv) ELSE text \o <<"&">> \o pair(kv),
                 <<>>, query)

(* on_http and HandleHttpMsg: 400 without a callback, 501 without a handler. *)
HandleHttpMsg(path, method) == GetApi(path, GetMethodWithStr(method))

on_http(n, path, method, query) ==
    /\ server[n].loop = "run" /\ reply = NoReply
    /\ LET handler == HandleHttpMsg(path, method)
           called == server[n].m_httpCB /\ handler # NoHandler
       IN  reply' = [server |-> n, path |-> path, method |-> method, query |-> query,
                     code |-> CASE ~server[n].m_httpCB -> 400
                                [] handler = NoHandler -> 501
                                [] OTHER -> 200,
                     handler |-> IF called THEN handler ELSE NoHandler,
                     params |-> IF called THEN ParseQueryParams(Encode(query)) ELSE <<>>]
    /\ UNCHANGED <<m_acParam, m_wsServer, m_httpServer, server, owner, m_apiMapList, open, regs>>

-----------------------------------------------------------------------------
Answered ==
    /\ reply # NoReply
    /\ reply' = NoReply
    /\ UNCHANGED <<m_acParam, m_wsServer, m_httpServer, server, owner, m_apiMapList, open, regs>>

Next ==
    \/ Answered
    \/ \E param \in Ports : StartWs(param)
    \/ StartHttp \/ SetHttpMsgCallBack \/ StopWs \/ StopHttp
    \/ \E p \in Paths \ {Outside}, h \in Handlers, m \in Methods \cup {"ANY"} : RegisterApi(p, h, m)
    \/ \E n \in Servers :
          \/ StartRunServer(n)
          \/ \E c \in Conns : on_open(n, c) \/ on_close(n, c)
          \/ \E p \in Paths, m \in Methods, q \in Queries : on_http(n, p, m, q)

Spec == Init /\ [][Next]_wsvars

-----------------------------------------------------------------------------
(* The pointers lead to servers that were made, the one to the websocket   *)
(* server to one that still exists; the connections a server knows are     *)
(* those that are open at it, with different session numbers, however they *)
(* come and go.                                                            *)
TypeOKWs ==
    /\ m_acParam \in Ports /\ owner \in {"idle", "http", "callback", "stop"}
    /\ m_wsServer \in 0 .. Len(server) /\ m_httpServer \in 0 .. Len(server)
    /\ m_wsServer # 0 => server[m_wsServer].deleted = 0
    /\ \A n \in Servers :
          LET cons == server[n].m_connections
          IN  /\ server[n].loop \in {"none", "created", "run", "failed"}
              /\ DOMAIN cons = {c \in Conns : open[c] = n}
              /\ \A c, d \in DOMAIN cons : cons[c] = cons[d] => c = d

(* StopAction deletes what StartAction made, all of it and once: whether   *)
(* the two ports were one or two, through any sequence of the two calls,   *)
(* and with the pointer to the HTTP server that StopAction leaves behind   *)
(* when the ports are equal.  The one exception is HTTP switched off       *)
(* (port 0) beside a websocket server, which is then deleted twice.        *)
DeletedOnce ==
    owner = "idle" /\ m_wsServer = 0 =>
        \A n \in Servers :
            \/ server[n].deleted = 1
            \/ server[n].of.http = 0 /\ server[n].of.ws # 0

(* The handler registered last for a path and a method, or for the path    *)
(* and any method.                                                         *)
Registered(path, method) ==
    LET fits == {i \in DOMAIN regs : regs[i].path = path /\ regs[i].method \in {method, "ANY"}}
    IN  IF fits = {} THEN NoHandler ELSE regs[Max(fits)].handler

(* Once StartAction has returned, the HTTP server answers every request by *)
(* the handler registered last for its path and method, or not at all if   *)
(* there is none: although the loop thread was started before the callback *)
(* was set, and whatever was registered for other methods or for any.      *)
LastRegistered ==
    reply # NoReply /\ reply.method # "DELETE"
    /\ owner = "idle" /\ m_wsServer # 0 /\ reply.server = m_httpServer
        => /\ reply.code # 400
           /\ reply.handler = Registered(reply.path, reply.method)

(* The same of DELETE: a registered request is answered by its callback. *)
DeleteServed ==
    reply # NoReply /\ reply.code # 400 /\ reply.method = "DELETE"
    /\ Registered(reply.path, "DELETE") # NoHandler
        => reply.handler = Registered(reply.path, reply.method)

(* The handler gets the parameters the client encoded, the last one of a   *)
(* name, with the separators that were escaped inside a value; provided    *)
(* that no name and no value is empty.                                     *)
QueryExact ==
    reply # NoReply /\ reply.code = 200
    /\ (\A i \in DOMAIN reply.query : reply.query[i][1] # <<>> /\ reply.query[i][2] # <<>>)
        => reply.params = FoldLeft(LAMBDA params, kv : AddParam(params, kv[1], kv[2]),
                                   [k \in {} |-> <<>>], reply.query)
=============================================================================

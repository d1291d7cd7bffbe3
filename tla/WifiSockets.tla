---------------------------- MODULE WifiSockets -----------------------------
(***************************************************************************)
(* WiFiClient, WiFiServer and WiFiSocketBuffer on the sockets of the WiFi  *)
(* module.  A WiFiClient is no more than a socket number, and so is what a *)
(* WiFiServer remembers of its last client; the bytes already fetched from *)
(* the module wait in a buffer chosen by the same number.  The module's    *)
(* firmware is external: it gives out free numbers, frees one on           *)
(* STOP_CLIENT_TCP, and when asked for the state of a connection that is   *)
(* over.                                                                   *)
(***************************************************************************)
EXTENDS WifiSocketBuffer, FiniteSets

CONSTANTS Clients,     \* the WiFiClient variables of the sketch
          Settings,    \* the sketches, modules and bounds a behaviour may have
          MaxTurns     \* turns of connect()'s loop in its ten seconds

None == 255

ASSUME SocketsAssumption ==
    /\ MaxTurns \in Nat /\ "none" \notin Clients
    /\ Settings \subseteq [uses : SUBSET {"connect", "server"}, slow : BOOLEAN,
                           sockets : 1 .. None, conns : Nat, bytes : Nat]

VARIABLES setting,     \* the one of this behaviour: it never changes
          sock,        \* _sock of each client
          buffer,      \* _buffers of WiFiSocketBuffer
          module,      \* the sockets of the module: state, connection, bytes
          call,        \* connected(), alone or in connect()'s loop
          server,      \* _sock and _lastSock of the server
          conns,       \* history: connections made so far
          inbound,     \* history: those the server accepted
          mine,        \* history: the connection a client was last given
          got,         \* history: bytes read of each connection
          read,        \* history: the last byte read, and the one due
          result       \* history: the last answer, and what it was about

vars == <<sock, buffer, module, call, server, conns, inbound, mine, got, read, result>>

Uses == setting.uses           \* what the sketch does: "connect", "server"
Slow == setting.slow           \* START_CLIENT_TCP is answered before the handshake is over
SocketNum == setting.sockets   \* WIFI_MAX_SOCK_NUM
MaxConns == setting.conns      \* bound: connections
MaxBytes == setting.bytes      \* bound: bytes a peer sends on one

Sockets == 0 .. SocketNum - 1
FreeSocket == [state |-> "free", conn |-> 0, queue |-> <<>>]
NoCall == [op |-> "none", client |-> "none", stage |-> "none", turn |-> 0]
NoResult == [op |-> "none", value |-> FALSE, conn |-> 0, own |-> 0]
NoneGiven == [op |-> "connect", value |-> FALSE, conn |-> 0, own |-> 0]

Init ==
    /\ setting \in Settings
    /\ sock = [c \in Clients |-> None] /\ buffer = [k \in Sockets |-> <<>>]
    /\ module = [k \in Sockets |-> FreeSocket] /\ call = NoCall
    /\ server = [sock |-> None, last |-> None]
    /\ conns = 0 /\ inbound = {} /\ mine = [c \in Clients |-> 0]
    /\ got = [n \in 1 .. MaxConns |-> 0]
    /\ read = [conn |-> 0, n |-> 0, own |-> 0, due |-> 0] /\ result = NoResult

-----------------------------------------------------------------------------
(* The buffer and the module, for socket k                                 *)

Available(k) == Filled(buffer[k], module[k].queue)
Fill(k) == /\ buffer' = [buffer EXCEPT ![k] = Available(k)]
           /\ module' = [module EXCEPT ![k].queue = Left(buffer[k], @)]

(* stop(): the module is told, the buffer emptied.                         *)
StopModule(k) == [module EXCEPT ![k] = FreeSocket]
(* (a bug to be caught: the buffer keeps what was not read)                *)
ClosedKeeps(k) == buffer
Closed(k) == [buffer EXCEPT ![k] = <<>>]

GetSocket(m) == IF \E k \in Sockets : m[k].state = "free"
                THEN Min({k \in Sockets : m[k].state = "free"}) ELSE None

-----------------------------------------------------------------------------
(* WiFiClient                                                              *)

(* connect(), in all its variants: a socket held is stopped first, a new   *)
(* one is asked for, and then connected() is tried for ten seconds.        *)
Connect(c) ==
    LET m == IF sock[c] = None THEN module ELSE StopModule(sock[c])
        k == GetSocket(m)
    IN
    /\ call = NoCall /\ "connect" \in Uses /\ conns < MaxConns
    /\ buffer' = IF sock[c] = None THEN buffer ELSE Closed(sock[c])
    /\ sock' = [sock EXCEPT ![c] = k]
    /\ IF k = None
       THEN /\ module' = m /\ result' = NoneGiven
            /\ UNCHANGED <<call, conns, mine>>
       ELSE /\ conns' = conns + 1 /\ mine' = [mine EXCEPT ![c] = conns + 1]
            /\ \E state \in {"open", "closed"} \cup (IF Slow THEN {"syn"} ELSE {}) :
                 module' = [m EXCEPT ![k] = [state |-> state, conn |-> conns + 1, queue |-> <<>>]]
            /\ call' = [op |-> "connect", client |-> c, stage |-> "available", turn |-> 0]
            /\ UNCHANGED result
    /\ UNCHANGED <<server, inbound, got, read>>

(* connected(), called by the sketch.                                      *)
CallConnected(c) ==
    /\ call = NoCall
    /\ call' = [op |-> "connected", client |-> c, stage |-> "available", turn |-> 0]
    /\ UNCHANGED <<sock, buffer, module, server, conns, inbound, mine, got, read, result>>

(* It is answered; connect() asks again until it is or the time is over.   *)
(* (a bug to be caught: it asks for ever)                                  *)
InTimeAlways == TRUE
InTime == call.turn < MaxTurns
Answer(value, conn) ==
    IF call.op = "connect" /\ ~ value /\ InTime
    THEN /\ call' = [call EXCEPT !.stage = "available", !.turn = Min({@ + 1, MaxTurns})]
         /\ UNCHANGED result
    ELSE /\ call' = NoCall
         /\ result' = [op |-> call.op, value |-> value, conn |-> conn, own |-> mine[call.client]]

(* First: is there anything to read?                                       *)
ConnectedAvailable ==
    LET c == call.client
        k == sock[c]
    IN
    /\ call.stage = "available"
    /\ IF k = None THEN Answer(FALSE, 0) /\ UNCHANGED <<buffer, module>>
       ELSE /\ Fill(k)
            /\ IF Available(k) # <<>> THEN Answer(TRUE, Head(Available(k)).conn)
               ELSE call' = [call EXCEPT !.stage = "status"] /\ UNCHANGED result
    /\ UNCHANGED <<sock, server, conns, inbound, mine, got, read>>

(* Then, by a second question to the module: is the connection open?  If   *)
(* it is not, the socket number is forgotten.                              *)
IsOpen(k) == module[k].state = "open"
ConnectedStatus ==
    LET c == call.client
        k == sock[c]
        open == IsOpen(k)
    IN
    /\ call.stage = "status"
    /\ Answer(open, IF open THEN module[k].conn ELSE 0)
    /\ IF open THEN UNCHANGED <<sock, buffer, module>>
       ELSE /\ sock' = [sock EXCEPT ![c] = None] /\ buffer' = Closed(k)
            /\ module' = IF module[k].state \in {"closed", "close_wait"}
                         THEN StopModule(k) ELSE module
    /\ UNCHANGED <<server, conns, inbound, mine, got, read>>

(* read(): one byte.                                                       *)
Read(c) ==
    LET k == sock[c]
        byte == Head(Available(k))
    IN
    /\ call = NoCall /\ k # None /\ Available(k) # <<>>
    /\ buffer' = [buffer EXCEPT ![k] = Tail(Available(k))]
    /\ module' = [module EXCEPT ![k].queue = Left(buffer[k], @)]
    /\ got' = [got EXCEPT ![byte.conn] = @ + 1]
    /\ read' = [conn |-> byte.conn, n |-> byte.n, own |-> mine[c], due |-> got[byte.conn] + 1]
    /\ UNCHANGED <<sock, call, server, conns, inbound, mine, result>>

(* write() that fails: the module is told to stop, the number is kept.     *)
WriteFails(c) ==
    /\ call = NoCall /\ sock[c] # None
    /\ module[sock[c]].state \in {"free", "closed", "close_wait"}
    /\ module' = StopModule(sock[c])
    /\ UNCHANGED <<sock, buffer, call, server, conns, inbound, mine, got, read, result>>

Stop(c) ==
    /\ call = NoCall /\ sock[c] # None
    /\ module' = StopModule(sock[c]) /\ buffer' = Closed(sock[c])
    /\ sock' = [sock EXCEPT ![c] = None]
    /\ UNCHANGED <<call, server, conns, inbound, mine, got, read, result>>

-----------------------------------------------------------------------------
(* WiFiServer                                                              *)

Begin ==
    LET k == GetSocket(module) IN
    /\ call = NoCall /\ "server" \in Uses /\ server.sock = None /\ k # None
    /\ server' = [server EXCEPT !.sock = k]
    /\ module' = [module EXCEPT ![k].state = "listen"]
    /\ UNCHANGED <<sock, buffer, call, conns, inbound, mine, got, read, result>>

(* available(): the last client, if it has sent more; else a client the    *)
(* module names, or none.  That the last client is not connected frees its *)
(* socket in the module, not the number the server keeps.                  *)
(* (a bug to be caught: the last client is taken unseen)                   *)
LastOfAny == server.last # None
LastHasMore == server.last # None /\ Available(server.last) # <<>>
Over(k) == k # None /\ module[k].state \in {"closed", "close_wait"}
Named == {k \in Sockets : module[k].conn \in inbound /\ module[k].queue # <<>>}
Return(c, k, conn) ==
    /\ server' = [server EXCEPT !.last = k]
    /\ sock' = [sock EXCEPT ![c] = k]
    /\ mine' = [mine EXCEPT ![c] = conn]
    /\ result' = [op |-> "available", value |-> TRUE, conn |-> conn, own |-> conn]
NextClient(c) ==
    /\ call = NoCall /\ server.sock # None
    /\ \/ /\ LastHasMore /\ Fill(server.last)
          /\ Return(c, server.last, IF Available(server.last) = <<>> THEN 0
                                    ELSE Head(Available(server.last)).conn)
       \/ /\ ~ LastHasMore
          /\ module' = IF Over(server.last) THEN StopModule(server.last) ELSE module
          /\ \/ \E k \in Named : Return(c, k, module[k].conn)
             \/ /\ Named = {}
                /\ sock' = [sock EXCEPT ![c] = None] /\ result' = NoResult
                /\ UNCHANGED <<mine, server>>
          /\ UNCHANGED buffer
    /\ UNCHANGED <<call, conns, inbound, got, read>>

-----------------------------------------------------------------------------
(* The module and the peers                                                *)

Accept ==
    LET k == GetSocket(module) IN
    /\ server.sock # None /\ k # None /\ conns < MaxConns
    /\ conns' = conns + 1 /\ inbound' = inbound \cup {conns + 1}
    /\ module' = [module EXCEPT ![k] = [state |-> "open", conn |-> conns + 1, queue |-> <<>>]]
    /\ UNCHANGED <<sock, buffer, call, server, mine, got, read, result>>

Established(k) ==
    /\ module[k].state = "syn"
    /\ \E state \in {"open", "closed"} : module' = [module EXCEPT ![k].state = state]
    /\ UNCHANGED <<sock, buffer, call, server, conns, inbound, mine, got, read, result>>

SentOn(k) == got[module[k].conn] + Len(buffer[k]) + Len(module[k].queue)
PeerSends(k) ==
    /\ module[k].state = "open" /\ SentOn(k) < MaxBytes
    /\ module' = [module EXCEPT ![k].queue =
                    Append(@, [conn |-> module[k].conn, n |-> SentOn(k) + 1])]
    /\ UNCHANGED <<sock, buffer, call, server, conns, inbound, mine, got, read, result>>

PeerCloses(k) ==
    /\ module[k].state = "open"
    /\ module' = [module EXCEPT ![k].state = "close_wait"]
    /\ UNCHANGED <<sock, buffer, call, server, conns, inbound, mine, got, read, result>>

Sketch == \/ \E c \in Clients : \/ Connect(c) \/ CallConnected(c) \/ Read(c) \/ WriteFails(c)
                                \/ Stop(c) \/ NextClient(c)
          \/ Begin
Running == ConnectedAvailable \/ ConnectedStatus
Peers == Accept \/ \E k \in Sockets : Established(k) \/ PeerSends(k) \/ PeerCloses(k)

Next == (Sketch \/ Running \/ Peers) /\ UNCHANGED setting
Spec == Init /\ [][Next]_<<setting, vars>>
FairSpec == Spec /\ WF_vars(Running)

-----------------------------------------------------------------------------
TypeOK ==
    /\ \A c \in Clients : sock[c] \in Sockets \cup {None} /\ mine[c] \in 0 .. MaxConns
    /\ \A k \in Sockets : /\ module[k].state \in {"free", "listen", "syn", "open", "closed", "close_wait"}
                          /\ Len(buffer[k]) <= BufferSize
    /\ call.stage \in {"none", "available", "status"} /\ call.turn \in 0 .. MaxTurns

(* The bytes read last are those of the client's own connection, each once *)
(* and in the order the peer sent them, although they pass a buffer that   *)
(* is shared by all connections that ever have this number.                *)
ReadInOrder == read.conn = read.own /\ read.n = read.due

(* connected() tells of the client's own connection: that it is open, or   *)
(* that there is still something to read of it.                            *)
ConnectedIsTrue == result.op = "connected" /\ result.value => result.conn = result.own

(* connect() that returns false leaves no connection behind.               *)
FailedConnectIsOver ==
    result.op = "connect" /\ ~ result.value =>
        \A k \in Sockets : module[k].conn # 0 /\ module[k].conn = result.own
            => module[k].state \in {"free", "closed"}

(* One client that has the module for itself.                              *)
Alone == Uses = {"connect"} /\ \A c, d \in Clients : c = d

(* Types, and what one client is promised: it reads its own bytes, is told *)
(* of its own connection and, where the handshake is over when connect()   *)
(* first asks, has no other left in the module.                            *)
SocketsInv ==
    /\ TypeOK
    /\ Alone => ReadInOrder /\ ConnectedIsTrue /\ (~ Slow => FailedConnectIsOver)

(* A server hands out clients that connected to it.                        *)
ServerReturnsOwn == result.op = "available" => result.conn \in inbound

(* connected() and connect() return.                                       *)
CallsReturn == (call # NoCall) ~> (call = NoCall)
=============================================================================

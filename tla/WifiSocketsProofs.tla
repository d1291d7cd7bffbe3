-------------------------- MODULE WifiSocketsProofs -------------------------
(***************************************************************************)
(* Clients, servers and UDP sockets over the buffers they share.  What is  *)
(* in the buffer and what the module still has for the socket are one      *)
(* stream, and filling the buffer only moves the line between them; so all *)
(* is said of the stream: a client's holds the bytes its own connection    *)
(* owes it, numbered from the next one, and a datagram's what is left of   *)
(* the datagram announced.                                                 *)
(***************************************************************************)
EXTENDS WifiSockets, WifiUdp, TLAPS, SequenceTheorems, WellFoundedInduction

-----------------------------------------------------------------------------
(* Sequences and the buffer                                                *)
-----------------------------------------------------------------------------
\* A set of naturals has a least element.
LEMMA LeastExists ==
  ASSUME NEW T, T \subseteq Nat, T # {}
  PROVE  Min(T) \in T
<1> DEFINE R == OpToRel(<, Nat)
<1>1. IsWellFoundedOn(R, Nat)
  BY NatLessThanWellFounded
<1> HIDE DEF R
<1>2. PICK x \in T : \A y \in T : ~ (<<y, x>> \in R)
  BY <1>1, WFMin
<1>3. ASSUME NEW y \in T PROVE x <= y
  <2>1. <<y, x>> \in Nat \X Nat
    OBVIOUS
  <2>2. ~ (<<y, x>> \in {ss \in Nat \X Nat : ss[1] < ss[2]})
    BY <1>2 DEF R, OpToRel
  <2> QED BY <2>1, <2>2
<1> QED BY <1>3 DEF Min

\* The lesser of two numbers.
LEMMA MinOfTwo ==
  ASSUME NEW a \in Nat, NEW b \in Nat
  PROVE  /\ Min({a, b}) \in Nat /\ Min({a, b}) <= a /\ Min({a, b}) <= b
         /\ Min({a, b}) = a \/ Min({a, b}) = b
<1>1. \E x \in {a, b} : \A y \in {a, b} : x <= y
  <2>1. CASE a <= b
    BY <2>1
  <2>2. CASE b <= a
    BY <2>2
  <2> QED BY <2>1, <2>2
<1>2. Min({a, b}) \in {a, b} /\ \A y \in {a, b} : Min({a, b}) <= y
  BY <1>1 DEF Min
<1> QED BY <1>2

\* A sequence is its beginning and the rest.
LEMMA Parts ==
  ASSUME NEW S, NEW s \in Seq(S), NEW n \in Nat
  PROVE  /\ UpTo(s, n) \in Seq(S) /\ From(s, Len(UpTo(s, n)) + 1) \in Seq(S)
         /\ Len(UpTo(s, n)) \in Nat /\ Len(UpTo(s, n)) <= n /\ Len(UpTo(s, n)) <= Len(s)
         /\ Len(UpTo(s, n)) = n \/ Len(UpTo(s, n)) = Len(s)
         /\ \A i \in 1 .. Len(UpTo(s, n)) : UpTo(s, n)[i] = s[i]
         /\ Len(From(s, Len(UpTo(s, n)) + 1)) = Len(s) - Len(UpTo(s, n))
         /\ \A i \in 1 .. Len(From(s, Len(UpTo(s, n)) + 1)) :
              From(s, Len(UpTo(s, n)) + 1)[i] = s[Len(UpTo(s, n)) + i]
<1> DEFINE m == Min({n, Len(s)})
<1>1. Len(s) \in Nat
  OBVIOUS
<1>2. m \in Nat /\ m <= n /\ m <= Len(s) /\ (m = n \/ m = Len(s))
  BY <1>1, MinOfTwo
<1> HIDE DEF m
<1>3. UpTo(s, n) = SubSeq(s, 1, m)
  BY DEF UpTo, m
<1>4. /\ SubSeq(s, 1, m) \in Seq(S) /\ Len(SubSeq(s, 1, m)) = m
      /\ \A i \in 1 .. m : SubSeq(s, 1, m)[i] = s[i]
  BY <1>1, <1>2
<1>5. From(s, Len(UpTo(s, n)) + 1) = SubSeq(s, m + 1, Len(s))
  BY <1>3, <1>4 DEF From
<1>6. /\ SubSeq(s, m + 1, Len(s)) \in Seq(S) /\ Len(SubSeq(s, m + 1, Len(s))) = Len(s) - m
      /\ \A i \in 1 .. Len(s) - m : SubSeq(s, m + 1, Len(s))[i] = s[m + i]
  BY <1>1, <1>2
<1> QED BY <1>2, <1>3, <1>4, <1>5, <1>6

\* Filling the buffer moves bytes from the module into it and no others, and it is
\* empty then only if there were none at all.
LEMMA Filling ==
  ASSUME NEW S, NEW d \in Seq(S), NEW q \in Seq(S)
  PROVE  /\ Filled(d, q) \in Seq(S) /\ Left(d, q) \in Seq(S)
         /\ Filled(d, q) \o Left(d, q) = d \o q
         /\ Filled(d, q) = <<>> => d = <<>> /\ q = <<>>
         /\ Len(d) <= BufferSize => Len(Filled(d, q)) <= BufferSize
<1>1. CASE d # <<>>
  BY <1>1 DEF Filled, Left
<1>2. CASE d = <<>>
  <2> DEFINE u == UpTo(q, BufferSize)
             f == From(q, Len(u) + 1)
  <2>1. BufferSize \in Nat /\ BufferSize > 0 /\ Len(q) \in Nat
    BY BufferAssumption
  <2>2. /\ u \in Seq(S) /\ f \in Seq(S) /\ Len(u) \in Nat /\ Len(u) <= BufferSize
        /\ Len(u) <= Len(q) /\ (Len(u) = BufferSize \/ Len(u) = Len(q))
        /\ \A i \in 1 .. Len(u) : u[i] = q[i]
        /\ Len(f) = Len(q) - Len(u) /\ \A i \in 1 .. Len(f) : f[i] = q[Len(u) + i]
    BY <2>1, Parts
  <2> HIDE DEF u, f
  <2>3. Filled(d, q) = u /\ Left(d, q) = f
    BY <1>2 DEF Filled, Left, u, f
  <2>4. u \o f = q
    <3>1. Len(u \o f) = Len(q) /\ u \o f \in Seq(S)
      BY <2>1, <2>2
    <3>2. ASSUME NEW i \in 1 .. Len(q) PROVE (u \o f)[i] = q[i]
      <4>1. CASE i <= Len(u)
        BY <2>1, <2>2, <4>1
      <4>2. CASE i > Len(u)
        <5>1. i - Len(u) \in 1 .. Len(f)
          BY <2>1, <2>2, <4>2
        <5>2. (u \o f)[i] = f[i - Len(u)]
          BY <2>1, <2>2, <4>2
        <5> QED BY <2>1, <2>2, <5>1, <5>2
      <4> QED BY <2>1, <2>2, <4>1, <4>2
    <3> QED BY <3>1, <3>2, SeqEqual
  <2>5. u = <<>> <=> q = <<>>
    BY <2>1, <2>2
  <2>6. d \o q = q
    BY <1>2
  <2> QED BY <1>2, <2>2, <2>3, <2>4, <2>5, <2>6
<1> QED BY <1>1, <1>2

\* The first byte of a stream, and what stays of it.
LEMMA FirstOf ==
  ASSUME NEW S, NEW a \in Seq(S), NEW b \in Seq(S), a # <<>>
  PROVE  /\ Head(a) \in S /\ Tail(a) \in Seq(S) /\ Len(Tail(a)) = Len(a) - 1
         /\ a \o b \in Seq(S) /\ Len(a \o b) \in Nat /\ Len(a \o b) >= 1
         /\ Head(a) = (a \o b)[1]
         /\ Tail(a) \o b = Tail(a \o b)
<1>1. Len(a) \in Nat /\ Len(b) \in Nat /\ Len(a) >= 1
  OBVIOUS
<1>2. /\ Head(a) \in S /\ Tail(a) \in Seq(S) /\ Len(Tail(a)) = Len(a) - 1
      /\ a \o b \in Seq(S) /\ Len(a \o b) = Len(a) + Len(b) /\ Head(a) = (a \o b)[1]
  BY <1>1
<1>3. /\ Tail(a) \o b \in Seq(S) /\ Tail(a \o b) \in Seq(S)
      /\ Len(Tail(a) \o b) = Len(Tail(a \o b))
  BY <1>1, <1>2
<1>4. ASSUME NEW i \in 1 .. Len(Tail(a) \o b) PROVE (Tail(a) \o b)[i] = Tail(a \o b)[i]
  BY <1>1, <1>2
<1>5. Tail(a) \o b = Tail(a \o b)
  BY <1>3, <1>4, SeqEqual
<1> QED BY <1>1, <1>2, <1>5

-----------------------------------------------------------------------------
(* The types of the sockets                                                *)
-----------------------------------------------------------------------------
States == {"free", "listen", "syn", "open", "closed", "close_wait"}
Byte(n) == [conn : 1 .. n, n : Nat]
Socket(n) == [state : States, conn : 0 .. n, queue : Seq(Byte(n))]
Call == [op : {"connect", "connected"}, client : Clients, stage : {"available", "status"},
         turn : 0 .. MaxTurns]
Result(n) == [op : {"none", "connect", "connected", "available"}, value : BOOLEAN,
              conn : 0 .. n, own : 0 .. n]

\* A number without a connection is free, or the server's.
Idle(m) == /\ m.state \in {"free", "listen"} => m.conn = 0
           /\ m.conn = 0 => m.state \in {"free", "listen"}

\* Types, with what they rest on: the connection of a number is over when the number
\* is free, and a call that asks for the state of a connection has a number.
Types ==
  /\ setting \in Settings
  /\ sock \in [Clients -> Sockets \cup {None}]
  /\ buffer \in [Sockets -> Seq(Byte(MaxConns))]
  /\ \A k \in Sockets : Len(buffer[k]) <= BufferSize
  /\ module \in [Sockets -> Socket(MaxConns)]
  /\ \A k \in Sockets : module[k].conn <= conns
  /\ \A k \in Sockets : Idle(module[k])
  /\ call \in Call \cup {NoCall}
  /\ call # NoCall /\ call.stage = "status" => sock[call.client] # None
  /\ server \in [sock : Sockets \cup {None}, last : Sockets \cup {None}]
  /\ conns \in 0 .. MaxConns /\ inbound \subseteq 1 .. conns
  /\ mine \in [Clients -> 0 .. MaxConns]
  /\ got \in [1 .. MaxConns -> Nat]
  /\ result \in Result(MaxConns)

\* The setting's parts.
LEMMA Limits ==
  ASSUME setting \in Settings
  PROVE  /\ SocketNum \in Nat /\ SocketNum >= 1 /\ SocketNum <= 255
         /\ MaxConns \in Nat /\ MaxBytes \in Nat
         /\ Uses \subseteq {"connect", "server"} /\ Slow \in BOOLEAN
         /\ None \notin Sockets /\ Sockets \subseteq Nat
         /\ MaxTurns \in Nat /\ "none" \notin Clients
BY SocketsAssumption DEF SocketNum, MaxConns, MaxBytes, Uses, Slow, None, Sockets

\* They never change.
LEMMA LimitsStay ==
  ASSUME setting' = setting
  PROVE  /\ Sockets' = Sockets /\ MaxConns' = MaxConns /\ MaxBytes' = MaxBytes
         /\ Uses' = Uses /\ Slow' = Slow /\ Alone' = Alone
BY DEF SocketNum, MaxConns, MaxBytes, Uses, Slow, Sockets, Alone

\* The module gives a free number, or none.
LEMMA FreeNumber ==
  ASSUME setting \in Settings, NEW m
  PROVE  GetSocket(m) = None \/ (GetSocket(m) \in Sockets /\ m[GetSocket(m)].state = "free")
<1> DEFINE T == {k \in Sockets : m[k].state = "free"}
<1>1. CASE \E k \in Sockets : m[k].state = "free"
  <2>1. T \subseteq Nat /\ T # {}
    BY <1>1, Limits
  <2>2. Min(T) \in T
    BY <2>1, LeastExists
  <2> QED BY <1>1, <2>2 DEF GetSocket
<1>2. CASE ~ \E k \in Sockets : m[k].state = "free"
  BY <1>2 DEF GetSocket
<1> QED BY <1>1, <1>2

\* A free socket is a socket, and so is every one after it is stopped.
LEMMA StopTypes ==
  ASSUME Types, NEW k \in Sockets
  PROVE  /\ StopModule(k) \in [Sockets -> Socket(MaxConns)]
         /\ StopModule(k)[k] = FreeSocket
         /\ \A j \in Sockets : j # k => StopModule(k)[j] = module[j]
         /\ Closed(k) \in [Sockets -> Seq(Byte(MaxConns))]
         /\ Closed(k)[k] = <<>>
         /\ \A j \in Sockets : j # k => Closed(k)[j] = buffer[j]
         /\ FreeSocket.state = "free" /\ FreeSocket.conn = 0 /\ FreeSocket.queue = <<>>
<1>1. FreeSocket \in Socket(MaxConns) /\ <<>> \in Seq(Byte(MaxConns))
  BY Limits DEF FreeSocket, Socket, States, Types
<1> QED BY <1>1 DEF StopModule, Closed, Types, FreeSocket

\* What is fetched and not read, and what the module has: the stream of a number.
Stream(k) == buffer[k] \o module[k].queue

\* m is the module when the buffer of number k is filled.
Refilled(k, m) == m = [module EXCEPT ![k].queue = Left(buffer[k], @)]

\* Filling keeps the types and the stream.
LEMMA FillTypes ==
  ASSUME Types, NEW k \in Sockets, NEW m, Refilled(k, m)
  PROVE  /\ Available(k) \in Seq(Byte(MaxConns)) /\ Len(Available(k)) <= BufferSize
         /\ m \in [Sockets -> Socket(MaxConns)]
         /\ m[k] = [module[k] EXCEPT !.queue = Left(buffer[k], module[k].queue)]
         /\ m[k].state = module[k].state /\ m[k].conn = module[k].conn
         /\ \A j \in Sockets : j # k => m[j] = module[j]
         /\ m[k].queue \in Seq(Byte(MaxConns))
         /\ Available(k) \o m[k].queue = Stream(k)
         /\ Stream(k) \in Seq(Byte(MaxConns))
         /\ Available(k) = <<>> => buffer[k] = <<>> /\ module[k].queue = <<>>
<1>1. /\ buffer[k] \in Seq(Byte(MaxConns)) /\ Len(buffer[k]) <= BufferSize
      /\ module[k] \in Socket(MaxConns) /\ module[k].queue \in Seq(Byte(MaxConns))
  BY DEF Types, Socket
<1>2. m[k] = [module[k] EXCEPT !.queue = Left(buffer[k], module[k].queue)]
  BY DEF Types, Refilled
<1>3. /\ Available(k) \in Seq(Byte(MaxConns)) /\ Len(Available(k)) <= BufferSize
      /\ Left(buffer[k], module[k].queue) \in Seq(Byte(MaxConns))
      /\ Available(k) \o Left(buffer[k], module[k].queue) = Stream(k)
      /\ Available(k) = <<>> => buffer[k] = <<>> /\ module[k].queue = <<>>
  <2> DEFINE B == Byte(MaxConns)
  <2>1. buffer[k] \in Seq(B) /\ module[k].queue \in Seq(B)
    BY <1>1
  <2> HIDE DEF B
  <2>2. /\ Filled(buffer[k], module[k].queue) \in Seq(B)
        /\ Left(buffer[k], module[k].queue) \in Seq(B)
        /\ Filled(buffer[k], module[k].queue) \o Left(buffer[k], module[k].queue)
             = buffer[k] \o module[k].queue
        /\ Filled(buffer[k], module[k].queue) = <<>> => buffer[k] = <<>> /\ module[k].queue = <<>>
        /\ Len(buffer[k]) <= BufferSize => Len(Filled(buffer[k], module[k].queue)) <= BufferSize
    BY <2>1, Filling
  <2> QED BY <1>1, <2>2 DEF Available, Stream, B
<1>4. /\ m[k] \in Socket(MaxConns) /\ m[k].state = module[k].state /\ m[k].conn = module[k].conn
      /\ m[k].queue = Left(buffer[k], module[k].queue)
  BY <1>1, <1>2, <1>3 DEF Socket
<1>5. \A j \in Sockets : j # k => m[j] = module[j]
  BY DEF Types, Refilled
<1>6. m \in [Sockets -> Socket(MaxConns)]
  BY <1>4, <1>5 DEF Types, Refilled
<1>7. Stream(k) \in Seq(Byte(MaxConns))
  BY <1>1 DEF Stream
<1> QED BY <1>2, <1>3, <1>4, <1>5, <1>6, <1>7

\* It changes no connection.
LEMMA FillKeeps ==
  ASSUME Types, NEW k \in Sockets, NEW m, Refilled(k, m), NEW j \in Sockets
  PROVE  m[j].state = module[j].state /\ m[j].conn = module[j].conn
<1>1. /\ m[k].state = module[k].state /\ m[k].conn = module[k].conn
      /\ \A i \in Sockets : i # k => m[i] = module[i]
  BY FillTypes
<1> QED BY <1>1

\* h is module m with number k given to connection n.
Given(h, m, k, state, n) ==
  /\ state \in {"syn", "open", "closed"}
  /\ h = [m EXCEPT ![k] = [state |-> state, conn |-> n, queue |-> <<>>]]

\* A number given to a connection.
LEMMA GivenTypes ==
  ASSUME Types, NEW m \in [Sockets -> Socket(MaxConns)], NEW k \in Sockets,
         NEW state, NEW n \in 1 .. MaxConns, NEW h, Given(h, m, k, state, n)
  PROVE  /\ h \in [Sockets -> Socket(MaxConns)]
         /\ h[k].state = state /\ h[k].conn = n /\ h[k].queue = <<>>
<1>1. [state |-> state, conn |-> n, queue |-> <<>>] \in Socket(MaxConns)
  BY DEF Socket, States, Given
<1> QED BY <1>1 DEF Given

\* The others keep what they have.
LEMMA GivenOthers ==
  ASSUME NEW m \in [Sockets -> Socket(MaxConns)], NEW k, NEW state, NEW n, NEW h,
         Given(h, m, k, state, n), NEW j \in Sockets, j # k
  PROVE  h[j] = m[j]
BY DEF Given

\* connect() with m and b for module and buffers once the connection it had is
\* stopped, and with number k.
Connects(c, m, b, k) ==
  /\ m \in [Sockets -> Socket(MaxConns)] /\ b \in [Sockets -> Seq(Byte(MaxConns))]
  /\ \A j \in Sockets : \/ j = sock[c] /\ m[j] = FreeSocket /\ b[j] = <<>>
                        \/ j # sock[c] /\ m[j] = module[j] /\ b[j] = buffer[j]
  /\ k = None \/ (k \in Sockets /\ m[k].state = "free")
  /\ call = NoCall /\ "connect" \in Uses /\ conns < MaxConns
  /\ UNCHANGED <<server, inbound, got, read>>
  /\ buffer' = b /\ sock' = [sock EXCEPT ![c] = k]
  /\ \/ /\ k = None /\ module' = m /\ UNCHANGED <<call, conns, mine>>
        /\ result' = NoneGiven
     \/ /\ k \in Sockets /\ conns' = conns + 1
        /\ mine' = [mine EXCEPT ![c] = conns + 1] /\ result' = result
        /\ call' = [op |-> "connect", client |-> c, stage |-> "available", turn |-> 0]
        /\ \E state \in {"open", "closed"} \cup (IF Slow THEN {"syn"} ELSE {}) :
             module' = [m EXCEPT ![k] = [state |-> state, conn |-> conns + 1, queue |-> <<>>]]

\* What connect() does.
LEMMA ConnectIs ==
  ASSUME Types, NEW c \in Clients, Connect(c)
  PROVE  \E m, b, k : Connects(c, m, b, k)
<1> DEFINE m == IF sock[c] = None THEN module ELSE StopModule(sock[c])
           b == IF sock[c] = None THEN buffer ELSE Closed(sock[c])
           k == GetSocket(m)
<1>1. None \notin Sockets /\ sock[c] \in Sockets \cup {None}
  BY Limits DEF Types
<1>2. /\ m \in [Sockets -> Socket(MaxConns)] /\ b \in [Sockets -> Seq(Byte(MaxConns))]
      /\ \A j \in Sockets : \/ j = sock[c] /\ m[j] = FreeSocket /\ b[j] = <<>>
                            \/ j # sock[c] /\ m[j] = module[j] /\ b[j] = buffer[j]
  <2>1. CASE sock[c] = None
    BY <1>1, <2>1 DEF Types
  <2>2. CASE sock[c] # None
    BY <1>1, <2>2, StopTypes
  <2> QED BY <2>1, <2>2
<1>3. k = None \/ (k \in Sockets /\ m[k].state = "free")
  BY FreeNumber DEF Types
<1>4. /\ call = NoCall /\ "connect" \in Uses /\ conns < MaxConns
      /\ UNCHANGED <<server, inbound, got, read>>
  BY DEF Connect
<1>5. buffer' = b /\ sock' = [sock EXCEPT ![c] = k]
  BY DEF Connect
<1>6. \/ /\ k = None /\ module' = m /\ UNCHANGED <<call, conns, mine>>
         /\ result' = NoneGiven
      \/ /\ k \in Sockets /\ conns' = conns + 1
         /\ mine' = [mine EXCEPT ![c] = conns + 1] /\ result' = result
         /\ call' = [op |-> "connect", client |-> c, stage |-> "available", turn |-> 0]
         /\ \E state \in {"open", "closed"} \cup (IF Slow THEN {"syn"} ELSE {}) :
              module' = [m EXCEPT ![k] = [state |-> state, conn |-> conns + 1, queue |-> <<>>]]
  <2>1. CASE k = None
    BY <2>1, Zenon DEF Connect
  <2>2. CASE k \in Sockets
    <3>1. k # None
      BY <1>1, <2>2
    <3> QED BY <2>2, <3>1, Zenon DEF Connect
  <2> QED BY <1>3, <2>1, <2>2
<1> HIDE DEF m, b, k
<1>7. Connects(c, m, b, k)
  BY <1>2, <1>3, <1>4, <1>5, <1>6, Zenon DEF Connects
<1> QED BY <1>7

\* An answer to connected(): it is returned, or connect() asks again.
LEMMA AnswerTypes ==
  ASSUME Types, call # NoCall, NEW value \in BOOLEAN, NEW conn \in 0 .. MaxConns,
         Answer(value, conn)
  PROVE  /\ call' \in Call \cup {NoCall} /\ result' \in Result(MaxConns)
         /\ call' # NoCall => call'.stage = "available"
         /\ \/ /\ call.op = "connect" /\ ~ value /\ result' = result
               /\ call' # NoCall /\ call'.client = call.client /\ call'.op = "connect"
            \/ /\ call' = NoCall
               /\ result' = [op |-> call.op, value |-> value, conn |-> conn,
                             own |-> mine[call.client]]
<1>1. call \in Call /\ call.client \in Clients /\ call.turn \in 0 .. MaxTurns
  BY DEF Types, Call
<1>2. MaxTurns \in Nat /\ "none" \notin Clients
  BY SocketsAssumption
<1>3. CASE call.op = "connect" /\ ~ value /\ InTime
  <2>1. Min({call.turn + 1, MaxTurns}) \in 0 .. MaxTurns
    BY <1>1, <1>2, MinOfTwo
  <2>2. /\ call' = [call EXCEPT !.stage = "available", !.turn = Min({call.turn + 1, MaxTurns})]
        /\ result' = result
    BY <1>3 DEF Answer
  <2>3. call' \in Call /\ call'.stage = "available" /\ call'.client = call.client
        /\ call'.op = "connect"
    BY <1>1, <1>3, <2>1, <2>2 DEF Call
  <2>4. call' # NoCall
    BY <1>2, <2>3 DEF Call, NoCall
  <2> QED BY <1>3, <2>2, <2>3, <2>4 DEF Types
<1>4. CASE ~ (call.op = "connect" /\ ~ value /\ InTime)
  <2>1. call' = NoCall /\ result' = [op |-> call.op, value |-> value, conn |-> conn,
                                     own |-> mine[call.client]]
    BY <1>4 DEF Answer
  <2>2. mine[call.client] \in 0 .. MaxConns /\ call.op \in {"connect", "connected"}
    BY <1>1 DEF Types, Call
  <2> QED BY <2>1, <2>2 DEF Result
<1> QED BY <1>3, <1>4

\* connect() keeps the types.
LEMMA ConnectTypes ==
  ASSUME Types, setting' = setting, NEW c \in Clients, Connect(c)
  PROVE  Types'
<1>1. PICK m, b, k : Connects(c, m, b, k)
  BY ConnectIs
<1>2. /\ Sockets' = Sockets /\ MaxConns' = MaxConns /\ MaxConns \in Nat /\ None \notin Sockets
      /\ conns \in 0 .. MaxConns
  BY Limits, LimitsStay DEF Types
<1>3. /\ \A j \in Sockets : Len(b[j]) <= BufferSize
      /\ \A j \in Sockets : m[j].conn <= conns
      /\ \A j \in Sockets : Idle(m[j])
  <2>1. /\ FreeSocket.state = "free" /\ FreeSocket.conn = 0 /\ Len(<<>>) = 0
        /\ BufferSize \in Nat
    BY BufferAssumption DEF FreeSocket
  <2>2. Idle(FreeSocket)
    BY <2>1 DEF Idle
  <2>3. conns \in Nat /\ conns >= 0
    BY <1>2
  <2>4. ASSUME NEW j \in Sockets
        PROVE  Len(b[j]) <= BufferSize /\ m[j].conn <= conns /\ Idle(m[j])
    <3>1. CASE m[j] = FreeSocket /\ b[j] = <<>>
      BY <2>1, <2>2, <2>3, <3>1
    <3>2. CASE m[j] = module[j] /\ b[j] = buffer[j]
      BY <3>2 DEF Types
    <3> QED BY <1>1, <3>1, <3>2 DEF Connects
  <2> QED BY <2>4
<1>4. /\ setting' \in Settings /\ sock' \in [Clients -> Sockets' \cup {None}]
      /\ buffer' \in [Sockets' -> Seq(Byte(MaxConns'))]
      /\ \A j \in Sockets' : Len(buffer'[j]) <= BufferSize
      /\ server' \in [sock : Sockets' \cup {None}, last : Sockets' \cup {None}]
      /\ got' \in [1 .. MaxConns' -> Nat]
  <2>1. /\ buffer' = b /\ b \in [Sockets -> Seq(Byte(MaxConns))]
        /\ sock' = [sock EXCEPT ![c] = k] /\ k \in Sockets \cup {None}
        /\ server' = server /\ got' = got
    BY <1>1 DEF Connects
  <2> QED BY <1>2, <1>3, <2>1 DEF Types
<1>5. CASE k = None
  <2>1. /\ module' = m /\ m \in [Sockets -> Socket(MaxConns)] /\ UNCHANGED <<call, conns, mine, inbound>>
        /\ result' = NoneGiven /\ call = NoCall
    BY <1>1, <1>2, <1>5 DEF Connects
  <2>2. result' \in Result(MaxConns)
    BY <1>2, <2>1 DEF NoneGiven, Result
  <2> QED BY <1>2, <1>3, <1>4, <2>1, <2>2 DEF Types
<1>6. CASE k \in Sockets
  <2>1. k # None
    BY <1>2, <1>6
  <2>2. PICK state \in {"open", "closed", "syn"} : Given(module', m, k, state, conns + 1)
    BY <1>1, <2>1 DEF Connects, Given
  <2>3. /\ m \in [Sockets -> Socket(MaxConns)] /\ conns' = conns + 1 /\ conns < MaxConns
        /\ mine' = [mine EXCEPT ![c] = conns + 1] /\ result' = result /\ inbound' = inbound
        /\ call' = [op |-> "connect", client |-> c, stage |-> "available", turn |-> 0]
    BY <1>1, <2>1 DEF Connects
  <2>4. conns + 1 \in 1 .. MaxConns
    BY <1>2, <2>3
  <2>5. /\ module' \in [Sockets -> Socket(MaxConns)] /\ module'[k].state = state
        /\ module'[k].conn = conns + 1
    BY <1>6, <2>2, <2>3, <2>4, GivenTypes
  <2>6. /\ \A j \in Sockets : module'[j].conn <= conns'
        /\ \A j \in Sockets : Idle(module'[j])
    <3>1. ASSUME NEW j \in Sockets, j # k
          PROVE  /\ module'[j].conn <= conns'
                 /\ Idle(module'[j])
      <4>1. m[j].conn <= conns /\ m[j].conn \in Nat
        BY <1>3, <2>3 DEF Socket
      <4>2. module'[j] = m[j] /\ conns' = conns + 1
        BY <2>2, <2>3, <3>1, GivenOthers
      <4>3. Idle(m[j])
        BY <1>3
      <4>4. Idle(module'[j])
        BY <4>2, <4>3
      <4> QED BY <1>2, <4>1, <4>2, <4>4
    <3>2. /\ module'[k].conn <= conns' /\ module'[k].conn # 0
          /\ Idle(module'[k])
      BY <1>2, <2>2, <2>3, <2>5 DEF Idle
    <3> QED BY <3>1, <3>2
  <2>7. call' \in Call /\ call'.stage = "available"
    BY <2>3, Limits DEF Call, Types
  <2>8. mine' \in [Clients -> 0 .. MaxConns] /\ conns' \in 0 .. MaxConns /\ inbound' \subseteq 1 .. conns'
    BY <1>2, <2>3, <2>4 DEF Types
  <2>9. result' \in Result(MaxConns)
    BY <2>3 DEF Types
  <2> QED BY <1>2, <1>4, <2>5, <2>6, <2>7, <2>8, <2>9 DEF Types
<1> QED BY <1>1, <1>5, <1>6 DEF Connects

\* connected()'s first question keeps the types.
LEMMA ConnectedAvailableTypes ==
  ASSUME Types, setting' = setting, ConnectedAvailable
  PROVE  Types'
<1> DEFINE c == call.client
           k == sock[c]
<1>1. /\ Sockets' = Sockets /\ MaxConns' = MaxConns /\ MaxConns \in Nat /\ None \notin Sockets
      /\ call # NoCall /\ c \in Clients /\ k \in Sockets \cup {None} /\ call \in Call
      /\ UNCHANGED <<sock, server, conns, inbound, mine, got, read>>
  BY Limits, LimitsStay DEF Types, ConnectedAvailable, NoCall, Call
<1>2. CASE k = None
  <2>1. Answer(FALSE, 0) /\ UNCHANGED <<buffer, module>>
    BY <1>2 DEF ConnectedAvailable
  <2>2. \E v \in BOOLEAN, n \in 0 .. MaxConns : Answer(v, n)
    <3>1. FALSE \in BOOLEAN /\ 0 \in 0 .. MaxConns
      BY <1>1
    <3> QED BY <2>1, <3>1, Zenon
  <2>3. /\ call' \in Call \cup {NoCall} /\ result' \in Result(MaxConns)
        /\ call' # NoCall => call'.stage = "available"
    BY <1>1, <2>2, AnswerTypes
  <2> QED BY <1>1, <2>1, <2>3 DEF Types
<1>3. CASE k \in Sockets
  <2> HIDE DEF k
  <2>1. /\ buffer' = [buffer EXCEPT ![k] = Available(k)]
        /\ Refilled(k, module')
        /\ IF Available(k) # <<>> THEN Answer(TRUE, Head(Available(k)).conn)
           ELSE call' = [call EXCEPT !.stage = "status"] /\ UNCHANGED result
    BY <1>1, <1>3 DEF ConnectedAvailable, Fill, Refilled, k
  <2>2. /\ Available(k) \in Seq(Byte(MaxConns)) /\ Len(Available(k)) <= BufferSize
        /\ module' \in [Sockets -> Socket(MaxConns)]
    BY <1>3, <2>1, FillTypes
  <2>3. /\ buffer' \in [Sockets -> Seq(Byte(MaxConns))]
        /\ \A j \in Sockets : Len(buffer'[j]) <= BufferSize
    BY <1>3, <2>1, <2>2 DEF Types
  <2>5. \A j \in Sockets : module'[j].conn <= conns' /\ Idle(module'[j])
    <3>1. ASSUME NEW j \in Sockets PROVE module'[j].conn <= conns' /\ Idle(module'[j])
      <4>1. module'[j].state = module[j].state /\ module'[j].conn = module[j].conn
        BY <1>3, <2>1, FillKeeps
      <4> QED BY <1>1, <4>1 DEF Types, Idle
    <3> QED BY <3>1
  <2>4. /\ call' \in Call \cup {NoCall} /\ result' \in Result(MaxConns)
        /\ call' # NoCall /\ call'.stage = "status" => sock'[call'.client] # None
    <3>1. CASE Available(k) # <<>>
      <4>1. Head(Available(k)) \in Byte(MaxConns)
        BY <2>2, <3>1
      <4>2. Head(Available(k)).conn \in 0 .. MaxConns
        BY <1>1, <4>1 DEF Byte
      <4>3. \E v \in BOOLEAN, n \in 0 .. MaxConns : Answer(v, n)
        BY <2>1, <3>1, <4>2
      <4> QED BY <1>1, <4>3, AnswerTypes
    <3>2. CASE Available(k) = <<>>
      <4>1. call' = [call EXCEPT !.stage = "status"] /\ result' = result
        BY <2>1, <3>2
      <4>2. call' \in Call /\ call'.client = c
        BY <1>1, <4>1 DEF Call
      <4> QED BY <1>1, <1>3, <4>1, <4>2 DEF Types, k
    <3> QED BY <3>1, <3>2
  <2> QED BY <1>1, <2>2, <2>3, <2>4, <2>5 DEF Types
<1> QED BY <1>1, <1>2, <1>3

\* connected()'s second question keeps the types.
LEMMA ConnectedStatusTypes ==
  ASSUME Types, setting' = setting, ConnectedStatus
  PROVE  Types'
<1> DEFINE c == call.client
           k == sock[c]
<1>1. /\ Sockets' = Sockets /\ MaxConns' = MaxConns /\ MaxConns \in Nat /\ None \notin Sockets
      /\ call # NoCall /\ c \in Clients /\ k \in Sockets /\ call \in Call
      /\ UNCHANGED <<server, conns, inbound, mine, got, read>>
      /\ module[k] \in Socket(MaxConns)
  BY Limits, LimitsStay DEF Types, ConnectedStatus, NoCall, Call
<1> HIDE DEF k
<1>2. Answer(IsOpen(k), IF IsOpen(k) THEN module[k].conn ELSE 0)
  BY DEF ConnectedStatus, k
<1>3. /\ call' \in Call \cup {NoCall} /\ result' \in Result(MaxConns)
      /\ call' # NoCall => call'.stage = "available"
  <2>1. IsOpen(k) \in BOOLEAN /\ (IF IsOpen(k) THEN module[k].conn ELSE 0) \in 0 .. MaxConns
    BY <1>1 DEF IsOpen, Socket
  <2> QED BY <1>1, <1>2, <2>1, AnswerTypes
<1>4. CASE IsOpen(k)
  <2>1. UNCHANGED <<sock, buffer, module>>
    BY <1>4 DEF ConnectedStatus, k
  <2> QED BY <1>1, <1>3, <2>1 DEF Types
<1>5. CASE ~ IsOpen(k)
  <2>1. /\ sock' = [sock EXCEPT ![c] = None] /\ buffer' = Closed(k)
        /\ module' = StopModule(k) \/ module' = module
    BY <1>5 DEF ConnectedStatus, k
  <2>2. /\ buffer' \in [Sockets -> Seq(Byte(MaxConns))]
        /\ \A j \in Sockets : Len(buffer'[j]) <= BufferSize
        /\ module' \in [Sockets -> Socket(MaxConns)]
        /\ \A j \in Sockets : module'[j] = module[j]
              \/ (module'[j].state = "free" /\ module'[j].conn = 0)
    <3>1. \A j \in Sockets : Len(Closed(k)[j]) <= BufferSize
      <4>1. Len(<<>>) <= BufferSize /\ \A j \in Sockets : Len(buffer[j]) <= BufferSize
        BY BufferAssumption DEF Types
      <4>2. \A j \in Sockets : Closed(k)[j] = <<>> \/ Closed(k)[j] = buffer[j]
        BY <1>1, StopTypes
      <4> QED BY <4>1, <4>2
    <3> QED BY <1>1, <2>1, <3>1, StopTypes DEF Types
  <2>3. /\ \A j \in Sockets : module'[j].conn <= conns'
        /\ \A j \in Sockets : Idle(module'[j])
    <3>1. conns \in Nat /\ conns' = conns
      BY <1>1 DEF Types
    <3>2. ASSUME NEW j \in Sockets PROVE module'[j].conn <= conns' /\ Idle(module'[j])
      BY <2>2, <3>1 DEF Types, Idle
    <3> QED BY <3>2
  <2> QED BY <1>1, <1>3, <2>1, <2>2, <2>3 DEF Types
<1> QED BY <1>4, <1>5

\* Socket k of the module becomes s, and nothing else but the connections counted.
Becomes(k, s) ==
  /\ k \in Sockets /\ s \in Socket(MaxConns) /\ Idle(s) /\ s.conn <= conns'
  /\ module' = [module EXCEPT ![k] = s]
  /\ UNCHANGED <<sock, buffer, call, mine, got, read, result>>
  /\ conns' \in 0 .. MaxConns /\ conns <= conns' /\ inbound' \subseteq 1 .. conns'
  /\ server' \in [sock : Sockets \cup {None}, last : Sockets \cup {None}]

\* Such a step keeps the types.
LEMMA BecomesTypes ==
  ASSUME Types, setting' = setting, NEW k, NEW s, Becomes(k, s)
  PROVE  Types'
<1>1. /\ Sockets' = Sockets /\ MaxConns' = MaxConns /\ MaxConns \in Nat
      /\ conns \in 0 .. MaxConns
  BY Limits, LimitsStay DEF Types
<1>2. /\ k \in Sockets /\ s \in Socket(MaxConns) /\ Idle(s) /\ s.conn <= conns'
      /\ module' = [module EXCEPT ![k] = s]
      /\ UNCHANGED <<sock, buffer, call, mine, got, read, result>>
      /\ conns' \in 0 .. MaxConns /\ conns <= conns' /\ inbound' \subseteq 1 .. conns'
      /\ server' \in [sock : Sockets \cup {None}, last : Sockets \cup {None}]
  BY DEF Becomes
<1>3. module' \in [Sockets -> Socket(MaxConns)]
  BY <1>2 DEF Types
<1>4. ASSUME NEW j \in Sockets PROVE module'[j].conn <= conns' /\ Idle(module'[j])
  <2>1. CASE j = k
    <3>1. module'[j] = s
      BY <1>2, <2>1 DEF Types
    <3> QED BY <1>2, <3>1
  <2>2. CASE j # k
    <3>1. module'[j] = module[j]
      BY <1>2, <2>2 DEF Types
    <3>2. module[j].conn <= conns /\ Idle(module[j]) /\ module[j].conn \in Nat
      BY <1>1 DEF Types, Socket
    <3> QED BY <1>1, <1>2, <3>1, <3>2
  <2> QED BY <2>1, <2>2
<1> QED BY <1>1, <1>2, <1>3, <1>4 DEF Types

\* A write that fails frees the number in the module.
LEMMA WriteFailsIs ==
  ASSUME Types, NEW c \in Clients, WriteFails(c)
  PROVE  Becomes(sock[c], FreeSocket) /\ UNCHANGED <<server, conns, inbound>>
<1>1. sock[c] \in Sockets /\ UNCHANGED <<sock, buffer, call, server, conns, inbound, mine, got, read, result>>
  BY DEF WriteFails, Types
<1>2. FreeSocket \in Socket(MaxConns) /\ Idle(FreeSocket) /\ FreeSocket.conn = 0
  BY Limits DEF FreeSocket, Socket, States, Idle, Types
<1>3. module' = [module EXCEPT ![sock[c]] = FreeSocket]
  BY DEF WriteFails, StopModule
<1> QED BY <1>1, <1>2, <1>3 DEF Becomes, Types

\* A server takes a free number.
LEMMA BeginIs ==
  ASSUME Types, Begin
  PROVE  /\ "server" \in Uses /\ UNCHANGED <<conns, inbound>>
         /\ \E k, s : /\ Becomes(k, s) /\ s.conn = 0 /\ s.queue = module[k].queue
                      /\ module[k].state = "free"
                      /\ server' = [server EXCEPT !.sock = k]
<1> DEFINE k == GetSocket(module)
           s == [module[k] EXCEPT !.state = "listen"]
<1>1. /\ k # None /\ "server" \in Uses /\ server' = [server EXCEPT !.sock = k]
      /\ module' = [module EXCEPT ![k].state = "listen"]
      /\ UNCHANGED <<sock, buffer, call, conns, inbound, mine, got, read, result>>
  BY DEF Begin
<1>2. k \in Sockets /\ module[k].state = "free"
  BY <1>1, FreeNumber DEF Types
<1> HIDE DEF k
<1>3. module[k] \in Socket(MaxConns) /\ module[k].conn = 0
  BY <1>2 DEF Types, Idle
<1>4. s \in Socket(MaxConns) /\ s.conn = 0 /\ s.queue = module[k].queue /\ s.state = "listen"
  BY <1>3 DEF Socket, States
<1>5. module' = [module EXCEPT ![k] = s]
  BY <1>1, <1>2, <1>4 DEF Types
<1>6. server' \in [sock : Sockets \cup {None}, last : Sockets \cup {None}]
  BY <1>1, <1>2 DEF Types
<1> HIDE DEF s
<1>7. conns \in 0 .. MaxConns /\ MaxConns \in Nat /\ inbound \subseteq 1 .. conns
  BY Limits DEF Types
<1>8. conns' \in 0 .. MaxConns /\ conns <= conns' /\ inbound' \subseteq 1 .. conns' /\ s.conn <= conns'
  BY <1>1, <1>4, <1>7
<1>9. Becomes(k, s)
  BY <1>1, <1>2, <1>4, <1>5, <1>6, <1>8 DEF Becomes, Idle
<1> QED BY <1>1, <1>2, <1>4, <1>9

\* The module accepts a connection: a free number is given to it.
LEMMA AcceptIs ==
  ASSUME Types, Accept
  PROVE  /\ server.sock # None /\ server' = server
         /\ conns' = conns + 1 /\ inbound' = inbound \cup {conns + 1}
         /\ \E k, s : /\ Becomes(k, s) /\ s.conn = conns + 1 /\ s.queue = <<>> /\ s.state = "open"
                      /\ module[k].state = "free"
<1> DEFINE k == GetSocket(module)
           s == [state |-> "open", conn |-> conns + 1, queue |-> <<>>]
<1>1. /\ k # None /\ server.sock # None /\ conns < MaxConns
      /\ conns' = conns + 1 /\ inbound' = inbound \cup {conns + 1}
      /\ module' = [module EXCEPT ![k] = s]
      /\ UNCHANGED <<sock, buffer, call, server, mine, got, read, result>>
  BY DEF Accept
<1>2. k \in Sockets /\ module[k].state = "free"
  BY <1>1, FreeNumber DEF Types
<1>3. MaxConns \in Nat /\ conns \in 0 .. MaxConns /\ conns' \in 0 .. MaxConns /\ conns <= conns'
      /\ inbound' \subseteq 1 .. conns'
  BY <1>1, Limits DEF Types
<1>4. s \in Socket(MaxConns) /\ s.conn <= conns' /\ Idle(s)
  BY <1>1, <1>3 DEF Socket, States, Idle
<1> HIDE DEF k
<1>5. Becomes(k, s)
  BY <1>1, <1>2, <1>3, <1>4 DEF Becomes, Types
<1> QED BY <1>1, <1>2, <1>5

\* The peer's steps, and the module's that makes a connection or finds it refused.
LEMMA PeerIs ==
  ASSUME Types, NEW k \in Sockets, Established(k) \/ PeerSends(k) \/ PeerCloses(k)
  PROVE  /\ UNCHANGED <<server, conns, inbound>>
         /\ \E s : /\ Becomes(k, s) /\ s.conn = module[k].conn /\ s.conn # 0
                   /\ s.state \in {"open", "closed", "close_wait"}
                   /\ s.state = "close_wait" \/ s.queue # module[k].queue => module[k].state = "open"
                   /\ s.state \in {"open", "closed"} => module[k].state \in {"syn", "open"}
                   /\ \/ s.queue = module[k].queue
                      \/ s.queue = Append(module[k].queue, [conn |-> module[k].conn, n |-> SentOn(k) + 1])
<1>1. /\ UNCHANGED <<sock, buffer, call, server, conns, inbound, mine, got, read, result>>
      /\ module[k].state \in {"syn", "open"} /\ module[k] \in Socket(MaxConns)
  BY DEF Types, Established, PeerSends, PeerCloses
<1>2. /\ module[k].conn # 0 /\ module[k].conn \in 0 .. MaxConns /\ module[k].conn <= conns
      /\ MaxConns \in Nat /\ conns \in 0 .. MaxConns
  BY <1>1, Limits DEF Types, Idle, Socket
<1>3. CASE Established(k)
  <2>1. PICK state \in {"open", "closed"} : module' = [module EXCEPT ![k].state = state]
    BY <1>3 DEF Established
  <2> DEFINE s == [module[k] EXCEPT !.state = state]
  <2>2. s \in Socket(MaxConns) /\ s.conn = module[k].conn /\ s.queue = module[k].queue /\ s.state = state
    BY <1>1 DEF Socket, States
  <2>3. module' = [module EXCEPT ![k] = s]
    BY <2>1, <2>2 DEF Types
  <2> HIDE DEF s
  <2>4. Becomes(k, s)
    BY <1>1, <1>2, <2>2, <2>3 DEF Becomes, Types, Idle
  <2> QED BY <1>1, <1>2, <2>2, <2>4
<1>4. CASE PeerCloses(k)
  <2> DEFINE s == [module[k] EXCEPT !.state = "close_wait"]
  <2>1. module' = [module EXCEPT ![k].state = "close_wait"] /\ module[k].state = "open"
    BY <1>4 DEF PeerCloses
  <2>2. s \in Socket(MaxConns) /\ s.conn = module[k].conn /\ s.queue = module[k].queue
        /\ s.state = "close_wait"
    BY <1>1 DEF Socket, States
  <2>3. module' = [module EXCEPT ![k] = s]
    BY <2>1, <2>2 DEF Types
  <2> HIDE DEF s
  <2>4. Becomes(k, s)
    BY <1>1, <1>2, <2>2, <2>3 DEF Becomes, Types, Idle
  <2> QED BY <1>1, <1>2, <2>1, <2>2, <2>4
<1>5. CASE PeerSends(k)
  <2> DEFINE byte == [conn |-> module[k].conn, n |-> SentOn(k) + 1]
             s == [module[k] EXCEPT !.queue = Append(module[k].queue, byte)]
  <2>1. module[k].state = "open" /\ module' = [module EXCEPT ![k].queue = Append(@, byte)]
    BY <1>5 DEF PeerSends
  <2>2. byte \in Byte(MaxConns)
    <3>1. got[module[k].conn] \in Nat /\ Len(buffer[k]) \in Nat /\ Len(module[k].queue) \in Nat
      BY <1>1, <1>2 DEF Types, Socket
    <3>2. SentOn(k) \in Nat
      BY <3>1 DEF SentOn
    <3> QED BY <1>2, <3>2 DEF Byte
  <2> HIDE DEF byte
  <2>3. s \in Socket(MaxConns) /\ s.conn = module[k].conn /\ s.state = "open"
        /\ s.queue = Append(module[k].queue, byte)
    BY <1>1, <2>1, <2>2 DEF Socket
  <2>4. module' = [module EXCEPT ![k] = s]
    BY <2>1, <2>3 DEF Types
  <2> HIDE DEF s
  <2>5. Becomes(k, s)
    BY <1>1, <1>2, <2>3, <2>4 DEF Becomes, Types, Idle
  <2> QED BY <1>1, <1>2, <2>1, <2>3, <2>5 DEF byte
<1> QED BY <1>3, <1>4, <1>5

\* read() takes the first byte of the stream.
LEMMA ReadIs ==
  ASSUME Types, NEW c \in Clients, Read(c)
  PROVE  \E k \in Sockets, byte \in Byte(MaxConns) :
           /\ k = sock[c] /\ Refilled(k, module')
           /\ Available(k) # <<>> /\ byte = Head(Available(k))
           /\ buffer' = [buffer EXCEPT ![k] = Tail(Available(k))]
           /\ got' = [got EXCEPT ![byte.conn] = got[byte.conn] + 1]
           /\ read' = [conn |-> byte.conn, n |-> byte.n, own |-> mine[c], due |-> got[byte.conn] + 1]
           /\ call = NoCall /\ UNCHANGED <<sock, call, server, conns, inbound, mine, result>>
<1> DEFINE k == sock[c]
           byte == Head(Available(k))
<1>1. /\ k # None /\ Available(k) # <<>> /\ call = NoCall
      /\ buffer' = [buffer EXCEPT ![k] = Tail(Available(k))]
      /\ module' = [module EXCEPT ![k].queue = Left(buffer[k], @)]
      /\ got' = [got EXCEPT ![byte.conn] = got[byte.conn] + 1]
      /\ read' = [conn |-> byte.conn, n |-> byte.n, own |-> mine[c], due |-> got[byte.conn] + 1]
      /\ UNCHANGED <<sock, call, server, conns, inbound, mine, result>>
  BY DEF Read
<1>2. k \in Sockets
  BY <1>1 DEF Types
<1>3. Refilled(k, module')
  BY <1>1 DEF Refilled
<1>4. Available(k) \in Seq(Byte(MaxConns))
  BY <1>2, <1>3, FillTypes
<1>5. byte \in Byte(MaxConns)
  BY <1>1, <1>4
<1> HIDE DEF k, byte
<1>6. byte = Head(Available(k)) /\ k = sock[c]
  BY DEF byte, k
<1> QED BY <1>1, <1>2, <1>3, <1>5, <1>6

\* read() keeps the types.
LEMMA ReadTypes ==
  ASSUME Types, setting' = setting, NEW c \in Clients, Read(c)
  PROVE  Types'
<1>1. /\ Sockets' = Sockets /\ MaxConns' = MaxConns /\ MaxConns \in Nat /\ conns \in 0 .. MaxConns
  BY Limits, LimitsStay DEF Types
<1>2. PICK k \in Sockets, byte \in Byte(MaxConns) :
        /\ k = sock[c] /\ Refilled(k, module')
        /\ Available(k) # <<>> /\ byte = Head(Available(k))
        /\ buffer' = [buffer EXCEPT ![k] = Tail(Available(k))]
        /\ got' = [got EXCEPT ![byte.conn] = got[byte.conn] + 1]
        /\ UNCHANGED <<sock, call, server, conns, inbound, mine, result>>
  BY ReadIs
<1>3. /\ Available(k) \in Seq(Byte(MaxConns)) /\ Len(Available(k)) <= BufferSize
      /\ module' \in [Sockets -> Socket(MaxConns)]
  BY <1>2, FillTypes
<1>4. /\ buffer' \in [Sockets -> Seq(Byte(MaxConns))]
      /\ \A j \in Sockets : Len(buffer'[j]) <= BufferSize
  <2>1. /\ Tail(Available(k)) \in Seq(Byte(MaxConns)) /\ Len(Tail(Available(k))) <= BufferSize
    BY <1>2, <1>3, BufferAssumption
  <2> QED BY <1>2, <2>1 DEF Types
<1>5. ASSUME NEW j \in Sockets PROVE module'[j].conn <= conns' /\ Idle(module'[j])
  <2>1. module'[j].state = module[j].state /\ module'[j].conn = module[j].conn
    BY <1>2, FillKeeps
  <2> QED BY <1>2, <2>1 DEF Types, Idle
<1>6. got' \in [1 .. MaxConns -> Nat]
  <2>1. got[byte.conn] + 1 \in Nat
    BY DEF Types, Byte
  <2> QED BY <1>2, <2>1 DEF Types
<1> QED BY <1>1, <1>2, <1>3, <1>4, <1>5, <1>6 DEF Types

\* stop() keeps the types.
LEMMA StopKeepsTypes ==
  ASSUME Types, setting' = setting, NEW c \in Clients, Stop(c)
  PROVE  Types'
<1>1. /\ Sockets' = Sockets /\ MaxConns' = MaxConns /\ MaxConns \in Nat /\ conns \in 0 .. MaxConns
  BY Limits, LimitsStay DEF Types
<1>2. /\ sock[c] \in Sockets /\ call = NoCall /\ module' = StopModule(sock[c]) /\ buffer' = Closed(sock[c])
      /\ sock' = [sock EXCEPT ![c] = None]
      /\ UNCHANGED <<call, server, conns, inbound, mine, got, read, result>>
  BY DEF Stop, Types
<1>3. /\ module' \in [Sockets -> Socket(MaxConns)] /\ buffer' \in [Sockets -> Seq(Byte(MaxConns))]
      /\ sock' \in [Clients -> Sockets \cup {None}]
  BY <1>2, StopTypes DEF Types
<1>4. ASSUME NEW j \in Sockets
      PROVE  Len(buffer'[j]) <= BufferSize /\ module'[j].conn <= conns' /\ Idle(module'[j])
  <2>1. \/ module'[j] = module[j] /\ buffer'[j] = buffer[j]
        \/ module'[j].state = "free" /\ module'[j].conn = 0 /\ buffer'[j] = <<>>
    BY <1>2, StopTypes
  <2>2. Len(<<>>) <= BufferSize
    BY BufferAssumption
  <2> QED BY <1>1, <1>2, <2>1, <2>2 DEF Types, Idle
<1> QED BY <1>1, <1>2, <1>3, <1>4 DEF Types

\* The client a server hands out: its last one, refilled, or one that the module names.
LEMMA NextClientIs ==
  ASSUME Types, NEW c \in Clients, NextClient(c)
  PROVE  /\ server.sock # None /\ call = NoCall /\ UNCHANGED <<call, conns, inbound, got, read>>
         /\ \/ \E k \in Sockets : /\ Available(k) # <<>> /\ Refilled(k, module')
                                  /\ buffer' = [buffer EXCEPT ![k] = Available(k)]
                                  /\ Return(c, k, Head(Available(k)).conn)
            \/ /\ module' = module \/ \E k \in Sockets : module' = StopModule(k)
               /\ buffer' = buffer
               /\ \/ \E k \in Named : Return(c, k, module[k].conn)
                  \/ /\ sock' = [sock EXCEPT ![c] = None] /\ result' = NoResult
                     /\ UNCHANGED <<mine, server>>
<1>1. server.sock # None /\ call = NoCall /\ UNCHANGED <<call, conns, inbound, got, read>>
  BY DEF NextClient
<1>2. server.last \in Sockets \cup {None}
  BY DEF Types
<1>3. CASE LastHasMore
  <2>1. /\ Fill(server.last) /\ Available(server.last) # <<>> /\ server.last \in Sockets
        /\ Return(c, server.last, Head(Available(server.last)).conn)
    BY <1>2, <1>3 DEF NextClient, LastHasMore
  <2>2. /\ buffer' = [buffer EXCEPT ![server.last] = Available(server.last)]
        /\ Refilled(server.last, module')
    BY <2>1 DEF Fill, Refilled
  <2> QED BY <1>1, <2>1, <2>2
<1>4. CASE ~ LastHasMore
  <2>1. /\ module' = IF Over(server.last) THEN StopModule(server.last) ELSE module
        /\ \/ \E k \in Named : Return(c, k, module[k].conn)
           \/ /\ sock' = [sock EXCEPT ![c] = None] /\ result' = NoResult
              /\ UNCHANGED <<mine, server>>
        /\ buffer' = buffer
    BY <1>4 DEF NextClient
  <2>2. module' = module \/ \E k \in Sockets : module' = StopModule(k)
    BY <1>2, <2>1 DEF Over
  <2> QED BY <1>1, <2>1, <2>2
<1> QED BY <1>3, <1>4

\* A client handed out.
LEMMA ReturnTypes ==
  ASSUME Types, NEW c \in Clients, NEW k \in Sockets, NEW n \in 0 .. MaxConns, Return(c, k, n)
  PROVE  /\ sock' \in [Clients -> Sockets \cup {None}] /\ mine' \in [Clients -> 0 .. MaxConns]
         /\ server' \in [sock : Sockets \cup {None}, last : Sockets \cup {None}]
         /\ result' \in Result(MaxConns)
<1>1. /\ server' = [server EXCEPT !.last = k] /\ sock' = [sock EXCEPT ![c] = k]
      /\ mine' = [mine EXCEPT ![c] = n]
      /\ result' = [op |-> "available", value |-> TRUE, conn |-> n, own |-> n]
  BY DEF Return
<1>2. result' \in Result(MaxConns)
  BY <1>1 DEF Result
<1> QED BY <1>1, <1>2 DEF Types

\* available() keeps the types.
LEMMA NextClientTypes ==
  ASSUME Types, setting' = setting, NEW c \in Clients, NextClient(c)
  PROVE  Types'
<1>1. /\ Sockets' = Sockets /\ MaxConns' = MaxConns /\ MaxConns \in Nat /\ conns \in 0 .. MaxConns
  BY Limits, LimitsStay DEF Types
<1>2. call = NoCall /\ UNCHANGED <<call, conns, inbound, got, read>>
  BY NextClientIs
<1>3. ASSUME NEW k \in Sockets, Available(k) # <<>>, Refilled(k, module'),
             buffer' = [buffer EXCEPT ![k] = Available(k)], Return(c, k, Head(Available(k)).conn)
      PROVE  Types'
  <2>1. /\ Available(k) \in Seq(Byte(MaxConns)) /\ Len(Available(k)) <= BufferSize
        /\ module' \in [Sockets -> Socket(MaxConns)]
    BY <1>3, FillTypes
  <2>2. Head(Available(k)) \in Byte(MaxConns)
    BY <1>3, <2>1
  <2>3. Head(Available(k)).conn \in 0 .. MaxConns
    BY <1>1, <2>2 DEF Byte
  <2>4. /\ sock' \in [Clients -> Sockets \cup {None}] /\ mine' \in [Clients -> 0 .. MaxConns]
        /\ server' \in [sock : Sockets \cup {None}, last : Sockets \cup {None}]
        /\ result' \in Result(MaxConns)
    BY <1>3, <2>3, ReturnTypes
  <2>5. ASSUME NEW j \in Sockets PROVE module'[j].conn <= conns' /\ Idle(module'[j])
    <3>1. module'[j].state = module[j].state /\ module'[j].conn = module[j].conn
      BY <1>3, FillKeeps
    <3> QED BY <1>2, <3>1 DEF Types, Idle
  <2>6. /\ buffer' \in [Sockets -> Seq(Byte(MaxConns))]
        /\ \A j \in Sockets : Len(buffer'[j]) <= BufferSize
    BY <1>3, <2>1 DEF Types
  <2> QED BY <1>1, <1>2, <2>1, <2>4, <2>5, <2>6 DEF Types
<1>4. ASSUME module' = module \/ \E k \in Sockets : module' = StopModule(k), buffer' = buffer,
             \/ \E k \in Named : Return(c, k, module[k].conn)
             \/ /\ sock' = [sock EXCEPT ![c] = None] /\ result' = NoResult
                /\ UNCHANGED <<mine, server>>
      PROVE  Types'
  <2>1. module' \in [Sockets -> Socket(MaxConns)]
    BY <1>4, StopTypes DEF Types
  <2>2. ASSUME NEW j \in Sockets PROVE module'[j].conn <= conns' /\ Idle(module'[j])
    <3>1. module'[j] = module[j] \/ (module'[j].state = "free" /\ module'[j].conn = 0)
      BY <1>4, StopTypes
    <3> QED BY <1>1, <1>2, <3>1 DEF Types, Idle
  <2>3. /\ sock' \in [Clients -> Sockets \cup {None}] /\ mine' \in [Clients -> 0 .. MaxConns]
        /\ server' \in [sock : Sockets \cup {None}, last : Sockets \cup {None}]
        /\ result' \in Result(MaxConns)
    <3>1. ASSUME NEW k \in Named, Return(c, k, module[k].conn)
          PROVE  /\ sock' \in [Clients -> Sockets \cup {None}] /\ mine' \in [Clients -> 0 .. MaxConns]
                 /\ server' \in [sock : Sockets \cup {None}, last : Sockets \cup {None}]
                 /\ result' \in Result(MaxConns)
      <4>1. k \in Sockets /\ module[k].conn \in 0 .. MaxConns
        BY DEF Named, Types, Socket
      <4> QED BY <3>1, <4>1, ReturnTypes
    <3>2. CASE sock' = [sock EXCEPT ![c] = None] /\ result' = NoResult /\ UNCHANGED <<mine, server>>
      BY <1>1, <3>2 DEF Types, NoResult, Result
    <3> QED BY <1>4, <3>1, <3>2
  <2> QED BY <1>1, <1>2, <1>4, <2>1, <2>2, <2>3 DEF Types
<1> QED BY <1>3, <1>4, NextClientIs

\* Every step keeps the types.
LEMMA NextTypes ==
  ASSUME Types, [Next]_<<setting, vars>>
  PROVE  Types'
<1>1. setting' = setting
  BY DEF Next, vars
<1>2. ASSUME NEW c \in Clients, CallConnected(c) PROVE Types'
  <2>1. /\ call' = [op |-> "connected", client |-> c, stage |-> "available", turn |-> 0]
        /\ UNCHANGED <<sock, buffer, module, server, conns, inbound, mine, got, read, result>>
    BY <1>2 DEF CallConnected
  <2>2. call' \in Call /\ call'.stage = "available"
    BY <2>1, SocketsAssumption DEF Call
  <2> QED BY <1>1, <2>1, <2>2, LimitsStay DEF Types
<1>3. CASE UNCHANGED vars
  BY <1>1, <1>3, LimitsStay DEF Types, vars
<1>4. CASE Sketch
  <2>1. CASE Begin
    BY <1>1, <2>1, BeginIs, BecomesTypes
  <2>2. ASSUME NEW c \in Clients, WriteFails(c) PROVE Types'
    BY <1>1, <2>2, WriteFailsIs, BecomesTypes
  <2> QED BY <1>1, <1>2, <1>4, <2>1, <2>2, ConnectTypes, ReadTypes, StopKeepsTypes, NextClientTypes
          DEF Sketch
<1>5. CASE Running
  BY <1>1, <1>5, ConnectedAvailableTypes, ConnectedStatusTypes DEF Running
<1>6. CASE Peers
  <2>1. CASE Accept
    BY <1>1, <2>1, AcceptIs, BecomesTypes
  <2>2. ASSUME NEW k \in Sockets, Established(k) \/ PeerSends(k) \/ PeerCloses(k) PROVE Types'
    BY <1>1, <2>2, PeerIs, BecomesTypes
  <2> QED BY <1>6, <2>1, <2>2 DEF Peers
<1> QED BY <1>3, <1>4, <1>5, <1>6 DEF Next, vars

\* The first state is typed.
LEMMA InitTypes ==
  ASSUME Init
  PROVE  Types
<1>1. /\ setting \in Settings /\ MaxConns \in Nat /\ None = 255
  BY Limits DEF Init, None
<1>2. /\ sock = [c \in Clients |-> None] /\ buffer = [k \in Sockets |-> <<>>]
      /\ module = [k \in Sockets |-> FreeSocket] /\ call = NoCall
      /\ server = [sock |-> None, last |-> None]
      /\ conns = 0 /\ inbound = {} /\ mine = [c \in Clients |-> 0]
      /\ got = [n \in 1 .. MaxConns |-> 0] /\ result = NoResult
  BY DEF Init
<1>3. /\ FreeSocket \in Socket(MaxConns) /\ Idle(FreeSocket) /\ FreeSocket.conn = 0
      /\ NoResult \in Result(MaxConns) /\ Len(<<>>) <= BufferSize
  BY <1>1, BufferAssumption DEF FreeSocket, Socket, States, Idle, NoResult, Result
<1> QED BY <1>1, <1>2, <1>3 DEF Types

-----------------------------------------------------------------------------
(* One client                                                              *)
-----------------------------------------------------------------------------
\* s holds bytes of connection n that follow the first g of them.
Numbered(s, n, g) == \A i \in 1 .. Len(s) : s[i] = [conn |-> n, n |-> g + i]

\* The first of them is the next one due.
LEMMA NumberedFirst ==
  ASSUME NEW S, NEW s \in Seq(S), s # <<>>, NEW n, NEW g \in Nat, Numbered(s, n, g)
  PROVE  s[1] = [conn |-> n, n |-> g + 1] /\ Numbered(Tail(s), n, g + 1)
<1>1. Len(s) \in Nat /\ Len(s) >= 1 /\ Len(Tail(s)) = Len(s) - 1
  OBVIOUS
<1>2. s[1] = [conn |-> n, n |-> g + 1]
  BY <1>1 DEF Numbered
<1>3. ASSUME NEW i \in 1 .. Len(Tail(s)) PROVE Tail(s)[i] = [conn |-> n, n |-> g + 1 + i]
  <2>1. Tail(s)[i] = s[i + 1] /\ i + 1 \in 1 .. Len(s)
    BY <1>1
  <2>2. s[i + 1] = [conn |-> n, n |-> g + (i + 1)] /\ g + (i + 1) = g + 1 + i
    BY <2>1 DEF Numbered
  <2> QED BY <2>1, <2>2
<1> QED BY <1>2, <1>3 DEF Numbered

\* A byte that follows them.
LEMMA NumberedMore ==
  ASSUME NEW S, NEW a \in Seq(S), NEW b \in Seq(S), NEW n, NEW g \in Nat, NEW byte \in S,
         Numbered(a \o b, n, g), byte = [conn |-> n, n |-> g + Len(a) + Len(b) + 1]
  PROVE  Numbered(a \o Append(b, byte), n, g)
<1>1. Len(a) \in Nat /\ Len(b) \in Nat /\ Len(a \o b) = Len(a) + Len(b)
      /\ Len(a \o Append(b, byte)) = Len(a) + Len(b) + 1
  OBVIOUS
<1>2. ASSUME NEW i \in 1 .. Len(a) + Len(b)
      PROVE  (a \o Append(b, byte))[i] = [conn |-> n, n |-> g + i]
  <2>1. (a \o Append(b, byte))[i] = (a \o b)[i]
    <3>1. CASE i <= Len(a)
      BY <1>1, <3>1
    <3>2. CASE i > Len(a)
      BY <1>1, <3>2
    <3> QED BY <1>1, <3>1, <3>2
  <2> QED BY <1>1, <2>1 DEF Numbered
<1>3. (a \o Append(b, byte))[Len(a) + Len(b) + 1] = byte
  BY <1>1
<1>4. ASSUME NEW i \in 1 .. Len(a \o Append(b, byte))
      PROVE  (a \o Append(b, byte))[i] = [conn |-> n, n |-> g + i]
  <2>1. CASE i \in 1 .. Len(a) + Len(b)
    BY <1>2, <2>1
  <2>2. CASE i = Len(a) + Len(b) + 1
    <3>1. g + Len(a) + Len(b) + 1 = g + i
      BY <1>1, <2>2
    <3> QED BY <1>3, <2>2, <3>1
  <2> QED BY ONLY <1>1, <1>4, <2>1, <2>2
<1> QED BY <1>4 DEF Numbered

\* What is left of them when those behind are lost.
LEMMA NumberedLess ==
  ASSUME NEW S, NEW a \in Seq(S), NEW b \in Seq(S), NEW n, NEW g, Numbered(a \o b, n, g)
  PROVE  Numbered(a \o <<>>, n, g)
<1>1. Len(a) \in Nat /\ Len(b) \in Nat /\ Len(a \o b) = Len(a) + Len(b) /\ a \o <<>> = a
      /\ \A i \in 1 .. Len(a) : (a \o b)[i] = a[i]
  OBVIOUS
<1> QED BY <1>1 DEF Numbered

\* The server rests.
Unserved == /\ server.sock = None
            /\ \A k \in Sockets : module[k].state # "listen"

\* What nobody holds is empty: the next client of the number finds nothing in it.
Emptied == \A k \in Sockets : (\A c \in Clients : sock[c] # k) => buffer[k] = <<>>

\* A client's number has its own connection, or none any more, and the stream is what
\* that connection owes it.
Owed(c) == /\ mine[c] # 0 /\ module[sock[c]].conn \in {0, mine[c]}
           /\ Numbered(Stream(sock[c]), mine[c], got[mine[c]])
Owes == \A c \in Clients : sock[c] # None => Owed(c)

\* Of a connection to come nothing is read.
Fresh == /\ \A c \in Clients : mine[c] <= conns
         /\ \A n \in 1 .. MaxConns : n > conns => got[n] = 0

\* Where connections are made or refused at once, those there are have a client, and
\* none is left of a connect() that failed.
Accounted ==
  /\ \A k \in Sockets : module[k].state # "syn"
  /\ \A k \in Sockets : module[k].conn # 0 => \E c \in Clients : sock[c] = k
  /\ result.op = "connect" /\ ~ result.value =>
       /\ result.own <= conns
       /\ \A k \in Sockets : module[k].conn # 0 => module[k].conn # result.own

ClientInv ==
  Unserved /\ Emptied /\ Owes /\ Fresh /\ ReadInOrder /\ ConnectedIsTrue /\ (~ Slow => Accounted)
\* What the limits and the one client give to every step.
LEMMA OneClient ==
  ASSUME Alone, setting' = setting, setting \in Settings
  PROVE  /\ Sockets' = Sockets /\ MaxConns' = MaxConns /\ MaxConns \in Nat
         /\ Slow' = Slow /\ Alone' /\ None \notin Sockets
         /\ "server" \notin Uses
         /\ \A c, d \in Clients : c = d
BY Limits, LimitsStay DEF Alone

\* The stream of a client after a step.
LEMMA OwedThen ==
  ASSUME NEW c, NEW t, NEW k, NEW n, NEW g, sock'[c] = k, mine'[c] = n, got'[n] = g,
         buffer'[k] \o module'[k].queue = t, Numbered(t, n, g), n # 0, module'[k].conn \in {0, n}
  PROVE  Owed(c)'
BY DEF Owed, Stream, Numbered

\* The first of what a connection owes is its own.
LEMMA NumberedHead ==
  ASSUME NEW s, NEW n, NEW g, Len(s) \in Nat, Len(s) >= 1, Numbered(s, n, g)
  PROVE  s[1].conn = n
<1>1. 1 \in 1 .. Len(s)
  OBVIOUS
<1>2. s[1] = [conn |-> n, n |-> g + 1]
  BY <1>1, Zenon DEF Numbered
<1> QED BY <1>2

\* read() takes the next byte of the client's own connection.
LEMMA ClientReads ==
  ASSUME Types, Alone, ClientInv, setting' = setting, NEW c \in Clients, Read(c)
  PROVE  ClientInv'
<1>1. /\ Sockets' = Sockets /\ MaxConns' = MaxConns /\ MaxConns \in Nat
      /\ Slow' = Slow /\ None \notin Sockets /\ \A d \in Clients : d = c
  BY OneClient DEF Types
<1>2. PICK k \in Sockets, byte \in Byte(MaxConns) :
        /\ k = sock[c] /\ Refilled(k, module')
        /\ Available(k) # <<>> /\ byte = Head(Available(k))
        /\ buffer' = [buffer EXCEPT ![k] = Tail(Available(k))]
        /\ got' = [got EXCEPT ![byte.conn] = got[byte.conn] + 1]
        /\ read' = [conn |-> byte.conn, n |-> byte.n, own |-> mine[c], due |-> got[byte.conn] + 1]
        /\ UNCHANGED <<sock, call, server, conns, inbound, mine, result>>
  BY ReadIs
<1>3. /\ mine[c] \in 1 .. MaxConns /\ module[k].conn \in {0, mine[c]}
      /\ Numbered(Stream(k), mine[c], got[mine[c]]) /\ got[mine[c]] \in Nat /\ mine[c] <= conns
      /\ conns \in Nat
  BY <1>1, <1>2 DEF ClientInv, Owes, Owed, Types, Fresh
<1>4. /\ Available(k) \in Seq(Byte(MaxConns)) /\ module'[k].queue \in Seq(Byte(MaxConns))
      /\ Available(k) \o module'[k].queue = Stream(k) /\ Stream(k) \in Seq(Byte(MaxConns))
  BY <1>2, FillTypes
<1>5. /\ byte = Stream(k)[1] /\ Stream(k) # <<>>
      /\ Tail(Available(k)) \o module'[k].queue = Tail(Stream(k))
  <2> DEFINE B == Byte(MaxConns)
             a == Available(k)
             q == module'[k].queue
  <2>1. a \in Seq(B) /\ q \in Seq(B) /\ a # <<>> /\ a \o q = Stream(k) /\ byte = Head(a)
    BY <1>2, <1>4
  <2> HIDE DEF B, a, q
  <2>2. Head(a) = (a \o q)[1] /\ Len(a \o q) >= 1 /\ Tail(a) \o q = Tail(a \o q)
    <3>1. a \in Seq(B) /\ q \in Seq(B) /\ a # <<>>
      BY <2>1
    <3> QED BY ONLY <3>1, FirstOf
  <2>3. byte = Stream(k)[1] /\ Tail(a) \o q = Tail(Stream(k)) /\ Len(Stream(k)) >= 1
    BY <2>1, <2>2
  <2>4. Stream(k) # <<>>
    BY <2>3
  <2> QED BY <2>3, <2>4 DEF a, q
<1>6. byte = [conn |-> mine[c], n |-> got[mine[c]] + 1]
      /\ Numbered(Tail(Stream(k)), mine[c], got[mine[c]] + 1)
  BY <1>3, <1>4, <1>5, NumberedFirst
<1>7. got'[mine[c]] = got[mine[c]] + 1 /\ \A n \in 1 .. MaxConns : n # mine[c] => got'[n] = got[n]
  BY <1>2, <1>3, <1>6 DEF Types
<1>8. buffer'[k] \o module'[k].queue = Tail(Stream(k))
  BY <1>2, <1>5 DEF Types
<1>9. \A j \in Sockets : module'[j].state = module[j].state /\ module'[j].conn = module[j].conn
  BY <1>2, FillKeeps
<1>10. Owes'
  <2>1. /\ sock'[c] = k /\ mine'[c] = mine[c] /\ mine[c] # 0
        /\ module'[k].conn \in {0, mine[c]} /\ got'[mine[c]] = got[mine[c]] + 1
    BY <1>2, <1>3, <1>7, <1>9
  <2>2. Owed(c)'
    BY <1>6, <1>8, <2>1, OwedThen
  <2> QED BY <1>1, <2>2 DEF Owes
<1>11. Unserved' /\ Emptied' /\ Fresh'
  <2>1. Unserved'
    BY <1>1, <1>2, <1>9 DEF Unserved, ClientInv
  <2>2. Emptied'
    BY <1>1, <1>2 DEF Emptied, ClientInv, Types
  <2>3. Fresh'
    BY <1>1, <1>2, <1>3, <1>7 DEF Fresh, ClientInv
  <2> QED BY <2>1, <2>2, <2>3
<1>12. ReadInOrder' /\ ConnectedIsTrue'
  BY <1>2, <1>6 DEF ReadInOrder, ConnectedIsTrue, ClientInv
<1>13. ~ Slow' => Accounted'
  BY <1>1, <1>2, <1>9 DEF Accounted, ClientInv
<1> QED BY <1>10, <1>11, <1>12, <1>13 DEF ClientInv

\* stop() leaves nothing behind.
LEMMA ClientStops ==
  ASSUME Types, Alone, ClientInv, setting' = setting, NEW c \in Clients, Stop(c)
  PROVE  ClientInv'
<1>1. /\ Sockets' = Sockets /\ MaxConns' = MaxConns /\ MaxConns \in Nat
      /\ Slow' = Slow /\ None \notin Sockets /\ \A d \in Clients : d = c
  BY OneClient DEF Types
<1>2. /\ sock[c] \in Sockets /\ module' = StopModule(sock[c]) /\ buffer' = Closed(sock[c])
      /\ sock' = [sock EXCEPT ![c] = None]
      /\ UNCHANGED <<call, server, conns, inbound, mine, got, read, result>>
  BY DEF Stop, Types
<1>3. /\ sock'[c] = None
      /\ \A j \in Sockets : j # sock[c] => module'[j] = module[j] /\ buffer'[j] = buffer[j]
      /\ module'[sock[c]].state = "free" /\ module'[sock[c]].conn = 0 /\ buffer'[sock[c]] = <<>>
  BY <1>2, StopTypes DEF Types
<1>4. Owes'
  BY <1>1, <1>3 DEF Owes
<1>5. Unserved'
  BY <1>1, <1>2, <1>3 DEF Unserved, ClientInv
<1>6. Emptied'
  BY <1>1, <1>3 DEF Emptied, ClientInv
<1>7. Fresh' /\ ReadInOrder' /\ ConnectedIsTrue'
  BY <1>1, <1>2 DEF Fresh, ReadInOrder, ConnectedIsTrue, ClientInv
<1>8. ~ Slow' => Accounted'
  BY <1>1, <1>2, <1>3 DEF Accounted, ClientInv
<1> QED BY <1>4, <1>5, <1>6, <1>7, <1>8 DEF ClientInv

\* A number keeps its connection: what is the same when only the streams change.
LEMMA ClientAsks ==
  ASSUME Types, Alone, ClientInv, setting' = setting, ConnectedAvailable
  PROVE  ClientInv'
<1>0. PICK c, k : c = call.client /\ k = sock[c]
  OBVIOUS
<1>1. /\ Sockets' = Sockets /\ MaxConns' = MaxConns /\ MaxConns \in Nat
      /\ Slow' = Slow /\ None \notin Sockets
      /\ call # NoCall /\ c \in Clients /\ k \in Sockets \cup {None} /\ call \in Call
      /\ UNCHANGED <<sock, server, conns, inbound, mine, got, read>>
  BY <1>0, OneClient DEF Types, ConnectedAvailable, NoCall, Call
<1>2. \A d \in Clients : d = c
  BY <1>1, OneClient DEF Types
<1>3. CASE k = None
  <2>1. Answer(FALSE, 0) /\ UNCHANGED <<buffer, module>>
    BY <1>0, <1>3 DEF ConnectedAvailable
  <2>2. \/ result' = result
        \/ result' = [op |-> call.op, value |-> FALSE, conn |-> 0, own |-> mine[c]]
    BY <1>0, <2>1 DEF Answer
  <2>3. Unserved' /\ Emptied' /\ Owes' /\ Fresh' /\ ReadInOrder'
    BY <1>1, <2>1 DEF Unserved, Emptied, Owes, Owed, Fresh, ReadInOrder, Stream, Numbered, ClientInv
  <2>4. ConnectedIsTrue'
    BY <1>1, <2>2 DEF ConnectedIsTrue, ClientInv
  <2>5. ~ Slow' => Accounted'
    <3>1. ASSUME Accounted, NEW j \in Sockets PROVE module[j].conn = 0 /\ module[j].state # "syn"
      <4>1. \A d \in Clients : sock[d] # j
        BY <1>0, <1>1, <1>2, <1>3
      <4> QED BY <3>1, <4>1 DEF Accounted
    <3>2. mine[c] <= conns
      BY <1>1 DEF Fresh, ClientInv
    <3> QED BY <1>0, <1>1, <2>1, <2>2, <3>1, <3>2 DEF Accounted, ClientInv
  <2> QED BY <2>3, <2>4, <2>5 DEF ClientInv
<1>4. CASE k \in Sockets
  <2>1. /\ buffer' = [buffer EXCEPT ![k] = Available(k)]
        /\ Refilled(k, module')
        /\ IF Available(k) # <<>> THEN Answer(TRUE, Head(Available(k)).conn)
           ELSE call' = [call EXCEPT !.stage = "status"] /\ UNCHANGED result
    BY <1>0, <1>1, <1>4 DEF ConnectedAvailable, Fill, Refilled
  <2>2. /\ Available(k) \in Seq(Byte(MaxConns)) /\ module'[k].queue \in Seq(Byte(MaxConns))
        /\ Available(k) \o module'[k].queue = Stream(k)
    BY <1>4, <2>1, FillTypes
  <2>3. /\ mine[c] # 0 /\ module[k].conn \in {0, mine[c]} /\ mine[c] <= conns
        /\ Numbered(Stream(k), mine[c], got[mine[c]])
    BY <1>0, <1>1, <1>4 DEF ClientInv, Owes, Owed, Fresh
  <2>4. \A j \in Sockets : module'[j].state = module[j].state /\ module'[j].conn = module[j].conn
    BY <1>4, <2>1, FillKeeps
  <2>5. \/ result' = result
        \/ result' = [op |-> call.op, value |-> TRUE, conn |-> mine[c], own |-> mine[c]]
    <3>1. CASE Available(k) # <<>>
      <4> DEFINE B == Byte(MaxConns)
                 a == Available(k)
                 q == module'[k].queue
      <4>1. a \in Seq(B) /\ q \in Seq(B) /\ a # <<>> /\ a \o q = Stream(k)
        BY <2>2, <3>1
      <4> HIDE DEF B, a, q
      <4>2. Head(a) = (a \o q)[1] /\ Len(a \o q) >= 1 /\ Len(a \o q) \in Nat
        <5>1. a \in Seq(B) /\ q \in Seq(B) /\ a # <<>>
          BY <4>1
        <5> QED BY ONLY <5>1, FirstOf
      <4>3. Head(a).conn = mine[c]
        <5>1. Numbered(a \o q, mine[c], got[mine[c]])
          BY <2>3, <4>1
        <5> QED BY <4>2, <5>1, NumberedHead
      <4>4. Answer(TRUE, Head(a).conn)
        BY <2>1, <3>1 DEF a
      <4> QED BY <1>0, <4>3, <4>4 DEF Answer
    <3>2. CASE Available(k) = <<>>
      BY <2>1, <3>2
    <3> QED BY <3>1, <3>2
  <2>6. Owes'
    <3>1. /\ sock'[c] = k /\ mine'[c] = mine[c] /\ got'[mine[c]] = got[mine[c]]
          /\ buffer'[k] \o module'[k].queue = Stream(k) /\ module'[k].conn \in {0, mine[c]}
      BY <1>0, <1>1, <1>4, <2>1, <2>2, <2>3, <2>4 DEF Types
    <3>2. Owed(c)'
      BY <2>3, <3>1, OwedThen
    <3> QED BY <1>1, <1>2, <3>2 DEF Owes
  <2>7. Unserved' /\ Emptied' /\ Fresh' /\ ReadInOrder'
    <3>1. Unserved'
      BY <1>1, <2>4 DEF Unserved, ClientInv
    <3>2. Emptied'
      BY <1>0, <1>1, <1>4, <2>1 DEF Emptied, ClientInv, Types
    <3> QED BY <1>1, <3>1, <3>2 DEF Fresh, ReadInOrder, ClientInv
  <2>8. ConnectedIsTrue'
    BY <1>1, <2>5 DEF ConnectedIsTrue, ClientInv
  <2>9. ~ Slow' => Accounted'
    BY <1>1, <2>4, <2>5 DEF Accounted, ClientInv
  <2> QED BY <2>6, <2>7, <2>8, <2>9 DEF ClientInv
<1> QED BY <1>1, <1>3, <1>4

\* connected()'s second question: a connection that is open is the client's own, and
\* of one that is over nothing is left.
LEMMA ClientLearns ==
  ASSUME Types, Alone, ClientInv, setting' = setting, ConnectedStatus
  PROVE  ClientInv'
<1>0. PICK c, k : c = call.client /\ k = sock[c]
  OBVIOUS
<1>1. /\ Sockets' = Sockets /\ MaxConns' = MaxConns /\ MaxConns \in Nat
      /\ Slow' = Slow /\ None \notin Sockets
      /\ call # NoCall /\ c \in Clients /\ k \in Sockets /\ call \in Call
      /\ UNCHANGED <<server, conns, inbound, mine, got, read>>
  BY <1>0, OneClient DEF Types, ConnectedStatus, NoCall, Call
<1>2. \A d \in Clients : d = c
  BY <1>1, OneClient DEF Types
<1>3. /\ mine[c] # 0 /\ module[k].conn \in {0, mine[c]} /\ mine[c] <= conns
      /\ Idle(module[k])
  BY <1>0, <1>1 DEF ClientInv, Owes, Owed, Fresh, Types
<1>4. CASE IsOpen(k)
  <2>1. UNCHANGED <<sock, buffer, module>> /\ module[k].conn = mine[c]
    BY <1>0, <1>3, <1>4 DEF ConnectedStatus, IsOpen, Idle
  <2>2. Answer(TRUE, mine[c])
    <3>1. Answer(IsOpen(k), IF IsOpen(k) THEN module[k].conn ELSE 0)
      BY <1>0 DEF ConnectedStatus
    <3>2. IsOpen(k) = TRUE
      BY <1>4 DEF IsOpen
    <3> QED BY <2>1, <3>1, <3>2
  <2>3. result' = [op |-> call.op, value |-> TRUE, conn |-> mine[c], own |-> mine[c]]
    BY <1>0, <2>2 DEF Answer
  <2>4. Unserved' /\ Emptied' /\ Owes' /\ Fresh' /\ ReadInOrder'
    BY <1>1, <2>1 DEF Unserved, Emptied, Owes, Owed, Fresh, ReadInOrder, Stream, Numbered, ClientInv
  <2>5. ConnectedIsTrue'
    BY <2>3 DEF ConnectedIsTrue
  <2>6. ~ Slow' => Accounted'
    BY <1>1, <2>1, <2>3 DEF Accounted, ClientInv
  <2> QED BY <2>4, <2>5, <2>6 DEF ClientInv
<1>5. CASE ~ IsOpen(k)
  <2>1. /\ sock' = [sock EXCEPT ![c] = None] /\ buffer' = Closed(k)
        /\ module' = IF module[k].state \in {"closed", "close_wait"}
                     THEN StopModule(k) ELSE module
    BY <1>0, <1>5 DEF ConnectedStatus
  <2>2. Answer(FALSE, 0)
    <3>1. Answer(IsOpen(k), IF IsOpen(k) THEN module[k].conn ELSE 0)
      BY <1>0 DEF ConnectedStatus
    <3>2. IsOpen(k) = FALSE
      BY <1>5 DEF IsOpen
    <3> QED BY <1>5, <3>1, <3>2
  <2>3. \/ result' = result
        \/ result' = [op |-> call.op, value |-> FALSE, conn |-> 0, own |-> mine[c]]
    BY <1>0, <2>2 DEF Answer
  <2>4. /\ sock'[c] = None /\ buffer'[k] = <<>>
        /\ \A j \in Sockets : j # k => module'[j] = module[j] /\ buffer'[j] = buffer[j]
        /\ module'[k] = module[k] \/ (module'[k].state = "free" /\ module'[k].conn = 0)
    BY <1>1, <2>1, StopTypes DEF Types
  <2>5. Owes'
    BY <1>1, <1>2, <2>4 DEF Owes
  <2>6. Unserved'
    BY <1>1, <2>4 DEF Unserved, ClientInv
  <2>7. Emptied'
    BY <1>0, <1>1, <1>2, <2>4 DEF Emptied, ClientInv
  <2>8. Fresh' /\ ReadInOrder'
    BY <1>1 DEF Fresh, ReadInOrder, ClientInv
  <2>9. ConnectedIsTrue'
    BY <2>3, <1>1 DEF ConnectedIsTrue, ClientInv
  <2>10. ~ Slow' => Accounted'
    <3>1. ASSUME ~ Slow
          PROVE  \A j \in Sockets : module'[j].conn = 0 /\ module'[j].state # "syn"
      <4>1. Accounted
        BY <3>1 DEF ClientInv
      <4>2. ASSUME NEW j \in Sockets, j # k PROVE module'[j].conn = 0 /\ module'[j].state # "syn"
        BY <1>0, <1>1, <1>2, <2>4, <4>1, <4>2 DEF Accounted
      <4>3. module'[k].conn = 0 /\ module'[k].state # "syn"
        <5>1. CASE module[k].state \in {"closed", "close_wait"}
          BY <1>1, <2>1, <5>1, StopTypes
        <5>2. CASE module[k].state \notin {"closed", "close_wait"}
          <6>1. module' = module /\ module[k].state # "syn" /\ module[k].state # "open"
            BY <1>1, <1>5, <2>1, <4>1, <5>2 DEF Accounted, IsOpen
          <6>2. module[k].state \in States
            BY <1>1 DEF Types, Socket
          <6> QED BY <1>3, <5>2, <6>1, <6>2 DEF States, Idle
        <5> QED BY <5>1, <5>2
      <4> QED BY <4>2, <4>3
    <3>2. ASSUME ~ Slow PROVE Accounted
      BY <3>2 DEF ClientInv
    <3> QED BY <1>1, <1>3, <2>3, <3>1, <3>2 DEF Accounted
  <2> QED BY <2>5, <2>6, <2>7, <2>8, <2>9, <2>10 DEF ClientInv
<1> QED BY <1>4, <1>5

\* A connection made takes a number with nothing in its buffer, and the one the
\* client had is gone.
LEMMA ClientConnects ==
  ASSUME Types, Alone, ClientInv, setting' = setting, NEW c \in Clients, Connect(c)
  PROVE  ClientInv'
<1>1. /\ Sockets' = Sockets /\ MaxConns' = MaxConns /\ MaxConns \in Nat
      /\ Slow' = Slow /\ None \notin Sockets /\ \A d \in Clients : d = c
      /\ conns \in 0 .. MaxConns
  BY OneClient DEF Types
<1>2. PICK m, b, k : Connects(c, m, b, k)
  BY ConnectIs
<1>3. /\ m \in [Sockets -> Socket(MaxConns)]
      /\ \A j \in Sockets : \/ j = sock[c] /\ m[j] = FreeSocket /\ b[j] = <<>>
                            \/ j # sock[c] /\ m[j] = module[j] /\ b[j] = buffer[j]
      /\ k = None \/ (k \in Sockets /\ m[k].state = "free")
      /\ UNCHANGED <<server, inbound, got, read>> /\ conns < MaxConns
      /\ buffer' = b /\ sock' = [sock EXCEPT ![c] = k] /\ sock'[c] = k
  BY <1>2 DEF Connects, Types
<1>4. \A j \in Sockets : b[j] = <<>>
  BY <1>1, <1>3 DEF ClientInv, Emptied
<1>5. /\ \A j \in Sockets : m[j].state # "listen"
      /\ ~ Slow => \A j \in Sockets : m[j].state # "syn" /\ m[j].conn = 0
  <2>1. FreeSocket.state = "free" /\ FreeSocket.conn = 0
    BY DEF FreeSocket
  <2>2. ASSUME ~ Slow PROVE Accounted
    BY <2>2 DEF ClientInv
  <2> QED BY <1>1, <1>3, <2>1, <2>2 DEF ClientInv, Unserved, Accounted
<1>6. Emptied' /\ ReadInOrder'
  BY <1>1, <1>3, <1>4 DEF Emptied, ReadInOrder, ClientInv
<1>7. CASE k = None
  <2>1. /\ module' = m /\ UNCHANGED <<call, conns, mine>> /\ result' = NoneGiven
    BY <1>1, <1>2, <1>7 DEF Connects
  <2>2. Owes'
    BY <1>1, <1>3, <1>7 DEF Owes
  <2>3. Unserved' /\ Fresh' /\ ConnectedIsTrue'
    BY <1>1, <1>3, <1>5, <2>1 DEF Unserved, Fresh, ConnectedIsTrue, ClientInv, NoneGiven
  <2>4. ~ Slow' => Accounted'
    BY <1>1, <1>5, <2>1 DEF Accounted, NoneGiven
  <2> QED BY <1>6, <2>2, <2>3, <2>4 DEF ClientInv
<1>8. CASE k \in Sockets
  <2>1. k # None
    BY <1>1, <1>8
  <2>2. PICK state \in {"open", "closed"} \cup (IF Slow THEN {"syn"} ELSE {}) :
          module' = [m EXCEPT ![k] = [state |-> state, conn |-> conns + 1, queue |-> <<>>]]
    BY <1>2, <2>1 DEF Connects
  <2>3. /\ conns' = conns + 1 /\ mine' = [mine EXCEPT ![c] = conns + 1] /\ result' = result
    BY <1>2, <2>1 DEF Connects
  <2>4. /\ module'[k].state = state /\ module'[k].conn = conns + 1 /\ module'[k].queue = <<>>
        /\ \A j \in Sockets : j # k => module'[j] = m[j]
        /\ mine'[c] = conns + 1
    BY <1>3, <1>8, <2>2, <2>3 DEF Types
  <2>5. Owes'
    <3>1. /\ sock'[c] = k /\ got'[conns + 1] = 0 /\ buffer'[k] \o module'[k].queue = <<>>
      BY <1>1, <1>3, <1>4, <1>8, <2>4 DEF ClientInv, Fresh
    <3>2. Numbered(<<>>, conns + 1, 0) /\ conns + 1 # 0
      BY <1>1 DEF Numbered
    <3>3. module'[k].conn \in {0, conns + 1}
      BY <2>4
    <3>4. Owed(c)'
      BY <2>4, <3>1, <3>2, <3>3, OwedThen
    <3> QED BY <1>1, <3>4 DEF Owes
  <2>6. Unserved'
    BY <1>1, <1>3, <1>5, <1>8, <2>2, <2>4 DEF Unserved, ClientInv
  <2>7. Fresh' /\ ConnectedIsTrue'
    BY <1>1, <1>3, <2>3, <2>4 DEF Fresh, ConnectedIsTrue, ClientInv, Types
  <2>8. ~ Slow' => Accounted'
    <3>1. ASSUME ~ Slow
          PROVE  /\ \A j \in Sockets : module'[j].state # "syn"
                 /\ \A j \in Sockets : j # k => module'[j].conn = 0
      BY <1>5, <2>2, <2>4, <3>1
    <3>2. ASSUME ~ Slow, result'.op = "connect", ~ result'.value
          PROVE  result'.own <= conns /\ result'.own \in Nat
      BY <1>1, <2>3, <3>2 DEF Accounted, ClientInv, Types, Result
    <3>3. ASSUME ~ Slow, result'.op = "connect", ~ result'.value, NEW j \in Sockets,
                 module'[j].conn # 0
          PROVE  module'[j].conn # result'.own /\ result'.own <= conns'
      <4>1. j = k
        BY <3>1, <3>3
      <4> QED BY <1>1, <2>3, <2>4, <3>2, <3>3, <4>1
    <3>4. ASSUME ~ Slow, result'.op = "connect", ~ result'.value
          PROVE  result'.own <= conns'
      BY <1>1, <2>3, <3>2, <3>4
    <3> QED BY <1>1, <1>3, <3>1, <3>3, <3>4 DEF Accounted
  <2> QED BY <1>6, <2>5, <2>6, <2>7, <2>8 DEF ClientInv
<1> QED BY <1>3, <1>7, <1>8

\* A socket of the module that keeps its connection or loses it, and a byte at most
\* that the peer adds.
LEMMA ClientBecomes ==
  ASSUME Types, Types', Alone, ClientInv, setting' = setting, NEW k, NEW s, Becomes(k, s),
         UNCHANGED <<server, conns, inbound>>,
         s.conn \in {0, module[k].conn}, s.state # "listen",
         s.state = "syn" => module[k].state = "syn",
         \/ s.queue = <<>> \/ s.queue = module[k].queue
         \/ /\ s.queue = Append(module[k].queue, [conn |-> module[k].conn, n |-> SentOn(k) + 1])
            /\ module[k].conn # 0
  PROVE  ClientInv'
<1>1. /\ Sockets' = Sockets /\ MaxConns' = MaxConns /\ MaxConns \in Nat
      /\ Slow' = Slow /\ None \notin Sockets
  BY OneClient DEF Types
<1>2. /\ k \in Sockets /\ s \in Socket(MaxConns) /\ module' = [module EXCEPT ![k] = s]
      /\ UNCHANGED <<sock, buffer, call, mine, got, read, result>>
  BY DEF Becomes
<1>3. module'[k] = s /\ \A j \in Sockets : j # k => module'[j] = module[j]
  BY <1>2 DEF Types
<1>4. ASSUME NEW c \in Clients, sock[c] # None PROVE Owed(c)'
  <2>1. /\ sock[c] \in Sockets /\ mine[c] # 0 /\ mine[c] \in 0 .. MaxConns
        /\ module[sock[c]].conn \in {0, mine[c]}
        /\ Numbered(Stream(sock[c]), mine[c], got[mine[c]]) /\ got[mine[c]] \in Nat
    BY <1>1, <1>4 DEF ClientInv, Owes, Owed, Types
  <2>2. CASE sock[c] # k
    <3>1. /\ sock'[c] = sock[c] /\ mine'[c] = mine[c] /\ got'[mine[c]] = got[mine[c]]
          /\ buffer'[sock[c]] \o module'[sock[c]].queue = Stream(sock[c])
          /\ module'[sock[c]].conn \in {0, mine[c]}
      BY <1>2, <1>3, <2>1, <2>2 DEF Stream
    <3> QED BY <2>1, <3>1, OwedThen
  <2>3. CASE sock[c] = k
    <3>1. /\ sock'[c] = k /\ mine'[c] = mine[c] /\ got'[mine[c]] = got[mine[c]]
          /\ buffer'[k] = buffer[k] /\ module'[k].queue = s.queue
          /\ module'[k].conn \in {0, mine[c]}
      BY <1>2, <1>3, <2>1, <2>3
    <3> DEFINE B == Byte(MaxConns)
               a == buffer[k]
               q == module[k].queue
    <3>2. a \in Seq(B) /\ q \in Seq(B) /\ s.queue \in Seq(B)
      BY <1>2 DEF Types, Socket
    <3>3. Numbered(a \o q, mine[c], got[mine[c]])
      BY <2>1, <2>3 DEF Stream
    <3>4. /\ module'[k].conn \in {0, mine[c]}
          /\ SentOn(k) = got[module[k].conn] + Len(a) + Len(q)
      BY <3>1 DEF SentOn
    <3> HIDE DEF B, a, q
    <3>5. Numbered(a \o s.queue, mine[c], got[mine[c]])
      <4>1. CASE s.queue = <<>>
        BY <3>2, <3>3, <4>1, NumberedLess
      <4>2. CASE s.queue = module[k].queue
        BY <3>3, <4>2 DEF q
      <4>3. CASE /\ s.queue = Append(module[k].queue, [conn |-> module[k].conn, n |-> SentOn(k) + 1])
                 /\ module[k].conn # 0
        <5> DEFINE byte == [conn |-> mine[c], n |-> got[mine[c]] + Len(a) + Len(q) + 1]
        <5>1. s.queue = Append(q, byte)
          BY <2>1, <2>3, <3>4, <4>3 DEF q
        <5>2. byte \in B
          <6>1. Len(a) \in Nat /\ Len(q) \in Nat
            BY <3>2
          <6> QED BY <1>1, <2>1, <6>1 DEF B, Byte
        <5> HIDE DEF byte
        <5>3. byte = [conn |-> mine[c], n |-> got[mine[c]] + Len(a) + Len(q) + 1]
          BY DEF byte
        <5>4. Numbered(a \o Append(q, byte), mine[c], got[mine[c]])
          BY <2>1, <3>2, <3>3, <5>2, <5>3, NumberedMore
        <5> QED BY <5>1, <5>4
      <4> QED BY <4>1, <4>2, <4>3
    <3>6. buffer'[k] \o module'[k].queue = a \o s.queue
      BY <3>1 DEF a
    <3> QED BY <2>1, <3>1, <3>5, <3>6, OwedThen
  <2> QED BY <2>2, <2>3
<1>5. Owes'
  BY <1>2, <1>4 DEF Owes
<1>6. Unserved' /\ Emptied' /\ Fresh' /\ ReadInOrder' /\ ConnectedIsTrue'
  BY <1>1, <1>2, <1>3 DEF Unserved, Emptied, Fresh, ReadInOrder, ConnectedIsTrue, ClientInv
<1>7. ~ Slow' => Accounted'
  <2>1. ASSUME ~ Slow, NEW j \in Sockets, module'[j].conn # 0
        PROVE  module[j].conn = module'[j].conn
    BY <1>3, <2>1
  <2>2. ASSUME ~ Slow, NEW j \in Sockets PROVE module'[j].state # "syn"
    BY <1>3, <2>2 DEF Accounted, ClientInv
  <2> QED BY <1>1, <1>2, <2>1, <2>2 DEF Accounted, ClientInv
<1> QED BY <1>5, <1>6, <1>7 DEF ClientInv

\* Every step of one client keeps what it is promised.
LEMMA ClientNext ==
  ASSUME Types, Types', Alone, ClientInv, [Next]_<<setting, vars>>
  PROVE  ClientInv'
<1>1. setting' = setting
  BY DEF Next, vars
<1>2. /\ Sockets' = Sockets /\ MaxConns' = MaxConns /\ Slow' = Slow /\ "server" \notin Uses
      /\ server.sock = None
  BY <1>1, OneClient DEF Types, ClientInv, Unserved
<1>3. ASSUME UNCHANGED <<sock, buffer, module, server, conns, mine, got, read, result>>
      PROVE  ClientInv'
  <2>1. Unserved' /\ Emptied' /\ Owes' /\ Fresh'
    BY <1>2, <1>3 DEF Unserved, Emptied, Owes, Owed, Fresh, Stream, Numbered, ClientInv
  <2>2. ReadInOrder' /\ ConnectedIsTrue' /\ (~ Slow' => Accounted')
    BY <1>2, <1>3 DEF ReadInOrder, ConnectedIsTrue, Accounted, ClientInv
  <2> QED BY <2>1, <2>2 DEF ClientInv
<1>4. CASE UNCHANGED vars
  BY <1>3, <1>4 DEF vars
<1>5. CASE Sketch
  <2>1. ~ Begin
    BY <1>2, BeginIs
  <2>2. ASSUME NEW c \in Clients PROVE ~ NextClient(c)
    BY <1>2, NextClientIs
  <2>3. ASSUME NEW c \in Clients, CallConnected(c) PROVE ClientInv'
    BY <1>3, <2>3 DEF CallConnected
  <2>4. ASSUME NEW c \in Clients, WriteFails(c) PROVE ClientInv'
    <3>1. Becomes(sock[c], FreeSocket) /\ UNCHANGED <<server, conns, inbound>>
      BY <2>4, WriteFailsIs
    <3>2. FreeSocket.conn = 0 /\ FreeSocket.state = "free" /\ FreeSocket.queue = <<>>
      BY DEF FreeSocket
    <3> QED BY <1>1, <3>1, <3>2, ClientBecomes
  <2> QED BY <1>1, <1>5, <2>1, <2>2, <2>3, <2>4, ClientConnects, ClientReads, ClientStops DEF Sketch
<1>6. CASE Running
  BY <1>1, <1>6, ClientAsks, ClientLearns DEF Running
<1>7. CASE Peers
  <2>1. ~ Accept
    BY <1>2, AcceptIs
  <2>2. ASSUME NEW k \in Sockets, Established(k) \/ PeerSends(k) \/ PeerCloses(k)
        PROVE  ClientInv'
    <3>1. PICK s : /\ Becomes(k, s) /\ s.conn = module[k].conn /\ s.conn # 0
                   /\ s.state \in {"open", "closed", "close_wait"}
                   /\ \/ s.queue = module[k].queue
                      \/ s.queue = Append(module[k].queue, [conn |-> module[k].conn, n |-> SentOn(k) + 1])
      BY <2>2, PeerIs
    <3>2. UNCHANGED <<server, conns, inbound>>
      BY <2>2, PeerIs
    <3> QED BY <1>1, <3>1, <3>2, ClientBecomes
  <2> QED BY <1>7, <2>1, <2>2 DEF Peers
<1> QED BY <1>4, <1>5, <1>6, <1>7 DEF Next

\* The first state keeps it.
LEMMA ClientInit ==
  ASSUME Init
  PROVE  ClientInv
<1>1. Types
  BY InitTypes
<1>2. /\ sock = [c \in Clients |-> None] /\ buffer = [k \in Sockets |-> <<>>]
      /\ module = [k \in Sockets |-> FreeSocket] /\ server.sock = None
      /\ conns = 0 /\ mine = [c \in Clients |-> 0] /\ got = [n \in 1 .. MaxConns |-> 0]
      /\ read.conn = read.own /\ read.n = read.due /\ result = NoResult
  BY DEF Init
<1>3. FreeSocket.state = "free" /\ FreeSocket.conn = 0 /\ NoResult.op = "none"
  BY DEF FreeSocket, NoResult
<1> QED BY <1>2, <1>3 DEF ClientInv, Unserved, Emptied, Owes, Fresh, ReadInOrder, ConnectedIsTrue,
                          Accounted

\* Types, in the words of the run.
LEMMA TypesGive ==
  ASSUME Types
  PROVE  TypeOK
<1>1. call.stage \in {"none", "available", "status"} /\ call.turn \in 0 .. MaxTurns
  BY SocketsAssumption DEF Types, Call, NoCall
<1> QED BY <1>1 DEF TypeOK, Types, Socket, States

\* One client that has the module for itself reads the bytes of its own connection,
\* each once and in the order they were sent, is told of its own connection only,
\* and, where a handshake is over when connect() first asks, has no other left in
\* the module when connect() fails.
THEOREM SocketsHold == Spec => []SocketsInv
<1> DEFINE Inv == Types /\ (Alone => ClientInv)
<1>1. Init => Inv
  BY InitTypes, ClientInit
<1>2. Inv /\ [Next]_<<setting, vars>> => Inv'
  <2> SUFFICES ASSUME Inv, [Next]_<<setting, vars>> PROVE Inv'
    OBVIOUS
  <2>1. Types'
    BY NextTypes
  <2>2. Alone' = Alone
    BY LimitsStay DEF Next, vars
  <2> QED BY <2>1, <2>2, ClientNext
<1>3. Inv => SocketsInv
  <2> SUFFICES ASSUME Inv PROVE SocketsInv
    OBVIOUS
  <2>1. TypeOK
    BY TypesGive
  <2>2. ASSUME Alone, ~ Slow PROVE FailedConnectIsOver
    BY <2>2 DEF FailedConnectIsOver, ClientInv, Accounted
  <2> QED BY <2>1, <2>2 DEF SocketsInv, ClientInv
<1> QED BY <1>1, <1>2, <1>3, PTL DEF Spec

-----------------------------------------------------------------------------
(* A server                                                                *)
-----------------------------------------------------------------------------
\* A sketch without a server hands out nothing.
NoServer == server.sock = None /\ result.op # "available"

\* A byte of a connection that the server accepted.
OwnByte == [conn : inbound, n : Nat]

\* Where nothing else is connected, all the module has was accepted, and so were the
\* bytes still to be read, those of connections long gone included.
Accepted ==
  /\ \A k \in Sockets : module[k].conn \in inbound \cup {0}
  /\ \A k \in Sockets : buffer[k] \in Seq(OwnByte) /\ module[k].queue \in Seq(OwnByte)
  /\ ServerReturnsOwn

\* A sketch without a server stays without one.
LEMMA NoServerStays ==
  ASSUME Types, "server" \notin Uses, NoServer, [Next]_<<setting, vars>>
  PROVE  NoServer'
<1>1. server.sock = None /\ result.op # "available"
  BY DEF NoServer
<1>2. ASSUME NEW v, NEW n, Answer(v, n), call \in Call
      PROVE  result' = result \/ result'.op \in {"connect", "connected"}
  BY <1>2 DEF Answer, Call
<1>3. CASE UNCHANGED vars
  BY <1>1, <1>3 DEF NoServer, vars
<1>4. CASE Sketch
  <2>1. ~ Begin
    BY BeginIs
  <2>2. ASSUME NEW c \in Clients PROVE ~ NextClient(c)
    BY <1>1, NextClientIs
  <2>3. ASSUME NEW c \in Clients, Connect(c) PROVE NoServer'
    <3>1. server' = server /\ (result' = result \/ result' = NoneGiven)
      BY <2>3 DEF Connect
    <3> QED BY <1>1, <3>1 DEF NoServer, NoneGiven
  <2>4. ASSUME NEW c \in Clients, CallConnected(c) \/ Read(c) \/ WriteFails(c) \/ Stop(c)
        PROVE  UNCHANGED <<server, result>>
    BY <2>4 DEF CallConnected, Read, WriteFails, Stop
  <2> QED BY <1>1, <1>4, <2>1, <2>2, <2>3, <2>4 DEF Sketch, NoServer
<1>5. CASE Running
  <2>1. server' = server /\ call \in Call
    <3>1. server' = server
      BY <1>5 DEF Running, ConnectedAvailable, ConnectedStatus
    <3>2. call.stage # "none"
      BY <1>5 DEF Running, ConnectedAvailable, ConnectedStatus
    <3> QED BY <3>1, <3>2 DEF Types, NoCall
  <2>2. CASE ConnectedAvailable
    <3>1. result' = result \/ \E v, n : Answer(v, n)
      BY <2>2 DEF ConnectedAvailable
    <3> QED BY <1>1, <1>2, <2>1, <3>1 DEF NoServer
  <2>3. CASE ConnectedStatus
    <3>1. \E v, n : Answer(v, n)
      BY <2>3, Zenon DEF ConnectedStatus
    <3> QED BY <1>1, <1>2, <2>1, <3>1 DEF NoServer
  <2> QED BY <1>5, <2>2, <2>3 DEF Running
<1>6. CASE Peers
  <2>1. UNCHANGED <<server, result>>
    BY <1>6 DEF Peers, Accept, Established, PeerSends, PeerCloses
  <2> QED BY <1>1, <2>1 DEF NoServer
<1> QED BY <1>3, <1>4, <1>5, <1>6 DEF Next

\* A socket that becomes one of an accepted connection.
LEMMA AcceptedBecomes ==
  ASSUME Types, Accepted, setting' = setting, NEW k, NEW s, Becomes(k, s),
         inbound \subseteq inbound', s.conn \in inbound' \cup {0}, s.queue \in Seq(OwnByte')
  PROVE  Accepted'
<1>1. /\ Sockets' = Sockets /\ k \in Sockets /\ module' = [module EXCEPT ![k] = s]
      /\ UNCHANGED <<buffer, result>>
  BY LimitsStay DEF Becomes
<1>2. module'[k] = s /\ \A j \in Sockets : j # k => module'[j] = module[j]
  BY <1>1 DEF Types
<1>3. ASSUME NEW q \in Seq(OwnByte) PROVE q \in Seq(OwnByte')
  <2>1. OwnByte \subseteq OwnByte'
    BY DEF OwnByte
  <2> QED BY <2>1, SeqMonotonic
<1>4. \A j \in Sockets : module'[j].conn \in inbound' \cup {0}
  BY <1>1, <1>2 DEF Accepted
<1>5. ASSUME NEW j \in Sockets
      PROVE  buffer'[j] \in Seq(OwnByte') /\ module'[j].queue \in Seq(OwnByte')
  BY <1>1, <1>2, <1>3 DEF Accepted
<1>6. ServerReturnsOwn'
  BY <1>1 DEF ServerReturnsOwn, Accepted
<1> QED BY <1>1, <1>4, <1>5, <1>6 DEF Accepted

\* What is to be said of any other step: it brings no byte and no connection.
LEMMA AcceptedKept ==
  ASSUME Accepted, setting' = setting, inbound' = inbound,
         \A j \in Sockets : module'[j].conn \in {0, module[j].conn},
         \A j \in Sockets : buffer'[j] \in Seq(OwnByte) /\ module'[j].queue \in Seq(OwnByte),
         ServerReturnsOwn'
  PROVE  Accepted'
BY LimitsStay DEF Accepted, OwnByte

\* Neither does filling a buffer.
LEMMA AcceptedFill ==
  ASSUME Types, Accepted, NEW k \in Sockets, Refilled(k, module')
  PROVE  /\ Available(k) \in Seq(OwnByte)
         /\ \A j \in Sockets : /\ module'[j].conn = module[j].conn
                               /\ module'[j].queue \in Seq(OwnByte)
<1>1. buffer[k] \in Seq(OwnByte) /\ module[k].queue \in Seq(OwnByte)
  BY DEF Accepted
<1>2. Available(k) \in Seq(OwnByte) /\ Left(buffer[k], module[k].queue) \in Seq(OwnByte)
  <2> HIDE DEF OwnByte
  <2> QED BY <1>1, Filling DEF Available
<1>3. module'[k].queue = Left(buffer[k], module[k].queue)
  BY DEF Refilled, Types, Socket
<1>4. \A j \in Sockets : j # k => module'[j] = module[j]
  BY DEF Refilled, Types
<1>5. module'[k].conn = module[k].conn
  BY FillKeeps
<1> QED BY <1>2, <1>3, <1>4, <1>5 DEF Accepted

\* Nor does one that is stopped.
LEMMA AcceptedStop ==
  ASSUME Types, Accepted, NEW k \in Sockets, NEW j \in Sockets
  PROVE  /\ StopModule(k)[j].conn \in {0, module[j].conn}
         /\ StopModule(k)[j].queue \in Seq(OwnByte) /\ Closed(k)[j] \in Seq(OwnByte)
<1>1. <<>> \in Seq(OwnByte)
  OBVIOUS
<1>2. CASE j = k
  BY <1>1, <1>2, StopTypes
<1>3. CASE j # k
  BY <1>3, StopTypes DEF Accepted
<1> QED BY <1>2, <1>3

\* The sketch's steps.
LEMMA AcceptedSketch ==
  ASSUME Types, Accepted, "connect" \notin Uses, setting' = setting, Sketch
  PROVE  Accepted'
<1>1. ASSUME NEW c \in Clients PROVE ~ Connect(c)
  BY DEF Connect
<1>2. ASSUME NEW c \in Clients, CallConnected(c) PROVE Accepted'
  <2>1. UNCHANGED <<buffer, module, inbound, result>>
    BY <1>2 DEF CallConnected
  <2> QED BY <2>1, AcceptedKept DEF Accepted, ServerReturnsOwn
<1>3. ASSUME NEW c \in Clients, Read(c) PROVE Accepted'
  <2>1. PICK k \in Sockets, byte \in Byte(MaxConns) :
          /\ Refilled(k, module') /\ Available(k) # <<>>
          /\ buffer' = [buffer EXCEPT ![k] = Tail(Available(k))]
          /\ UNCHANGED <<inbound, result>>
    BY <1>3, ReadIs
  <2>2. /\ Available(k) \in Seq(OwnByte)
        /\ \A j \in Sockets : module'[j].conn = module[j].conn /\ module'[j].queue \in Seq(OwnByte)
    BY <2>1, AcceptedFill
  <2>3. Tail(Available(k)) \in Seq(OwnByte)
    BY <2>1, <2>2
  <2>4. \A j \in Sockets : buffer'[j] \in Seq(OwnByte)
    BY <2>1, <2>3 DEF Accepted, Types
  <2> QED BY <2>1, <2>2, <2>4, AcceptedKept DEF Accepted, ServerReturnsOwn
<1>4. ASSUME NEW c \in Clients, WriteFails(c) PROVE Accepted'
  <2>1. Becomes(sock[c], FreeSocket) /\ inbound' = inbound
    BY <1>4, WriteFailsIs
  <2>2. FreeSocket.conn = 0 /\ FreeSocket.queue \in Seq(OwnByte')
    BY DEF FreeSocket
  <2> QED BY <2>1, <2>2, AcceptedBecomes
<1>5. ASSUME NEW c \in Clients, Stop(c) PROVE Accepted'
  <2>1. /\ sock[c] \in Sockets /\ module' = StopModule(sock[c]) /\ buffer' = Closed(sock[c])
        /\ UNCHANGED <<inbound, result>>
    BY <1>5 DEF Stop, Types
  <2> QED BY <2>1, AcceptedStop, AcceptedKept DEF Accepted, ServerReturnsOwn
<1>6. ASSUME NEW c \in Clients, NextClient(c) PROVE Accepted'
  <2>1. inbound' = inbound
    BY <1>6, NextClientIs
  <2>2. ASSUME NEW k \in Sockets, Available(k) # <<>>, Refilled(k, module'),
               buffer' = [buffer EXCEPT ![k] = Available(k)], Return(c, k, Head(Available(k)).conn)
        PROVE  Accepted'
    <3>1. /\ Available(k) \in Seq(OwnByte)
          /\ \A j \in Sockets : module'[j].conn = module[j].conn /\ module'[j].queue \in Seq(OwnByte)
      BY <2>2, AcceptedFill
    <3>2. Head(Available(k)) \in OwnByte
      BY <2>2, <3>1
    <3>3. ServerReturnsOwn'
      BY <2>1, <2>2, <3>2 DEF Return, ServerReturnsOwn, OwnByte
    <3>4. \A j \in Sockets : buffer'[j] \in Seq(OwnByte)
      BY <2>2, <3>1 DEF Accepted, Types
    <3> QED BY <2>1, <3>1, <3>3, <3>4, AcceptedKept
  <2>3. ASSUME module' = module \/ \E k \in Sockets : module' = StopModule(k), buffer' = buffer,
               \/ \E k \in Named : Return(c, k, module[k].conn)
               \/ /\ sock' = [sock EXCEPT ![c] = None] /\ result' = NoResult
                  /\ UNCHANGED <<mine, server>>
        PROVE  Accepted'
    <3>1. ServerReturnsOwn'
      BY <2>1, <2>3 DEF Return, ServerReturnsOwn, Named, NoResult
    <3>2. ASSUME NEW j \in Sockets
          PROVE  module'[j].conn \in {0, module[j].conn} /\ module'[j].queue \in Seq(OwnByte)
      BY <2>3, AcceptedStop DEF Accepted
    <3> QED BY <2>1, <2>3, <3>1, <3>2, AcceptedKept DEF Accepted
  <2> QED BY <1>6, <2>2, <2>3, NextClientIs
<1>7. CASE Begin
  <2>1. PICK k, s : Becomes(k, s) /\ s.conn = 0 /\ s.queue = module[k].queue
    BY <1>7, BeginIs
  <2>2. inbound' = inbound /\ k \in Sockets
    BY <1>7, <2>1, BeginIs DEF Becomes
  <2>3. s.queue \in Seq(OwnByte')
    BY <2>1, <2>2 DEF Accepted, OwnByte
  <2> QED BY <2>1, <2>2, <2>3, AcceptedBecomes
<1> QED BY <1>1, <1>2, <1>3, <1>4, <1>5, <1>6, <1>7 DEF Sketch

\* connected()'s steps.
LEMMA AcceptedRunning ==
  ASSUME Types, Accepted, setting' = setting, Running
  PROVE  Accepted'
<1>1. inbound' = inbound /\ call \in Call
  <2>1. inbound' = inbound
    BY DEF Running, ConnectedAvailable, ConnectedStatus
  <2>2. call.stage # "none"
    BY DEF Running, ConnectedAvailable, ConnectedStatus
  <2> QED BY <2>1, <2>2 DEF Types, NoCall
<1>2. result' = result \/ \E v, n : Answer(v, n)
  BY Zenon DEF Running, ConnectedAvailable, ConnectedStatus
<1>3. ServerReturnsOwn'
  <2>1. result' = result \/ result'.op \in {"connect", "connected"}
    BY <1>1, <1>2 DEF Answer, Call
  <2> QED BY <1>1, <2>1 DEF Accepted, ServerReturnsOwn
<1>4. PICK k : k = sock[call.client]
  OBVIOUS
<1>5. k \in Sockets \cup {None}
  BY <1>1, <1>4 DEF Types, Call
<1>6. CASE UNCHANGED <<buffer, module>>
  BY <1>1, <1>3, <1>6, AcceptedKept DEF Accepted
<1>7. CASE k \in Sockets /\ Fill(k)
  <2>1. Refilled(k, module') /\ buffer' = [buffer EXCEPT ![k] = Available(k)]
    BY <1>7 DEF Fill, Refilled
  <2>2. /\ Available(k) \in Seq(OwnByte)
        /\ \A j \in Sockets : module'[j].conn = module[j].conn /\ module'[j].queue \in Seq(OwnByte)
    BY <1>7, <2>1, AcceptedFill
  <2>3. \A j \in Sockets : buffer'[j] \in Seq(OwnByte)
    BY <2>1, <2>2 DEF Accepted, Types
  <2> QED BY <1>1, <1>3, <2>2, <2>3, AcceptedKept
<1>8. CASE k \in Sockets /\ buffer' = Closed(k) /\ (module' = module \/ module' = StopModule(k))
  <2>1. ASSUME NEW j \in Sockets
        PROVE  /\ module'[j].conn \in {0, module[j].conn} /\ module'[j].queue \in Seq(OwnByte)
               /\ buffer'[j] \in Seq(OwnByte)
    BY <1>8, AcceptedStop DEF Accepted
  <2> QED BY <1>1, <1>3, <2>1, AcceptedKept
<1>9. CASE ConnectedAvailable
  BY <1>4, <1>5, <1>6, <1>7, <1>9 DEF ConnectedAvailable
<1>10. CASE ConnectedStatus
  <2>1. k # None
    BY <1>1, <1>4, <1>10, SocketsAssumption DEF ConnectedStatus, Types, NoCall, Call
  <2>2. \/ UNCHANGED <<buffer, module>>
        \/ buffer' = Closed(k) /\ (module' = module \/ module' = StopModule(k))
    BY <1>4, <1>10 DEF ConnectedStatus
  <2> QED BY <1>5, <1>6, <1>8, <2>1, <2>2
<1> QED BY <1>9, <1>10 DEF Running

\* The module's steps and the peers'.
LEMMA AcceptedPeers ==
  ASSUME Types, Accepted, setting' = setting, Peers
  PROVE  Accepted'
<1>1. CASE Accept
  <2>1. PICK k, s : Becomes(k, s) /\ s.conn = conns + 1 /\ s.queue = <<>>
    BY <1>1, AcceptIs
  <2>2. inbound' = inbound \cup {conns + 1}
    BY <1>1, AcceptIs
  <2>3. s.queue \in Seq(OwnByte')
    BY <2>1
  <2> QED BY <2>1, <2>2, <2>3, AcceptedBecomes
<1>2. ASSUME NEW k \in Sockets, Established(k) \/ PeerSends(k) \/ PeerCloses(k)
      PROVE  Accepted'
  <2>1. PICK s : /\ Becomes(k, s) /\ s.conn = module[k].conn /\ s.conn # 0
                 /\ \/ s.queue = module[k].queue
                    \/ s.queue = Append(module[k].queue, [conn |-> module[k].conn, n |-> SentOn(k) + 1])
    BY <1>2, PeerIs
  <2>2. inbound' = inbound
    BY <1>2, PeerIs
  <2>3. s.conn \in inbound
    BY <2>1 DEF Accepted
  <2>4. s.queue \in Seq(OwnByte)
    <3>1. module[k].queue \in Seq(OwnByte)
      BY DEF Accepted
    <3>2. SentOn(k) + 1 \in Nat
      <4>1. /\ buffer[k] \in Seq(Byte(MaxConns)) /\ module[k].queue \in Seq(Byte(MaxConns))
            /\ module[k].conn \in 0 .. MaxConns /\ module[k].conn # 0 /\ MaxConns \in Nat
        BY <2>1, Limits DEF Types, Socket
      <4>2. got[module[k].conn] \in Nat
        BY <4>1 DEF Types
      <4>3. Len(buffer[k]) \in Nat /\ Len(module[k].queue) \in Nat
        BY <4>1
      <4> QED BY <4>2, <4>3 DEF SentOn
    <3> DEFINE byte == [conn |-> module[k].conn, n |-> SentOn(k) + 1]
    <3>3. byte \in OwnByte
      BY <2>1, <2>3, <3>2 DEF OwnByte
    <3>4. s.queue = module[k].queue \/ s.queue = Append(module[k].queue, byte)
      BY <2>1
    <3> HIDE DEF OwnByte, byte
    <3>5. Append(module[k].queue, byte) \in Seq(OwnByte)
      BY <3>1, <3>3
    <3> QED BY <3>1, <3>4, <3>5
  <2>5. s.queue \in Seq(OwnByte')
    BY <2>2, <2>4 DEF OwnByte
  <2> QED BY <2>1, <2>2, <2>3, <2>5, AcceptedBecomes
<1> QED BY <1>1, <1>2 DEF Peers

\* A sketch that is a server, or connects, and never both.
Separate == \A s \in Settings : "connect" \notin s.uses \/ "server" \notin s.uses

\* Where no sketch both connects and is a server, a server hands out none but clients
\* that connected to it, although it picks them by numbers that others had before.
THEOREM ServerHolds == Separate => (Spec => []ServerReturnsOwn)
<1> DEFINE Inv == /\ Types
                  /\ "server" \notin Uses => NoServer
                  /\ "connect" \notin Uses => Accepted
<1> SUFFICES ASSUME Separate PROVE Spec => []ServerReturnsOwn
  OBVIOUS
<1>1. Init => Inv
  <2> SUFFICES ASSUME Init PROVE Inv
    OBVIOUS
  <2>1. /\ server.sock = None /\ result = NoResult /\ inbound = {}
        /\ buffer = [k \in Sockets |-> <<>>] /\ module = [k \in Sockets |-> FreeSocket]
    BY DEF Init
  <2>2. FreeSocket.conn = 0 /\ FreeSocket.queue = <<>> /\ NoResult.op = "none"
    BY DEF FreeSocket, NoResult
  <2>3. /\ Types /\ NoServer /\ ServerReturnsOwn
    BY <2>1, <2>2, InitTypes DEF NoServer, ServerReturnsOwn
  <2>4. <<>> \in Seq(OwnByte)
    OBVIOUS
  <2>5. \A k \in Sockets : /\ module[k].conn = 0 /\ module[k].queue = <<>>
                           /\ buffer[k] = <<>>
    BY <2>1, <2>2
  <2> QED BY <2>3, <2>4, <2>5 DEF Accepted
<1>2. Inv /\ [Next]_<<setting, vars>> => Inv'
  <2> SUFFICES ASSUME Inv, [Next]_<<setting, vars>> PROVE Inv'
    OBVIOUS
  <2>1. Types' /\ setting' = setting /\ Uses' = Uses
    BY NextTypes, LimitsStay DEF Next, vars
  <2>2. ASSUME "connect" \notin Uses PROVE Accepted'
    <3>1. CASE UNCHANGED vars
      <4>1. UNCHANGED <<buffer, module, inbound, result>>
        BY <3>1 DEF vars
      <4> QED BY <2>1, <2>2, <4>1, AcceptedKept DEF Accepted, ServerReturnsOwn
    <3> QED BY <2>1, <2>2, <3>1, AcceptedSketch, AcceptedRunning, AcceptedPeers DEF Next
  <2> QED BY <2>1, <2>2, NoServerStays
<1>3. Inv => ServerReturnsOwn
  <2>1. setting \in Settings => "connect" \notin Uses \/ "server" \notin Uses
    BY DEF Separate, Uses
  <2> QED BY <2>1 DEF Types, Accepted, NoServer, ServerReturnsOwn
<1> QED BY <1>1, <1>2, <1>3, PTL DEF Spec

-----------------------------------------------------------------------------
(* A UDP socket                                                            *)
-----------------------------------------------------------------------------
Datum == [packet : Nat, n : Nat]

\* s are the bytes of the datagram of a that follow those read of it.
Follows(s, a) == \A i \in 1 .. Len(s) : s[i] = [packet |-> a.packet, n |-> a.done + i]

Datagrams == {Packet(p, l) : p \in Nat, l \in Nat \ {0}}

\* The datagrams that wait are whole, and none is empty.
UdpTypes ==
  /\ open \in BOOLEAN /\ parsed \in Nat /\ arrived \in Nat
  /\ piece \in Seq(Datum) /\ current \in Seq(Datum) /\ waiting \in Seq(Datagrams)
  /\ announced \in [packet : Nat, done : Nat]

\* The buffer and the module hold the rest of the datagram announced, all that
\* _parsed counts; a socket given back holds nothing.
UdpInv ==
  /\ UdpTypes
  /\ open => parsed = Len(piece) + Len(current)
  /\ ~ open => piece = <<>> /\ current = <<>>
  /\ Follows(piece \o current, announced)

\* Two sequences in a row.
LEMMA Joined ==
  ASSUME NEW S, NEW a \in Seq(S), NEW b \in Seq(S)
  PROVE  /\ a \o b \in Seq(S) /\ Len(a) \in Nat /\ Len(b) \in Nat
         /\ Len(a \o b) = Len(a) + Len(b)
         /\ \A i \in 1 .. Len(a) : i \in 1 .. Len(a \o b) /\ (a \o b)[i] = a[i]
         /\ \A i \in 1 .. Len(b) : Len(a) + i \in 1 .. Len(a \o b) /\ (a \o b)[Len(a) + i] = b[i]
OBVIOUS

\* t is s without its first m.
Without(t, s, m) == /\ m \in Nat /\ m <= Len(s) /\ Len(t) = Len(s) - m
                    /\ \A i \in 1 .. Len(t) : t[i] = s[m + i]

\* The first m gone from them.
LEMMA JoinedLess ==
  ASSUME NEW a \in Seq(Datum), NEW b \in Seq(Datum), NEW f \in Seq(Datum), NEW m,
         Without(f, a, m)
  PROVE  Without(f \o b, a \o b, m)
<1>0. /\ m \in Nat /\ m <= Len(a) /\ Len(f) = Len(a) - m
      /\ \A i \in 1 .. Len(f) : f[i] = a[m + i]
  BY DEF Without
<1>1. /\ Len(a) \in Nat /\ Len(b) \in Nat /\ Len(f) \in Nat
      /\ Len(a \o b) = Len(a) + Len(b) /\ Len(f \o b) = Len(f) + Len(b)
  BY Joined
<1>2. ASSUME NEW i \in 1 .. Len(f) + Len(b) PROVE (f \o b)[i] = (a \o b)[m + i]
  <2>1. CASE i \in 1 .. Len(f)
    <3>1. m + i \in 1 .. Len(a) /\ f[i] = a[m + i]
      BY <1>0, <1>1, <2>1
    <3> QED BY <2>1, <3>1, Joined
  <2>2. CASE i \notin 1 .. Len(f)
    <3>1. PICK j \in 1 .. Len(b) : i = Len(f) + j
      <4>1. i - Len(f) \in 1 .. Len(b) /\ i = Len(f) + (i - Len(f))
        BY <1>1, <2>2
      <4> QED BY <4>1
    <3>2. m + i = Len(a) + j
      BY <1>0, <1>1, <3>1
    <3>3. (f \o b)[Len(f) + j] = b[j] /\ (a \o b)[Len(a) + j] = b[j]
      BY Joined
    <3> QED BY <3>1, <3>2, <3>3
  <2> QED BY <2>1, <2>2
<1>3. Len(f \o b) = Len(a \o b) - m /\ m <= Len(a \o b)
  BY <1>0, <1>1
<1> QED BY <1>0, <1>1, <1>2, <1>3 DEF Without

\* The pieces that are asked for reach the end of the datagram.
LEMMA RoundsUp ==
  ASSUME NEW b \in Nat \ {0}, NEW l \in Nat
  PROVE  b * ((l + b - 1) \div b) \in Nat /\ b * ((l + b - 1) \div b) >= l
OBVIOUS

\* Nothing of a datagram is left when it is read to its end.
LEMMA NothingLeft ==
  ASSUME UdpInv, open
  PROVE  Kept = <<>> /\ Behind = <<>>
<1>1. /\ Len(piece) \in Nat /\ Len(current) \in Nat /\ parsed = Len(piece) + Len(current)
      /\ piece \in Seq(Datum) /\ current \in Seq(Datum) /\ BufferSize \in Nat \ {0}
  BY BufferAssumption DEF UdpInv, UdpTypes
<1>2. Beyond = Len(current)
  BY <1>1 DEF Beyond, Discarded
<1>3. CASE current = <<>>
  <2>1. Beyond <= 0 /\ From(piece, Discarded + 1) = <<>>
    BY <1>1, <1>2, <1>3 DEF From, Discarded
  <2> QED BY <1>3, <2>1 DEF Kept, Behind
<1>4. CASE current # <<>>
  <2>1. Len(current) >= 1 /\ ~ (Beyond <= 0)
    BY <1>1, <1>2, <1>4
  <2>2. Fetched \in Nat /\ Fetched >= Len(current)
    BY <1>1, <1>2, RoundsUp DEF Fetched
  <2>3. UpTo(current, Fetched) = current
    <3>1. Min({Fetched, Len(current)}) = Len(current)
      BY <1>1, <2>2, MinOfTwo
    <3>2. SubSeq(current, 1, Len(current)) = current
      BY <1>1
    <3> QED BY <3>1, <3>2 DEF UpTo
  <2>4. From(current, Len(current) + 1) = <<>> /\ From(current, Fetched + 1) = <<>>
    BY <1>1, <2>2 DEF From
  <2> QED BY <1>2, <2>1, <2>3, <2>4 DEF Kept, Behind
<1> QED BY <1>3, <1>4

\* A datagram that waited is announced whole.
LEMMA NextDatagram ==
  ASSUME UdpInv, waiting # <<>>
  PROVE  /\ Head(waiting) \in Seq(Datum) /\ Head(waiting) # <<>>
         /\ Head(Head(waiting)).packet \in Nat /\ Head(Head(waiting)).n = 1
         /\ \A a : a.packet = Head(Head(waiting)).packet /\ a.done = 0 => Follows(Head(waiting), a)
<1>1. waiting \in Seq(Datagrams)
  BY DEF UdpInv, UdpTypes
<1>2. Head(waiting) \in Datagrams
  BY <1>1
<1>3. PICK p \in Nat, l \in Nat \ {0} : Head(waiting) = Packet(p, l)
  BY <1>2 DEF Datagrams
<1>4. /\ Packet(p, l) \in Seq(Datum) /\ Len(Packet(p, l)) = l
      /\ \A i \in 1 .. l : Packet(p, l)[i] = [packet |-> p, n |-> i]
  BY DEF Packet, Datum
<1>5. Head(Packet(p, l)) = [packet |-> p, n |-> 1] /\ Packet(p, l) # <<>>
  BY <1>4
<1> QED BY <1>3, <1>4, <1>5 DEF Follows

\* What is left of a datagram follows what was taken.
LEMMA FollowsRest ==
  ASSUME NEW s, NEW t, NEW m \in Nat, NEW a, NEW b, Len(s) \in Nat, Without(t, s, m),
         Follows(s, a), b.packet = a.packet, a.done \in Nat, b.done = a.done + m
  PROVE  Follows(t, b)
<1>1. ASSUME NEW i \in 1 .. Len(t) PROVE t[i] = [packet |-> b.packet, n |-> b.done + i]
  <2>1. m + i \in 1 .. Len(s) /\ t[i] = s[m + i]
    BY DEF Without
  <2>2. s[m + i] = [packet |-> a.packet, n |-> a.done + (m + i)]
    BY <2>1 DEF Follows
  <2>3. a.done + (m + i) = b.done + i
    OBVIOUS
  <2> QED BY <2>1, <2>2, <2>3
<1> QED BY <1>1 DEF Follows

\* u are the first of the bytes s, and t the rest of them.
TakenFrom(s, t, u) ==
  /\ s \in Seq(Datum) /\ t \in Seq(Datum) /\ Len(s) \in Nat /\ Len(t) \in Nat
  /\ piece' \in Seq(Datum) /\ current' \in Seq(Datum)
  /\ Len(u) \in Nat /\ Len(u) >= 1
  /\ Len(s) = Len(piece) + Len(current) /\ Len(t) = Len(piece') + Len(current')
  /\ \A i \in 1 .. Len(u) : u[i] = s[i]
  /\ Without(t, s, Len(u))

\* read() takes the beginning of what there is, and the rest stays.
LEMMA TakenIs ==
  ASSUME UdpInv, NEW length \in Nat \ {0}, UdpRead(length)
  PROVE  TakenFrom(piece \o current, piece' \o current', Taken(length))
<1>0. PICK s, t, u : s = piece \o current /\ t = piece' \o current' /\ u = Taken(length)
  OBVIOUS
<1> DEFINE f == From(Ready, Len(u) + 1)
<1>1. /\ piece \in Seq(Datum) /\ current \in Seq(Datum) /\ parsed >= 1
      /\ parsed = Len(piece) + Len(current) /\ piece' = f /\ current' = Rest
  BY <1>0 DEF UdpInv, UdpTypes, UdpRead
<1>2. /\ Ready \in Seq(Datum) /\ Rest \in Seq(Datum) /\ Ready \o Rest = s
      /\ Ready = <<>> => piece = <<>> /\ current = <<>>
  <2>1. /\ Filled(piece, current) \in Seq(Datum) /\ Left(piece, current) \in Seq(Datum)
        /\ Filled(piece, current) \o Left(piece, current) = piece \o current
        /\ Filled(piece, current) = <<>> => piece = <<>> /\ current = <<>>
    <3>1. piece \in Seq(Datum) /\ current \in Seq(Datum)
      BY <1>1
    <3> QED BY ONLY <3>1, Filling
  <2> QED BY <1>0, <2>1 DEF Ready, Rest
<1>3. Ready # <<>> /\ Len(Ready) \in Nat /\ Len(Ready) >= 1
  BY <1>1, <1>2
<1>4. /\ u \in Seq(Datum) /\ f \in Seq(Datum) /\ Len(u) \in Nat /\ Len(u) <= Len(Ready)
      /\ Len(u) = length \/ Len(u) = Len(Ready)
      /\ \A i \in 1 .. Len(u) : u[i] = Ready[i]
      /\ Len(f) = Len(Ready) - Len(u)
      /\ \A i \in 1 .. Len(f) : f[i] = Ready[Len(u) + i]
  <2> QED BY <1>0, <1>2, Parts DEF Taken
<1>5. Len(u) >= 1
  BY <1>3, <1>4
<1> HIDE DEF f
<1>6. /\ s \in Seq(Datum) /\ Len(s) \in Nat /\ Len(Rest) \in Nat
      /\ Len(s) = Len(piece) + Len(current)
      /\ \A i \in 1 .. Len(Ready) : s[i] = Ready[i]
  <2>1. Len(piece \o current) = Len(piece) + Len(current)
    BY <1>1, Joined
  <2>2. /\ Ready \o Rest \in Seq(Datum) /\ Len(Ready \o Rest) \in Nat /\ Len(Rest) \in Nat
        /\ \A i \in 1 .. Len(Ready) : (Ready \o Rest)[i] = Ready[i]
    <3>1. Ready \in Seq(Datum) /\ Rest \in Seq(Datum)
      BY <1>2
    <3> QED BY ONLY <3>1, Joined
  <2> QED BY <1>0, <1>2, <2>1, <2>2
<1>7. t \in Seq(Datum) /\ Len(t) = Len(piece') + Len(current') /\ Len(t) \in Nat
  <2>1. f \o Rest \in Seq(Datum) /\ Len(f \o Rest) = Len(f) + Len(Rest) /\ Len(f \o Rest) \in Nat
    BY <1>2, <1>4, Joined
  <2> QED BY <1>0, <1>1, <2>1
<1>8. Without(t, s, Len(u))
  <2>1. Without(f, Ready, Len(u))
    BY <1>4 DEF Without
  <2>2. Without(f \o Rest, Ready \o Rest, Len(u))
    BY <1>2, <1>4, <2>1, JoinedLess
  <2> QED BY <1>0, <1>1, <1>2, <2>2
<1>9. \A i \in 1 .. Len(u) : u[i] = s[i]
  <2>1. ASSUME NEW i \in 1 .. Len(u) PROVE i \in 1 .. Len(Ready) /\ u[i] = Ready[i]
    BY <1>3, <1>4
  <2> QED BY <1>6, <2>1
<1>10. TakenFrom(s, t, u)
  BY <1>1, <1>2, <1>4, <1>5, <1>6, <1>7, <1>8, <1>9 DEF TakenFrom
<1> QED BY <1>0, <1>10

\* What read() leaves is the rest of the same datagram, and what it returns is not
\* empty and comes next in it.
LEMMA UdpReads ==
  ASSUME UdpInv, NEW length \in Lengths, UdpRead(length)
  PROVE  /\ UdpInv'
         /\ lastRead' # <<>>
         /\ \A i \in 1 .. Len(lastRead') :
              lastRead'[i] = [packet |-> announced.packet, n |-> announced.done + i]
<1>0. length \in Nat \ {0}
  BY UdpAssumption
<1>1. PICK s, t, u : s = piece \o current /\ t = piece' \o current' /\ u = Taken(length)
  OBVIOUS
<1>2. /\ s \in Seq(Datum) /\ t \in Seq(Datum) /\ Len(s) \in Nat /\ Len(t) \in Nat
      /\ piece' \in Seq(Datum) /\ current' \in Seq(Datum)
      /\ Len(u) \in Nat /\ Len(u) >= 1 /\ Len(u) <= Len(s) /\ Len(t) = Len(s) - Len(u)
      /\ Len(s) = Len(piece) + Len(current) /\ Len(t) = Len(piece') + Len(current')
      /\ \A i \in 1 .. Len(u) : u[i] = s[i]
      /\ Without(t, s, Len(u))
  <2>1. TakenFrom(piece \o current, piece' \o current', Taken(length))
    BY <1>0, TakenIs
  <2>2. TakenFrom(s, t, u)
    BY <1>1, <2>1
  <2> QED BY <2>2 DEF TakenFrom, Without
<1>3. /\ open /\ parsed' = parsed - Len(u) /\ lastRead' = u
      /\ announced' = [announced EXCEPT !.done = @ + Len(u)]
      /\ UNCHANGED <<open, waiting, out, arrived>>
  BY <1>1 DEF UdpRead
<1>4. /\ parsed = Len(piece) + Len(current) /\ announced \in [packet : Nat, done : Nat]
      /\ Follows(s, announced) /\ parsed \in Nat
  BY <1>1, <1>3 DEF UdpInv, UdpTypes
<1>5. /\ announced'.packet = announced.packet /\ announced'.done = announced.done + Len(u)
      /\ announced' \in [packet : Nat, done : Nat] /\ announced.done \in Nat
  <2>1. Len(u) \in Nat
    BY <1>2
  <2> QED BY <1>3, <1>4, <2>1
<1>6. Len(s) \in Nat /\ Len(t) \in Nat
  BY <1>2
<1>7. Follows(t, announced')
  BY <1>2, <1>4, <1>5, <1>6, FollowsRest
<1>8. parsed' \in Nat /\ parsed' = Len(piece') + Len(current')
  BY <1>2, <1>3, <1>4, <1>6
<1>9. UdpInv'
  <2>1. UdpTypes'
    BY <1>2, <1>3, <1>5, <1>8 DEF UdpInv, UdpTypes
  <2>2. Follows(piece \o current, announced)'
    BY <1>1, <1>7 DEF Follows
  <2> QED BY <1>3, <1>8, <2>1, <2>2 DEF UdpInv
<1>10. u # <<>>
  BY <1>2
<1>11. ASSUME NEW i \in 1 .. Len(u)
       PROVE  u[i] = [packet |-> announced.packet, n |-> announced.done + i]
  <2>1. i \in 1 .. Len(s) /\ u[i] = s[i]
    BY <1>2, <1>6
  <2> QED BY <1>4, <2>1 DEF Follows
<1> QED BY <1>3, <1>9, <1>10, <1>11

\* parsePacket() throws away the rest, all of it and no more, and announces the next.
LEMMA ParseKeeps ==
  ASSUME UdpInv, ParsePacket
  PROVE  UdpInv'
<1> DEFINE asked == IF waiting = <<>> THEN <<>> ELSE Head(waiting)
<1>1. open /\ Kept = <<>> /\ Behind = <<>>
  BY NothingLeft DEF ParsePacket
<1>2. /\ piece' = <<>> /\ current' = asked /\ parsed' = Len(asked)
      /\ waiting' = IF waiting = <<>> THEN waiting ELSE Tail(waiting)
      /\ announced' = IF asked = <<>> THEN NoPacket
                      ELSE [packet |-> Head(asked).packet, done |-> Head(asked).n - 1]
      /\ UNCHANGED <<open, out, arrived>>
  BY <1>1 DEF ParsePacket
<1>3. waiting \in Seq(Datagrams)
  BY DEF UdpInv, UdpTypes
<1>4. CASE waiting = <<>>
  <2>1. /\ piece' = <<>> /\ current' = <<>> /\ parsed' = 0 /\ waiting' = <<>>
        /\ announced' = NoPacket /\ open' = open /\ arrived' = arrived
    BY <1>2, <1>4
  <2>2. NoPacket \in [packet : Nat, done : Nat] /\ Len(<<>>) = 0 /\ <<>> \o <<>> = <<>>
        /\ <<>> \in Seq(Datum) /\ <<>> \in Seq(Datagrams)
    BY DEF NoPacket
  <2>3. UdpTypes'
    BY <2>1, <2>2 DEF UdpInv, UdpTypes
  <2>4. Follows(piece \o current, announced)'
    BY <2>1, <2>2 DEF Follows
  <2> QED BY <2>1, <2>2, <2>3, <2>4 DEF UdpInv
<1>5. CASE waiting # <<>>
  <2> DEFINE w == Head(waiting)
  <2>1. /\ w \in Seq(Datum) /\ w # <<>> /\ Head(w).packet \in Nat /\ Head(w).n = 1
        /\ \A a : a.packet = Head(w).packet /\ a.done = 0 => Follows(w, a)
    BY <1>5, NextDatagram
  <2>2. /\ piece' = <<>> /\ current' = w /\ parsed' = Len(w) /\ waiting' = Tail(waiting)
        /\ announced' = [packet |-> Head(w).packet, done |-> 0]
        /\ open' = open /\ arrived' = arrived
    BY <1>2, <1>5, <2>1
  <2>4. UdpTypes'
    <3>1. Tail(waiting) \in Seq(Datagrams)
      BY <1>3, <1>5
    <3>2. Len(w) \in Nat /\ <<>> \in Seq(Datum)
      BY <2>1
    <3> HIDE DEF w
    <3> QED BY <2>1, <2>2, <3>1, <3>2 DEF UdpInv, UdpTypes
  <2> HIDE DEF w
  <2>5. Follows(w, announced')
    BY <2>1, <2>2
  <2>6. piece' \o current' = w /\ Len(piece') = 0 /\ Len(w) \in Nat
    BY <2>1, <2>2
  <2>7. Follows(piece \o current, announced)'
    BY <2>5, <2>6 DEF Follows
  <2> QED BY <1>1, <2>2, <2>4, <2>6, <2>7 DEF UdpInv
<1> QED BY <1>4, <1>5

\* peek() moves bytes into the buffer and no more.
LEMMA PeekKeeps ==
  ASSUME UdpInv, Peek
  PROVE  UdpInv'
<1>1. /\ open /\ piece' = Ready /\ current' = Rest
      /\ UNCHANGED <<open, parsed, waiting, out, arrived, announced>>
  BY DEF Peek
<1>2. /\ piece \in Seq(Datum) /\ current \in Seq(Datum)
  BY DEF UdpInv, UdpTypes
<1>3. Ready \in Seq(Datum) /\ Rest \in Seq(Datum) /\ Ready \o Rest = piece \o current
  <2>1. /\ Filled(piece, current) \in Seq(Datum) /\ Left(piece, current) \in Seq(Datum)
        /\ Filled(piece, current) \o Left(piece, current) = piece \o current
    BY ONLY <1>2, Filling
  <2> QED BY <2>1 DEF Ready, Rest
<1>4. Len(Ready) + Len(Rest) = Len(piece) + Len(current)
  <2>1. /\ Len(Ready \o Rest) = Len(Ready) + Len(Rest)
        /\ Len(piece \o current) = Len(piece) + Len(current)
    BY <1>2, <1>3
  <2> QED BY <1>3, <2>1
<1>5. UdpTypes'
  BY <1>1, <1>3 DEF UdpInv, UdpTypes
<1>6. Follows(piece \o current, announced)'
  BY <1>1, <1>3 DEF UdpInv, Follows
<1> QED BY <1>1, <1>4, <1>5, <1>6 DEF UdpInv

\* A datagram that arrives waits behind the others.
LEMMA ArrivesKeeps ==
  ASSUME UdpInv, NEW length \in Lengths, Arrives(length)
  PROVE  UdpInv'
<1> DEFINE d == Packet(arrived + 1, length)
<1>1. /\ arrived' = arrived + 1 /\ waiting' = Append(waiting, d)
      /\ UNCHANGED <<open, parsed, piece, current, out, announced, lastRead>>
  BY DEF Arrives
<1>2. arrived + 1 \in Nat /\ length \in Nat \ {0} /\ waiting \in Seq(Datagrams)
  BY UdpAssumption DEF UdpInv, UdpTypes
<1>3. d \in Datagrams
  BY <1>2 DEF Datagrams
<1> HIDE DEF d
<1>4. Append(waiting, d) \in Seq(Datagrams)
  BY <1>2, <1>3
<1>5. UdpTypes'
  BY <1>1, <1>2, <1>4 DEF UdpInv, UdpTypes
<1>7. Follows(piece \o current, announced)'
  BY <1>1 DEF UdpInv, Follows
<1> QED BY <1>1, <1>5, <1>7 DEF UdpInv

\* Every step of the UDP socket keeps it.
LEMMA UdpNextKeeps ==
  ASSUME UdpInv, [UdpNext]_udpVars
  PROVE  UdpInv'
<1>1. ASSUME UNCHANGED <<piece, current, waiting, arrived, announced, parsed>>,
             open' \in BOOLEAN, ~ open => piece = <<>> /\ current = <<>>,
             open' => parsed = Len(piece) + Len(current),
             ~ open' => piece = <<>> /\ current = <<>>
      PROVE  UdpInv'
  BY <1>1 DEF UdpInv, UdpTypes, Follows
<1>2. CASE UdpBegin \/ UdpStop
  <2>1. /\ piece' = <<>> /\ current' = <<>> /\ waiting' = <<>> /\ announced' = NoPacket
        /\ \/ open' = TRUE /\ parsed' = 0
           \/ open' = FALSE /\ parsed' = parsed
        /\ arrived' = arrived
    BY <1>2 DEF UdpBegin, UdpStop
  <2>2. NoPacket \in [packet : Nat, done : Nat] /\ Len(<<>>) = 0 /\ <<>> \o <<>> = <<>>
        /\ <<>> \in Seq(Datum) /\ <<>> \in Seq(Datagrams)
    BY DEF NoPacket
  <2>3. UdpTypes'
    <3>1. parsed \in Nat /\ arrived \in Nat
      BY DEF UdpInv, UdpTypes
    <3>2. open' \in BOOLEAN
      BY <2>1
    <3>3. parsed' \in Nat
      BY <2>1, <3>1
    <3> QED BY <2>1, <2>2, <3>1, <3>2, <3>3 DEF UdpTypes
  <2>4. Follows(piece \o current, announced)'
    BY <2>1, <2>2 DEF Follows
  <2> QED BY <2>1, <2>2, <2>3, <2>4 DEF UdpInv
<1>3. CASE BeginPacket
  <2>1. /\ open' = TRUE /\ (open \/ parsed = 0)
        /\ UNCHANGED <<piece, current, waiting, arrived, announced, parsed>>
    BY <1>3 DEF BeginPacket
  <2>2. parsed = Len(piece) + Len(current)
    <3>1. CASE open
      BY <3>1 DEF UdpInv
    <3>2. CASE ~ open
      <4>1. parsed = 0 /\ Len(piece) = 0 /\ Len(current) = 0
        BY <2>1, <3>2 DEF UdpInv
      <4> QED BY <4>1
    <3> QED BY <3>1, <3>2
  <2>3. open' \in BOOLEAN /\ open'
    BY <2>1
  <2>4. ~ open => piece = <<>> /\ current = <<>>
    BY DEF UdpInv
  <2> QED BY <1>1, <2>1, <2>2, <2>3, <2>4
<1>4. CASE UNCHANGED <<open, piece, current, waiting, arrived, announced, parsed>>
  BY <1>1, <1>4 DEF UdpInv, UdpTypes
<1>5. CASE UNCHANGED udpVars
  BY <1>4, <1>5 DEF udpVars
<1>6. CASE EndPacket \/ \E length \in Lengths : Write(length)
  BY <1>4, <1>6 DEF EndPacket, Write
<1> QED BY <1>2, <1>3, <1>5, <1>6, ParseKeeps, PeekKeeps, UdpReads, ArrivesKeeps DEF UdpNext

\* No read mixes datagrams, for every size of buffer and of datagram: what is read
\* comes next in the datagram announced last, and what _parsed still counts is its rest.
THEOREM UdpHolds == UdpSpec => ReadsOnePacket
<1>1. UdpInit => UdpInv
  <2> SUFFICES ASSUME UdpInit PROVE UdpInv
    OBVIOUS
  <2>1. /\ open = FALSE /\ parsed = 0 /\ piece = <<>> /\ current = <<>> /\ waiting = <<>>
        /\ arrived = 0 /\ announced = NoPacket
    BY DEF UdpInit
  <2>2. NoPacket \in [packet : Nat, done : Nat] /\ Len(<<>>) = 0 /\ <<>> \o <<>> = <<>>
        /\ <<>> \in Seq(Datum) /\ <<>> \in Seq(Datagrams)
    BY DEF NoPacket
  <2>3. UdpTypes
    BY <2>1, <2>2 DEF UdpTypes
  <2>4. Follows(piece \o current, announced)
    BY <2>1, <2>2 DEF Follows
  <2> QED BY <2>1, <2>3, <2>4 DEF UdpInv
<1>2. UdpInv /\ [UdpNext]_udpVars => UdpInv'
  BY UdpNextKeeps
<1>3. UdpInv => ParsedIsRest
  <2> SUFFICES ASSUME UdpInv PROVE ParsedIsRest
    OBVIOUS
  <2>1. /\ piece \in Seq(Datum) /\ current \in Seq(Datum) /\ announced.done \in Nat
        /\ Len(piece) \in Nat /\ Len(current) \in Nat
        /\ Len(piece \o current) = Len(piece) + Len(current)
        /\ Follows(piece \o current, announced)
    BY DEF UdpInv, UdpTypes
  <2>2. ASSUME NEW i \in 1 .. Len(piece)
        PROVE  piece[i] = [packet |-> announced.packet, n |-> announced.done + i]
    <3>1. i \in 1 .. Len(piece \o current) /\ (piece \o current)[i] = piece[i]
      BY <2>1
    <3> QED BY <2>1, <3>1 DEF Follows
  <2>3. ASSUME NEW i \in 1 .. Len(current)
        PROVE  current[i] = [packet |-> announced.packet, n |-> announced.done + Len(piece) + i]
    <3>1. /\ Len(piece) + i \in 1 .. Len(piece \o current)
          /\ (piece \o current)[Len(piece) + i] = current[i]
      BY <2>1
    <3>2. current[i] = [packet |-> announced.packet, n |-> announced.done + (Len(piece) + i)]
      BY <2>1, <3>1 DEF Follows
    <3>3. announced.done + (Len(piece) + i) = announced.done + Len(piece) + i
      BY <2>1
    <3> QED BY <3>2, <3>3
  <2> QED BY <2>2, <2>3 DEF ParsedIsRest, UdpInv
<1>4. UdpInv /\ [UdpNext]_udpVars =>
        [\A length \in Lengths : UdpRead(length) =>
            /\ lastRead' # <<>>
            /\ \A i \in 1 .. Len(lastRead') :
                 lastRead'[i] = [packet |-> announced.packet, n |-> announced.done + i]]_udpVars
  BY UdpReads
<1> QED BY <1>1, <1>2, <1>3, <1>4, PTL DEF UdpSpec, ReadsOnePacket
=============================================================================

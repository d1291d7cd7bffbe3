---------------------------- MODULE PubSubClient ----------------------------
(***************************************************************************)
(* The PubSubClient library (PubSubClient.cpp) over a WiFiClient socket    *)
(* (WiFiClient.cpp) with the MQTT broker at the other end.                 *)
(*                                                                         *)
(* The library runs in the caller's only thread and blocks in two places:  *)
(* connect() waits for the answer to CONNECT, readByte() waits for the     *)
(* next byte.  The environment (broker, network, clock) moves meanwhile,   *)
(* so a call is split exactly there and "call" says where it stands.       *)
(*                                                                         *)
(* A packet crosses the network as two units, its first bytes and the      *)
(* rest, because readPacket gives up between two bytes and leaves the      *)
(* stream where it is.  millis() differences are kept as ages: inAge is    *)
(* millis() - lastInActivity, and so on; an age stops at its bound.        *)
(***************************************************************************)
EXTENDS Integers, Sequences

CONSTANTS
  Topics, Values, Sizes, QosLevels,   \* what other clients publish and we ask for
  KeepAlive,       \* MQTT_KEEPALIVE in time units
  SocketTimeout,   \* MQTT_SOCKET_TIMEOUT in time units
  Latency,         \* what is sent on an intact link arrives within this time
  MaxUnits,        \* bound of the units under way and of those unread
  MaxUp,           \* with so many packets under way to the broker nobody publishes
  MaxFailures      \* bound of the faults of broker and network

ASSUME PubSubAssumption ==
  /\ KeepAlive \in Nat /\ SocketTimeout \in Nat \ {0} /\ Latency \in Nat
  /\ MaxUnits \in Nat /\ MaxUnits > 1 /\ MaxUp \in Nat /\ MaxFailures \in Nat
  /\ Sizes \subseteq {"fits", "over"}   \* against MQTT_MAX_PACKET_SIZE
  /\ QosLevels \subseteq {0, 1}

VARIABLES
  \* WiFiClient and the TCP connection under it
  sock,     \* _sock is not 255
  open,     \* the peer has not closed: status() is ESTABLISHED
  cut,      \* packets are lost in both directions and nobody has noticed
  inbox,    \* units received and not read (WiFiSocketBuffer)
  down,     \* units on their way to the client
  up,       \* packets on their way to the broker
  downAge, upAge,   \* how long the oldest of them has been under way
  \* PubSubClient
  state,            \* _state
  pingOutstanding,
  inAge, outAge,    \* time since lastInActivity, lastOutActivity
  call,             \* where the running call of the library stands
  partial,          \* the unit readPacket has taken, its packet unfinished
  waitAge,          \* how long the running readByte has waited
  ret,              \* what the last finished call returned
  ran,              \* loop() was called in this time unit
  \* the broker
  brokerUp,         \* it can be reached
  session,          \* it has accepted CONNECT on this connection
  subs,             \* <<topic, qos>> it has granted on this session
  silence,          \* time since it last heard of the client
  failures          \* faults so far

link   == <<sock, open, cut, inbox, down, up, downAge, upAge>>
peer   == <<session, subs, silence>>
timers == <<inAge, outAge, waitAge>>
lib    == <<state, pingOutstanding, call, partial, ret, ran>>
env    == <<brokerUp, failures>>
vars   == <<link, peer, timers, lib, env>>

States == {"CONNECTED", "DISCONNECTED", "CONNECT_FAILED", "CONNECTION_LOST",
           "CONNECTION_TIMEOUT", "REFUSED"}
Calls  == {"idle", "tcp", "connack", "connackBody", "loopBody"}

Publication == [type : {"PUBLISH"}, topic : Topics, value : Values, size : Sizes, qos : QosLevels]
Connack     == [type : {"CONNACK"}, code : {0, 5}]
ToClient    == Publication \cup Connack \cup [type : {"SUBACK", "PINGRESP"}]
Unit        == [pkt : ToClient, part : {1, 2}]
ToBroker    == [type : {"SUBSCRIBE"}, topic : Topics, qos : QosLevels]
                 \cup [type : {"CONNECT", "PINGREQ", "PUBACK", "PUBLISH", "DISCONNECT"}]

Idle     == [type |-> "PINGRESP"]
NoUnit   == [pkt |-> Idle, part |-> 1]
Units(p) == <<[pkt |-> p, part |-> 1], [pkt |-> p, part |-> 2]>>

UpTo(bound, n) == IF n < bound THEN n ELSE bound

\* Ages beyond these make no difference to the code or to the broker.
AgeBound   == IF KeepAlive + 1 > SocketTimeout THEN KeepAlive + 1 ELSE SocketTimeout
ExpireTime == KeepAlive + (KeepAlive \div 2)     \* the broker waits 1.5 intervals

-----------------------------------------------------------------------------
(* WiFiClient                                                              *)
-----------------------------------------------------------------------------
\* connected(): data left to read counts as connected, the status only then.
TcpConnected(unread) == sock /\ (unread # <<>> \/ open)

\* write(): what is written to a dead connection goes nowhere.
Sent(p) == IF sock /\ open /\ ~cut THEN Append(up, p) ELSE up

\* The socket is closed from this side, or found closed: nothing of the
\* connection survives, and neither does its clean session at the broker.
CloseLink ==
  /\ sock' = FALSE /\ open' = FALSE /\ cut' = FALSE
  /\ inbox' = <<>> /\ down' = <<>> /\ up' = <<>> /\ downAge' = 0 /\ upAge' = 0
  /\ session' = FALSE /\ subs' = {} /\ silence' = 0

-----------------------------------------------------------------------------
(* readByte()                                                              *)
-----------------------------------------------------------------------------
\* (two bugs to be caught: readByte does not wait, readByte waits for ever)
GivesUpAtOnce == inbox = <<>>
GivesUpNever  == FALSE

\* The socket timeout has passed and the byte is not there.
GivesUp == inbox = <<>> /\ waitAge >= SocketTimeout

-----------------------------------------------------------------------------
(* connect()                                                               *)
-----------------------------------------------------------------------------
Connected == TcpConnected(inbox) /\ state = "CONNECTED"

\* connected() notes a lost connection in _state and stops the socket.
NoteLoss ==
  /\ state' = IF state = "CONNECTED" THEN "CONNECTION_LOST" ELSE state
  /\ CloseLink

Return(value) == call' = "idle" /\ ret' = value /\ partial' = NoUnit /\ waitAge' = 0

\* CONNECT goes out and both activity times restart.
SendConnect(queue) ==
  /\ up' = Append(queue, [type |-> "CONNECT"]) /\ upAge' = 0
  /\ inAge' = 0 /\ outAge' = 0
  /\ call' = "connack"

\* The entry of connect(): nothing to do when connected; a TCP connection
\* that is up already is used again, else one is opened.
CallConnect ==
  /\ call = "idle"
  /\ UNCHANGED <<pingOutstanding, ran, waitAge, partial, env>>
  /\ IF Connected
     THEN ret' = TRUE /\ UNCHANGED <<link, peer, inAge, outAge, state, call>>
     ELSE IF TcpConnected(inbox)
     THEN /\ SendConnect(up)
          /\ UNCHANGED <<sock, open, cut, inbox, down, downAge, peer, state, ret>>
     ELSE /\ NoteLoss
          /\ call' = "tcp"
          /\ UNCHANGED <<inAge, outAge, ret>>

\* WiFiClient::connect succeeds and CONNECT is written.
TcpUp ==
  /\ call = "tcp" /\ brokerUp
  /\ sock' = TRUE /\ open' = TRUE
  /\ SendConnect(<<>>)
  /\ UNCHANGED <<cut, inbox, down, downAge, peer, state, pingOutstanding, partial, waitAge,
                 ret, ran, env>>

\* No address, no socket or no answer within WiFiClient's ten seconds.
TcpFail ==
  /\ call = "tcp" /\ ~brokerUp
  /\ state' = "CONNECT_FAILED"
  /\ Return(FALSE)
  /\ UNCHANGED <<link, peer, inAge, outAge, pingOutstanding, ran, env>>

\* The first bytes of the answer are there: readPacket starts on them.
ConnackHead ==
  /\ call = "connack" /\ inbox # <<>>
  /\ partial' = Head(inbox) /\ inbox' = Tail(inbox)
  /\ call' = "connackBody" /\ waitAge' = 0
  /\ UNCHANGED <<sock, open, cut, down, up, downAge, upAge, peer, inAge, outAge, state,
                 pingOutstanding, ret, ran, env>>

ConnackTimeout ==
  /\ call = "connack" /\ inbox = <<>> /\ inAge >= SocketTimeout
  /\ state' = "CONNECTION_TIMEOUT"
  /\ CloseLink
  /\ Return(FALSE)
  /\ UNCHANGED <<inAge, outAge, pingOutstanding, ran, env>>

\* The answer is complete: four bytes with return code 0 mean connected, any
\* other return code becomes the state, and whatever is not connected stops.
ConnackBody ==
  /\ call = "connackBody" /\ inbox # <<>>
  /\ LET p == partial.pkt
     IN  IF p.type = "CONNACK" /\ p.code = 0
         THEN /\ state' = "CONNECTED" /\ pingOutstanding' = FALSE /\ inAge' = 0
              /\ inbox' = Tail(inbox)
              /\ Return(TRUE)
              /\ UNCHANGED <<sock, open, cut, down, up, downAge, upAge, peer>>
         ELSE /\ state' = IF p.type = "CONNACK" THEN "REFUSED" ELSE state
              /\ CloseLink
              /\ Return(FALSE)
              /\ UNCHANGED <<pingOutstanding, inAge>>
  /\ UNCHANGED <<outAge, ran, env>>

\* (a bug to be caught: the socket is not stopped on this way out)
ConnackBodyTimeoutKeeps ==
  /\ call = "connackBody" /\ GivesUp
  /\ Return(FALSE)
  /\ UNCHANGED <<link, peer, state, inAge, outAge, pingOutstanding, ran, env>>

\* readByte gives up in the middle of the answer: _state keeps its old value.
ConnackBodyTimeout ==
  /\ call = "connackBody" /\ GivesUp
  /\ CloseLink
  /\ Return(FALSE)
  /\ UNCHANGED <<state, inAge, outAge, pingOutstanding, ran, env>>

-----------------------------------------------------------------------------
(* loop()                                                                  *)
-----------------------------------------------------------------------------
\* (two bugs to be caught: only one of the two activity times is looked at)
PingDueIn  == inAge > KeepAlive
PingDueOut == outAge > KeepAlive

PingDue == inAge > KeepAlive \/ outAge > KeepAlive

LoopNotConnected ==
  /\ call = "idle" /\ ~Connected
  /\ IF TcpConnected(inbox) THEN UNCHANGED <<state, link, peer>> ELSE NoteLoss
  /\ ret' = FALSE /\ ran' = TRUE
  /\ UNCHANGED <<timers, pingOutstanding, call, partial, env>>

\* The last ping was never answered: the connection is given up.
LoopPingTimeout ==
  /\ call = "idle" /\ Connected /\ PingDue /\ pingOutstanding
  /\ state' = "CONNECTION_TIMEOUT"
  /\ CloseLink
  /\ ret' = FALSE /\ ran' = TRUE
  /\ UNCHANGED <<timers, pingOutstanding, call, partial, env>>

\* A ping if one is due, then the first bytes of a packet if there are any.
LoopRun ==
  /\ call = "idle" /\ Connected /\ ~(PingDue /\ pingOutstanding)
  /\ IF PingDue
     THEN /\ up' = Sent([type |-> "PINGREQ"])
          /\ inAge' = 0 /\ outAge' = 0 /\ pingOutstanding' = TRUE
     ELSE UNCHANGED <<up, inAge, outAge, pingOutstanding>>
  /\ IF inbox # <<>>
     THEN partial' = Head(inbox) /\ inbox' = Tail(inbox) /\ call' = "loopBody" /\ UNCHANGED ret
     ELSE ret' = TRUE /\ UNCHANGED <<partial, inbox, call>>
  /\ waitAge' = 0 /\ ran' = TRUE
  /\ UNCHANGED <<sock, open, cut, down, downAge, upAge, peer, state, env>>

CallLoop == LoopNotConnected \/ LoopPingTimeout \/ LoopRun

\* The packet loop() is about to finish reading, and whether it is a message
\* that will be handed to the callback.
InFrame  == partial.part = 1
Finishes == call = "loopBody" /\ InFrame /\ inbox # <<>>
Handed   == Finishes /\ partial.pkt.type = "PUBLISH" /\ partial.pkt.size # "over"

\* (two bugs to be caught: the answer is not recognised, anything is an answer)
PingNeverAnswered(p)  == pingOutstanding
PingAlwaysAnswered(p) == FALSE

PingStillOut(p) == pingOutstanding /\ p.type # "PINGRESP"

\* (a bug to be caught: the buffer goes back with the header it came with)
AnswerEchoes(p) == IF p.type = "PUBLISH" /\ p.qos = 1 THEN Sent(p) ELSE up

\* What loop() answers: a QoS 1 message is acknowledged after the callback.
Answer(p) == IF p.type = "PUBLISH" /\ p.qos = 1 THEN Sent([type |-> "PUBACK"]) ELSE up

\* loop() returns after a packet that was dropped: connected() decides.
ReturnConnected(unread) ==
  /\ Return(TcpConnected(unread))
  /\ IF TcpConnected(unread)
     THEN inbox' = unread /\ UNCHANGED <<state, sock, open, cut, down, up, downAge, upAge, peer>>
     ELSE NoteLoss

\* The rest of a packet arrives.  One that exceeds the buffer is dropped
\* without counting as activity; lastInActivity is the time loop() began.
LoopBody ==
  /\ Finishes
  /\ LET p == partial.pkt
     IN  IF p.type = "PUBLISH" /\ p.size = "over"
         THEN ReturnConnected(Tail(inbox)) /\ UNCHANGED <<inAge, outAge, pingOutstanding>>
         ELSE /\ inbox' = Tail(inbox)
              /\ inAge' = waitAge
              /\ up' = Answer(p)
              /\ outAge' = IF p.type = "PUBLISH" /\ p.qos = 1 THEN waitAge ELSE outAge
              /\ pingOutstanding' = PingStillOut(p)
              /\ Return(TRUE)
              /\ UNCHANGED <<sock, open, cut, down, downAge, upAge, peer, state>>
  /\ UNCHANGED <<ran, env>>

\* readByte gives up in the middle of a packet.  The connection stays, and so
\* does the rest of the packet: the next loop() takes it for a new one.
LoopBodyTimeout ==
  /\ call = "loopBody" /\ GivesUp
  /\ ReturnConnected(inbox)
  /\ UNCHANGED <<inAge, outAge, pingOutstanding, ran, env>>

\* readPacket out of step with the packets: data are read as a header.  The
\* outcome depends on the bytes: a packet of some ignored or unknown kind, one
\* taken for PINGRESP or for a message to acknowledge, one that swallows more
\* of the stream, or a length that makes readPacket close the connection.
GarbageRead ==
  /\ call = "loopBody" /\ ~InFrame
  /\ \/ /\ inAge' \in 0..inAge /\ pingOutstanding' \in {pingOutstanding, FALSE}
        /\ \/ UNCHANGED <<up, outAge>>
           \/ up' = Sent([type |-> "PUBACK"]) /\ outAge' \in 0..outAge
        /\ Return(TRUE)
        /\ UNCHANGED <<sock, open, cut, inbox, down, downAge, upAge, peer, state>>
     \/ /\ inbox # <<>> /\ inbox' = Tail(inbox) /\ waitAge' = 0
        /\ UNCHANGED <<sock, open, cut, down, up, downAge, upAge, peer, inAge, outAge,
                       pingOutstanding, state, call, partial, ret>>
     \/ /\ state' = "DISCONNECTED"
        /\ CloseLink
        /\ Return(FALSE)
        /\ UNCHANGED <<inAge, outAge, pingOutstanding>>
  /\ UNCHANGED <<ran, env>>

-----------------------------------------------------------------------------
(* subscribe(), publish(), disconnect()                                    *)
-----------------------------------------------------------------------------
\* A packet is written if connected() says so; nothing waits for an answer.
Write(p) ==
  /\ call = "idle" /\ Len(up) < MaxUp
  /\ IF Connected
     THEN /\ up' = Sent(p)
          /\ ret' = open              \* rc counts the bytes the socket takes
          /\ outAge' = 0
          /\ UNCHANGED <<sock, open, cut, inbox, down, downAge, upAge, peer, state>>
     ELSE /\ IF TcpConnected(inbox) THEN UNCHANGED <<state, link, peer>> ELSE NoteLoss
          /\ ret' = FALSE /\ UNCHANGED outAge
  /\ UNCHANGED <<inAge, waitAge, pingOutstanding, call, partial, ran, env>>

CallSubscribe(t, q) == Write([type |-> "SUBSCRIBE", topic |-> t, qos |-> q])

CallPublish == Write([type |-> "PUBLISH"])

\* DISCONNECT may or may not reach the broker before the socket closes.
CallDisconnect ==
  /\ call = "idle"
  /\ state' = "DISCONNECTED"
  /\ CloseLink
  /\ inAge' = 0 /\ outAge' = 0
  /\ UNCHANGED <<waitAge, pingOutstanding, call, partial, ret, ran, env>>

\* The steps a call takes by itself once it has been made.
LibraryStep ==
  \/ TcpUp \/ TcpFail
  \/ ConnackHead \/ ConnackTimeout \/ ConnackBody \/ ConnackBodyTimeout
  \/ LoopBody \/ LoopBodyTimeout \/ GarbageRead

\* What any sketch may ask of the library.
CallerStep ==
  \/ CallConnect \/ CallLoop \/ CallPublish \/ CallDisconnect
  \/ \E t \in Topics, q \in QosLevels : CallSubscribe(t, q)

-----------------------------------------------------------------------------
(* The network and the broker: not in the repository.  The broker is what  *)
(* the library's tests and the MQTT packets of the code take it to be.     *)
-----------------------------------------------------------------------------
Deliver ==
  /\ down # <<>> /\ Len(inbox) < MaxUnits
  /\ inbox' = Append(inbox, Head(down)) /\ down' = Tail(down)
  /\ downAge' = IF Len(down) = 1 THEN 0 ELSE downAge
  /\ UNCHANGED <<sock, open, cut, up, upAge, peer, timers, lib, env>>

\* The broker's answer to a packet of the client.
Reply(p) ==
  CASE p.type = "CONNECT"   -> Units([type |-> "CONNACK", code |-> 0])
    [] p.type = "SUBSCRIBE" -> Units([type |-> "SUBACK"])
    [] p.type = "PINGREQ"   -> Units([type |-> "PINGRESP"])
    [] OTHER                -> <<>>

BrokerHandle ==
  /\ up # <<>> /\ Len(down) + 2 <= MaxUnits
  /\ LET p == Head(up)
     IN  /\ session \/ p.type = "CONNECT"
         /\ down' = down \o Reply(p)
         /\ subs' = IF p.type = "SUBSCRIBE"
                    THEN {s \in subs : s[1] # p.topic} \cup {<<p.topic, p.qos>>} ELSE subs
  /\ up' = Tail(up) /\ upAge' = IF Len(up) = 1 THEN 0 ELSE upAge
  /\ session' = TRUE /\ silence' = 0
  /\ UNCHANGED <<sock, open, cut, inbox, downAge, timers, lib, env>>

\* A message of another client on a topic the session is subscribed to.
BrokerPublish(t, q, v, s) ==
  /\ session /\ <<t, q>> \in subs /\ Len(down) + 2 <= MaxUnits /\ Len(up) < MaxUp
  /\ down' = down \o Units([type |-> "PUBLISH", topic |-> t, value |-> v, size |-> s, qos |-> q])
  /\ UNCHANGED <<sock, open, cut, inbox, up, downAge, upAge, peer, timers, lib, env>>

\* The peer's end of the connection is gone; what was received stays readable.
PeerGone ==
  /\ open' = FALSE /\ cut' = FALSE /\ down' = <<>> /\ up' = <<>> /\ downAge' = 0 /\ upAge' = 0
  /\ session' = FALSE /\ subs' = {} /\ silence' = 0
  /\ UNCHANGED <<sock, inbox>>

Fault == failures < MaxFailures /\ failures' = failures + 1

\* The broker refuses the credentials: CONNACK with a return code, and silence.
BrokerRefuse ==
  /\ Fault /\ up # <<>> /\ ~session /\ down = <<>>
  /\ down' = Units([type |-> "CONNACK", code |-> 5]) /\ up' = <<>> /\ upAge' = 0
  /\ UNCHANGED <<sock, open, cut, inbox, downAge, peer, timers, lib, brokerUp>>

BrokerCrash ==
  /\ Fault /\ brokerUp /\ brokerUp' = FALSE
  /\ PeerGone
  /\ UNCHANGED <<timers, lib>>

BrokerRestart ==
  /\ ~brokerUp /\ brokerUp' = TRUE
  /\ UNCHANGED <<link, peer, timers, lib, failures>>

\* The broker closes the connection of a client it has not heard of for one
\* and a half keepalive intervals.
BrokerExpire ==
  /\ session /\ silence > ExpireTime
  /\ PeerGone
  /\ UNCHANGED <<timers, lib, env>>

\* The path dies without either end noticing.
LinkCut ==
  /\ Fault /\ sock /\ open /\ ~cut
  /\ cut' = TRUE /\ down' = <<>> /\ up' = <<>> /\ downAge' = 0 /\ upAge' = 0
  /\ session' = FALSE /\ subs' = {} /\ silence' = 0
  /\ UNCHANGED <<sock, open, inbox, timers, lib, brokerUp>>

\* Time may pass while the library waits for something that is not there ...
Blocked ==
  \/ call = "tcp"
  \/ call = "connack" /\ inbox = <<>> /\ inAge < SocketTimeout
  \/ call \in {"connackBody", "loopBody"} /\ inbox = <<>> /\ waitAge < SocketTimeout

\* ... or while the caller, having called loop() in this time unit, does
\* something else; and never past the latency of what is under way.
Elapse(callerWaits) ==
  /\ Blocked \/ callerWaits
  /\ down # <<>> => downAge < Latency
  /\ up # <<>> => upAge < Latency
  /\ inAge' = UpTo(AgeBound, inAge + 1) /\ outAge' = UpTo(AgeBound, outAge + 1)
  /\ waitAge' = IF Blocked THEN UpTo(SocketTimeout, waitAge + 1) ELSE waitAge
  /\ downAge' = IF down = <<>> THEN 0 ELSE downAge + 1
  /\ upAge' = IF up = <<>> THEN 0 ELSE upAge + 1
  /\ silence' = IF session THEN UpTo(ExpireTime + 1, silence + 1) ELSE 0
  /\ ran' = FALSE
  /\ UNCHANGED <<sock, open, cut, inbox, down, up, session, subs, state, pingOutstanding, call,
                 partial, ret, env>>

Environment ==
  \/ Deliver \/ BrokerHandle
  \/ \E t \in Topics, q \in QosLevels, v \in Values, s \in Sizes : BrokerPublish(t, q, v, s)
  \/ BrokerRefuse \/ BrokerCrash \/ BrokerRestart \/ BrokerExpire \/ LinkCut

\* Power-on: no socket, _state as the constructor leaves it.
Init ==
  /\ sock = FALSE /\ open = FALSE /\ cut = FALSE
  /\ inbox = <<>> /\ down = <<>> /\ up = <<>> /\ downAge = 0 /\ upAge = 0
  /\ state = "DISCONNECTED" /\ pingOutstanding = FALSE
  /\ inAge = 0 /\ outAge = 0 /\ waitAge = 0
  /\ call = "idle" /\ partial = NoUnit /\ ret = FALSE /\ ran = FALSE
  /\ brokerUp = TRUE /\ session = FALSE /\ subs = {} /\ silence = 0 /\ failures = 0

-----------------------------------------------------------------------------
(* What holds under every sketch                                           *)
-----------------------------------------------------------------------------
\* Every variable keeps to its set: the types of the model.
Flags   == /\ sock \in BOOLEAN /\ open \in BOOLEAN /\ cut \in BOOLEAN
           /\ pingOutstanding \in BOOLEAN /\ ret \in BOOLEAN /\ ran \in BOOLEAN
           /\ brokerUp \in BOOLEAN /\ session \in BOOLEAN
Streams == /\ inbox \in Seq(Unit) /\ down \in Seq(Unit) /\ partial \in Unit
           /\ Len(inbox) <= MaxUnits /\ Len(down) <= MaxUnits
           /\ up \in Seq(ToBroker) /\ subs \subseteq Topics \X QosLevels
Modes   == state \in States /\ call \in Calls
Times   == /\ inAge \in 0..AgeBound /\ outAge \in 0..AgeBound /\ waitAge \in 0..SocketTimeout
           /\ downAge \in 0..Latency /\ upAge \in 0..Latency
           /\ silence \in 0..(ExpireTime + 1) /\ failures \in 0..MaxFailures
TypeOK  == Flags /\ Streams /\ Modes /\ Times

\* Packets travel only on a connection that neither end has lost.
Intact == sock /\ open /\ ~cut
LinkKept ==
  /\ up # <<>> \/ down # <<>> \/ session => Intact
  /\ ~sock => ~open /\ ~cut /\ inbox = <<>>

\* The state of the client and its socket go together: a socket held between
\* the calls is connected, connect() starts from no socket, and CONNECT is the
\* first thing the broker gets.
InConnect == call \in {"tcp", "connack", "connackBody"}
SocketKept ==
  /\ sock /\ ~InConnect => state = "CONNECTED"
  /\ InConnect => state # "CONNECTED"
  /\ call = "tcp" => ~sock
  /\ \A i \in 1..Len(up) : up[i].type = "CONNECT" => i = 1 /\ ~session

\* What the model rests on: its types, the link and the socket.
Sound == TypeOK /\ LinkKept /\ SocketKept

\* The stream to the client: what readPacket holds, what is unread and what is
\* under way.
Mid       == call \in {"connackBody", "loopBody"}
Offset    == IF Mid THEN 1 ELSE 0
StreamLen == Offset + Len(inbox) + Len(down)
At(k)     == IF k <= Offset THEN partial
             ELSE IF k <= Offset + Len(inbox) THEN inbox[k - Offset]
             ELSE down[k - Offset - Len(inbox)]

\* It is cut into packets of two units; the last unit may be missing only where
\* the connection is lost.
InPairs ==
  /\ \A k \in 1..StreamLen : At(k).part = IF k % 2 = 1 THEN 1 ELSE 2
  /\ \A k \in 1..StreamLen : k % 2 = 1 /\ k < StreamLen => At(k + 1).pkt = At(k).pkt
  /\ Intact => StreamLen % 2 = 0

\* What readByte waits for has been under way at least as long.
WaitedFor == Mid /\ inbox = <<>> /\ down # <<>> => waitAge <= downAge

\* Without a session the broker has sent nothing but a refusal, and only a
\* session makes a client CONNECTED.
Refusal(p) == p.type = "CONNACK" /\ p.code # 0
Accepted ==
  Intact /\ ~session => /\ state # "CONNECTED"
                        /\ \A k \in 1..StreamLen : Refusal(At(k).pkt)

\* The pings under way: a request on its way up, an answer in the stream.
Asked(i)    == up[i].type = "PINGREQ"
Answered(k) == k % 2 = 0 /\ At(k).pkt.type = "PINGRESP"
NoneAsked    == \A i \in 1..Len(up) : ~Asked(i)
NoneAnswered == \A k \in 1..StreamLen : ~Answered(k)
OnlyAsked(i)    == i \in 1..Len(up) /\ Asked(i) /\ \A j \in 1..Len(up) : Asked(j) => j = i
OnlyAnswered(k) == k \in 1..StreamLen /\ Answered(k) /\ \A l \in 1..StreamLen : Answered(l) => l = k

NoPing  == NoneAsked /\ NoneAnswered
OnePing == \/ NoneAnswered /\ \E i \in 1..Len(up) : OnlyAsked(i)
           \/ NoneAsked /\ \E k \in 1..StreamLen : OnlyAnswered(k)

\* connect() starts without one, and an intact connection has one exactly while
\* pingOutstanding says so.
PingTruth ==
  /\ InConnect => NoPing
  /\ Intact /\ state = "CONNECTED" => IF pingOutstanding THEN OnePing ELSE NoPing

\* The client and the broker are in step.
InStep == InPairs /\ WaitedFor /\ Accepted /\ PingTruth

=============================================================================

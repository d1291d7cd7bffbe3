----------------------------- MODULE AnySketch ------------------------------
(***************************************************************************)
(* The library under a sketch that may ask anything of it, in any order,   *)
(* and calls loop() at least once in every time unit.  deadAge remembers   *)
(* how long the connection has been dead without the library knowing.      *)
(***************************************************************************)
EXTENDS PubSubClient, FiniteSets

VARIABLE deadAge

varsD == <<vars, deadAge>>

\* A dead connection is found out in two keepalive intervals, the second one
\* waiting for PINGRESP, and at most one more wait for the rest of a packet.
DetectTime == 2 * KeepAlive + 1 + SocketTimeout

InitD == Init /\ deadAge = 0

Passes == Elapse(call = "idle" /\ ran)

NextD ==
  \/ LibraryStep /\ deadAge' = IF cut' THEN deadAge ELSE 0
  \/ CallerStep /\ deadAge' = IF cut' THEN deadAge ELSE 0
  \/ Environment /\ deadAge' = IF cut' THEN deadAge ELSE 0
  \/ Passes /\ deadAge' = IF cut' THEN UpTo(DetectTime + 1, deadAge + 1) ELSE 0

SpecD == InitD /\ [][NextD]_varsD

\* A call that can go on does, what is sent is carried, and time passes.
FairSpecD ==
  SpecD /\ WF_vars(LibraryStep) /\ WF_vars(Deliver) /\ WF_vars(BrokerHandle) /\ WF_vars(Passes)

-----------------------------------------------------------------------------
\* Every way out of connect(), loop() and readPacket() that is not a success
\* gives the socket back: a socket held between two calls belongs to a client
\* in MQTT_CONNECTED, so no TCP connection carries a second CONNECT.
OneConnectPerSocket ==
  /\ call = "idle" /\ sock => state = "CONNECTED"
  /\ \A i \in 1..Len(up) : up[i].type = "CONNECT" => i = 1 /\ ~session

PingsUnderWay ==
  Cardinality({i \in 1..Len(up) : up[i].type = "PINGREQ"})
    + Cardinality({i \in 1..Len(down)  : down[i].part = 2  /\ down[i].pkt.type = "PINGRESP"})
    + Cardinality({i \in 1..Len(inbox) : inbox[i].part = 2 /\ inbox[i].pkt.type = "PINGRESP"})

\* pingOutstanding is the truth about an intact connection: set exactly while
\* one ping or its answer is under way, also after a reconnect.
PingIsTracked ==
  sock /\ open /\ ~cut /\ state = "CONNECTED"
    => PingsUnderWay = IF pingOutstanding THEN 1 ELSE 0

\* Called once per time unit, loop() writes often enough for the broker: the
\* session of an intact connection never expires.
BrokerHearsInTime == silence <= ExpireTime

\* loop() gives up a connection for a missing PINGRESP only when it is dead.
NoFalseTimeout ==
  [][state = "CONNECTED" /\ state' = "CONNECTION_TIMEOUT" => cut \/ ~open]_varsD

\* A connection that died without a word is given up within DetectTime.
DeadPeerFound == deadAge <= DetectTime

\* readPacket starts each packet at its first byte.
FramesStayWhole == call \in {"connackBody", "loopBody"} => InFrame

\* What holds between the calls and inside them: types, the link, the socket,
\* the two ends in step, framing and pings.
SessionInv == Sound /\ InStep /\ PingIsTracked /\ FramesStayWhole

-----------------------------------------------------------------------------
(* How keepalive comes about                                               *)
-----------------------------------------------------------------------------
\* After loop() the activity times are recent; readByte has not waited longer
\* than they have run, and on an intact connection for the latency at most.
RanLately ==
  /\ ran /\ sock => inAge <= KeepAlive /\ outAge <= KeepAlive
  /\ ran /\ Mid => waitAge = 0
  /\ Mid => waitAge <= inAge /\ waitAge <= outAge
  /\ Mid /\ Intact => waitAge <= Latency

\* A ping that was due goes out one time unit late, or one wait of readByte.
Carry == IF Latency = 0 THEN 1 ELSE Latency

\* What the broker has last heard: with nothing on its way up it is as old as
\* lastOutActivity, and loop() lets that be KeepAlive at most.
Heard ==
  /\ ~session => silence = 0
  /\ session =>
       /\ up # <<>> => silence <= KeepAlive + Carry + upAge
       /\ up = <<>> =>
            /\ outAge < AgeBound => silence <= outAge
            /\ call = "idle" => silence <= KeepAlive + IF ran THEN 0 ELSE Carry
            /\ call = "loopBody" => silence <= KeepAlive + waitAge
       /\ call = "connack" =>
            silence <= Latency /\ (inbox = <<>> => down # <<>> /\ silence <= downAge)
       /\ call = "connackBody" => silence <= Latency + waitAge

\* A time unit with something unread reads one packet, or what there is of it.
Readings(n) == (n + 1) \div 2
Backlog     == Readings(MaxUnits)

\* A dead connection first runs out of what was received, then of time: until
\* a ping is due, and again until its answer is.
Dying ==
  /\ deadAge \in Nat
  /\ ~cut => deadAge = 0
  /\ cut =>
       /\ call = "connack" => deadAge <= inAge /\ (inbox # <<>> => deadAge = 0)
       /\ call = "connackBody" => deadAge <= waitAge /\ (inbox # <<>> => deadAge = 0)
       /\ call = "loopBody" =>
            IF inbox # <<>> THEN deadAge + Readings(Len(inbox) - 1) <= Backlog
            ELSE deadAge <= Backlog + waitAge
       /\ call = "idle" /\ inbox # <<>> =>
            deadAge + Readings(Len(inbox)) <= Backlog + IF ran THEN 0 ELSE 1
       /\ call = "idle" /\ inbox = <<>> =>
            deadAge <= IF pingOutstanding THEN Backlog + AgeBound + UpTo(KeepAlive + 1, inAge)
                       ELSE Backlog + inAge

\* The time from a ping to reading its answer: there, back, and one time unit
\* for every packet that may be unread.
AnswerTime == 2 * Latency + (MaxUnits \div 2)

\* How old a ping can be whose answer is at place k of the stream.
Received == Offset + Len(inbox)
Due(k)   == IF k > Received THEN Latency + downAge
            ELSE AnswerTime - (k \div 2) + IF call = "idle" /\ ran THEN 0 ELSE 1

\* Both activity times restarted with the ping: neither is older.
PingInTime ==
  Intact /\ state = "CONNECTED" /\ pingOutstanding =>
    /\ \A i \in 1..Len(up) : Asked(i) => inAge <= upAge /\ outAge <= upAge
    /\ \A k \in 1..StreamLen : Answered(k) => inAge <= Due(k) /\ outAge <= Due(k)

InTime == RanLately /\ Heard /\ Dying /\ PingInTime

\* Keepalive does both things it is there for: an intact session does not
\* expire, and a connection that died does not outlive DetectTime; and why.
KeepaliveHolds == BrokerHearsInTime /\ DeadPeerFound /\ InTime

\* No call blocks for ever, whatever broker and network do.
CallsReturn == call # "idle" ~> call = "idle"

=============================================================================

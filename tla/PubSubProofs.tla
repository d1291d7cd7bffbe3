---------------------------- MODULE PubSubProofs ----------------------------
(***************************************************************************)
(* What PubSubClient keeps under every sketch, for all topics, times and   *)
(* bounds: each action of the library, the network and the broker keeps    *)
(* Sound, and with a prompt network InStep.  SketchProofs puts the actions *)
(* of two sketches together.                                               *)
(***************************************************************************)
EXTENDS PubSubClient, TLAPS

-----------------------------------------------------------------------------
(* Packets, sequences and bounds                                           *)
-----------------------------------------------------------------------------
\* The bounds of the ages.
LEMMA Zeroes ==
  /\ AgeBound \in Nat /\ ExpireTime \in Nat /\ SocketTimeout \in Nat /\ Latency \in Nat
     /\ SocketTimeout <= AgeBound
  /\ 0 \in 0..AgeBound /\ 0 \in 0..SocketTimeout /\ 0 \in 0..Latency
  /\ 0 \in 0..(ExpireTime + 1) /\ MaxUnits \in Nat /\ MaxFailures \in Nat
<1>1. AgeBound \in Nat /\ SocketTimeout <= AgeBound
  BY PubSubAssumption DEF AgeBound
<1>2. KeepAlive \div 2 \in Nat
  BY PubSubAssumption
<1>3. ExpireTime \in Nat
  BY <1>2, PubSubAssumption DEF ExpireTime
<1>4. QED BY <1>1, <1>3, PubSubAssumption

\* A connection without traffic.
LEMMA Empty ==
  <<>> \in Seq(Unit) /\ <<>> \in Seq(ToBroker) /\ Len(<<>>) = 0 /\ NoUnit \in Unit
    /\ {} \subseteq Topics \X QosLevels
<1>1. Idle \in ToClient
  BY DEF Idle, ToClient
<1>2. NoUnit \in Unit
  BY <1>1 DEF NoUnit, Unit
<1>3. QED BY <1>2

\* The packets the library and the broker write.
LEMMA Packets ==
  /\ [type |-> "CONNECT"] \in ToBroker /\ [type |-> "PINGREQ"] \in ToBroker
  /\ [type |-> "PUBACK"] \in ToBroker /\ [type |-> "PUBLISH"] \in ToBroker
  /\ [type |-> "SUBACK"] \in ToClient /\ [type |-> "PINGRESP"] \in ToClient
  /\ [type |-> "CONNACK", code |-> 0] \in ToClient
  /\ [type |-> "CONNACK", code |-> 5] \in ToClient
BY DEF ToBroker, ToClient, Connack

\* Head and tail of a sequence.
LEMMA TailOf ==
  ASSUME NEW S, NEW s \in Seq(S), s # <<>>
  PROVE  /\ Head(s) \in S /\ Head(s) = s[1] /\ Tail(s) \in Seq(S) /\ Len(s) \in Nat /\ Len(s) > 0
            /\ Len(Tail(s)) = Len(s) - 1
         /\ \A k \in 1..Len(Tail(s)) : Tail(s)[k] = s[k + 1]
OBVIOUS

\* A packet crosses the network as two units.
LEMMA UnitsType ==
  ASSUME NEW p \in ToClient
  PROVE  /\ Units(p) \in Seq(Unit) /\ Len(Units(p)) = 2
         /\ Units(p)[1] = [pkt |-> p, part |-> 1] /\ Units(p)[2] = [pkt |-> p, part |-> 2]
<1>1. [pkt |-> p, part |-> 1] \in Unit /\ [pkt |-> p, part |-> 2] \in Unit
  BY DEF Unit
<1>2. QED BY <1>1 DEF Units

\* The broker answers with one packet or not at all.
LEMMA ReplyType ==
  ASSUME NEW p \in ToBroker
  PROVE  /\ Reply(p) \in Seq(Unit) /\ Len(Reply(p)) \in {0, 2}
<1>1. CASE p.type = "CONNECT"
  BY <1>1, UnitsType, Packets DEF Reply
<1>2. CASE p.type = "SUBSCRIBE"
  BY <1>2, UnitsType, Packets DEF Reply
<1>3. CASE p.type = "PINGREQ"
  BY <1>3, UnitsType, Packets DEF Reply
<1>4. CASE p.type \notin {"CONNECT", "SUBSCRIBE", "PINGREQ"}
  BY <1>4, Empty DEF Reply
<1>5. QED BY <1>1, <1>2, <1>3, <1>4

\* What write() does to the packets under way.
LEMMA SentType ==
  ASSUME TypeOK, NEW p \in ToBroker
  PROVE  /\ Sent(p) \in Seq(ToBroker)
         /\ Len(up) \in Nat /\ Len(Sent(p)) \in Nat /\ Len(Sent(p)) <= Len(up) + 1
         /\ \A i \in 1..Len(up) : Sent(p)[i] = up[i]
         /\ \A i \in 1..Len(Sent(p)) : i \in 1..Len(up) \/ Sent(p)[i] = p
         /\ Sent(p) # <<>> => up # <<>> \/ Intact
         /\ ~(sock /\ open /\ ~cut) => Sent(p) = up
BY DEF TypeOK, Streams, Sent, Intact

\* A message is a packet for the client.
LEMMA PublicationType ==
  ASSUME NEW t \in Topics, NEW v \in Values, NEW s \in Sizes, NEW q \in QosLevels
  PROVE  [type |-> "PUBLISH", topic |-> t, value |-> v, size |-> s, qos |-> q] \in ToClient
BY DEF ToClient, Publication

\* A sequence behind another.
LEMMA Joined ==
  ASSUME NEW S, NEW s \in Seq(S), NEW t \in Seq(S)
  PROVE  /\ s \o t \in Seq(S) /\ Len(s) \in Nat /\ Len(t) \in Nat /\ Len(s \o t) = Len(s) + Len(t)
         /\ \A k \in 1..Len(s) : (s \o t)[k] = s[k]
         /\ \A k \in 1..Len(t) : (s \o t)[Len(s) + k] = t[k]
OBVIOUS

\* A packet behind what is under way.
LEMMA Paired ==
  ASSUME TypeOK, NEW p \in ToClient, Len(down) + 2 <= MaxUnits
  PROVE  /\ down \o Units(p) \in Seq(Unit) /\ Len(down \o Units(p)) = Len(down) + 2
            /\ Len(down) \in Nat
         /\ Len(down \o Units(p)) <= MaxUnits
         /\ \A k \in 1..Len(down) : (down \o Units(p))[k] = down[k]
         /\ (down \o Units(p))[Len(down) + 1] = [pkt |-> p, part |-> 1]
         /\ (down \o Units(p))[Len(down) + 2] = [pkt |-> p, part |-> 2]
<1>1. PICK u \in Seq(Unit) : u = Units(p) /\ Len(u) = 2 /\ u[1] = [pkt |-> p, part |-> 1]
        /\ u[2] = [pkt |-> p, part |-> 2]
  BY UnitsType
<1>2. down \in Seq(Unit)
  BY DEF TypeOK, Streams
<1>3. /\ down \o u \in Seq(Unit) /\ Len(down) \in Nat /\ Len(down \o u) = Len(down) + Len(u)
      /\ \A k \in 1..Len(down) : (down \o u)[k] = down[k]
      /\ \A k \in 1..Len(u) : (down \o u)[Len(down) + k] = u[k]
  <2>1. u \in Seq(Unit)
    BY <1>1
  <2>2. QED BY <1>2, <2>1, Joined
<1>4. 1 \in 1..Len(u) /\ 2 \in 1..Len(u)
  BY <1>1
<1>5. (down \o u)[Len(down) + 1] = u[1] /\ (down \o u)[Len(down) + 2] = u[2]
  BY <1>3, <1>4
<1>6. QED BY <1>1, <1>3, <1>5

\* Room for a packet is room for an answer.
LEMMA Room ==
  ASSUME NEW l \in Nat, NEW n \in {0, 2}, NEW m, m = l + n, l + 2 <= MaxUnits
  PROVE  m <= MaxUnits
BY PubSubAssumption

\* Reading one unit.
LEMMA Rest ==
  ASSUME TypeOK, inbox # <<>>
  PROVE  Tail(inbox) \in Seq(Unit) /\ Len(Tail(inbox)) <= MaxUnits /\ Head(inbox) \in Unit
<1>1. inbox \in Seq(Unit) /\ Len(inbox) <= MaxUnits /\ MaxUnits \in Nat
  BY PubSubAssumption DEF TypeOK, Streams
<1>2. Tail(inbox) \in Seq(Unit) /\ Len(inbox) \in Nat /\ Len(Tail(inbox)) = Len(inbox) - 1
        /\ Head(inbox) \in Unit
  BY <1>1, TailOf
<1>3. QED BY <1>1, <1>2

-----------------------------------------------------------------------------
(* Sound: types, the link and the socket, action by action                 *)
-----------------------------------------------------------------------------
\* connect() is entered: connected already, or from no socket.
LEMMA CallConnectSound ==
  ASSUME Sound, CallConnect
  PROVE  Sound'
<1> USE DEF Sound
<1>0. IF Connected THEN UNCHANGED <<link, peer, state, call, partial>>
      ELSE CloseLink /\ call' = "tcp" /\ partial' = partial
        /\ state' \in {state, "CONNECTION_LOST"} /\ state' # "CONNECTED"
  BY DEF Flags, TypeOK, SocketKept, InConnect, CallConnect, Connected, TcpConnected, NoteLoss
<1>1. Flags'
  BY Zenon DEF TypeOK, Flags, CallConnect, Connected, TcpConnected, SendConnect, NoteLoss,
     CloseLink, link, peer, env
<1>2. Modes'
  BY DEF TypeOK, Modes, States, Calls, CallConnect, Connected, TcpConnected, SendConnect,
     NoteLoss, CloseLink, link, peer, env
<1>3. Streams'
  <2>1. CASE Connected
    BY <1>0, <2>1 DEF TypeOK, Streams, link, peer
  <2>2. CASE ~Connected
    BY <1>0, <2>2, Empty, PubSubAssumption DEF TypeOK, Streams, CloseLink
  <2> QED BY <2>1, <2>2
<1>4. Times'
  BY Zeroes DEF TypeOK, Times, Streams, CallConnect, Connected, TcpConnected, SendConnect,
     NoteLoss, CloseLink, link, peer, env
<1>5. LinkKept'
  <2>1. CASE Connected
    BY <1>0, <2>1 DEF LinkKept, Intact, link, peer
  <2>2. CASE ~Connected
    BY <1>0, <2>2 DEF LinkKept, CloseLink, Intact
  <2> QED BY <2>1, <2>2
<1>6. SocketKept'
  <2>1. CASE Connected
    BY <1>0, <2>1 DEF SocketKept, InConnect, link, peer
  <2>2. CASE ~Connected
    BY <1>0, <2>2 DEF SocketKept, CloseLink, InConnect
  <2> QED BY <2>1, <2>2
<1>7. QED BY <1>1, <1>2, <1>3, <1>4, <1>5, <1>6 DEF TypeOK

\* The TCP connection is up and CONNECT goes out first.
LEMMA TcpUpSound ==
  ASSUME Sound, TcpUp
  PROVE  Sound'
<1> USE DEF Sound
<1>1. Flags'
  BY Zenon DEF TypeOK, Flags, TcpUp, SendConnect, peer, env
<1>2. Modes'
  BY DEF TypeOK, Modes, States, Calls, TcpUp, SendConnect, peer, env
<1>3. Streams'
  BY Empty, Packets, SentType DEF TypeOK, Streams, TcpUp, SendConnect, peer, env
<1>4. Times'
  BY Zeroes DEF TypeOK, Times, Streams, TcpUp, SendConnect, peer, env
<1>5. LinkKept'
  <2>1. sock' /\ open' /\ ~cut /\ UNCHANGED <<cut, inbox>>
    BY DEF TcpUp, LinkKept, SocketKept
  <2> QED BY <2>1 DEF LinkKept, Intact
<1>6. SocketKept'
  BY DEF TypeOK, Streams, SocketKept, LinkKept, Intact, InConnect, TcpUp, SendConnect, peer, env
<1>7. QED BY <1>1, <1>2, <1>3, <1>4, <1>5, <1>6 DEF TypeOK

\* There is no TCP connection.
LEMMA TcpFailSound ==
  ASSUME Sound, TcpFail
  PROVE  Sound'
<1> USE DEF Sound
<1>1. Flags'
  BY Zenon DEF TypeOK, Flags, TcpFail, Return, link, peer, env
<1>2. Modes'
  BY DEF TypeOK, Modes, States, Calls, TcpFail, Return, link, peer, env
<1>3. Streams'
  BY Empty DEF TypeOK, Streams, TcpFail, Return, link, peer, env
<1>4. Times'
  BY Zeroes DEF TypeOK, Times, Streams, TcpFail, Return, link, peer, env
<1>5. LinkKept'
  BY DEF TypeOK, Streams, LinkKept, Intact, TcpFail, Return, link, peer, env
<1>6. SocketKept'
  BY DEF TypeOK, Streams, SocketKept, LinkKept, Intact, InConnect, TcpFail, Return, link, peer,
     env
<1>7. QED BY <1>1, <1>2, <1>3, <1>4, <1>5, <1>6 DEF TypeOK

\* connect() reads the first bytes of the answer.
LEMMA ConnackHeadSound ==
  ASSUME Sound, ConnackHead
  PROVE  Sound'
<1> USE DEF Sound
<1>1. Flags'
  BY Zenon DEF TypeOK, Flags, ConnackHead, peer, env
<1>2. Modes'
  BY DEF TypeOK, Modes, States, Calls, ConnackHead, peer, env
<1>3. Streams'
  BY Empty, Zeroes, TailOf DEF TypeOK, Streams, ConnackHead, peer, env
<1>4. Times'
  BY Zeroes DEF TypeOK, Times, Streams, ConnackHead, peer, env
<1>5. LinkKept'
  BY DEF TypeOK, Streams, LinkKept, Intact, ConnackHead, peer, env
<1>6. SocketKept'
  BY DEF TypeOK, Streams, SocketKept, LinkKept, Intact, InConnect, ConnackHead, peer, env
<1>7. QED BY <1>1, <1>2, <1>3, <1>4, <1>5, <1>6 DEF TypeOK

\* connect() gives up waiting.
LEMMA ConnackTimeoutSound ==
  ASSUME Sound, ConnackTimeout
  PROVE  Sound'
<1> USE DEF Sound
<1>1. Flags'
  BY Zenon DEF TypeOK, Flags, ConnackTimeout, CloseLink, Return, env
<1>2. Modes'
  BY DEF TypeOK, Modes, States, Calls, ConnackTimeout, CloseLink, Return, env
<1>3. Streams'
  BY Empty DEF TypeOK, Streams, ConnackTimeout, CloseLink, Return, env
<1>4. Times'
  BY Zeroes DEF TypeOK, Times, Streams, ConnackTimeout, CloseLink, Return, env
<1>5. LinkKept'
  BY DEF TypeOK, Streams, LinkKept, Intact, ConnackTimeout, CloseLink, Return, env
<1>6. SocketKept'
  BY DEF TypeOK, Streams, SocketKept, LinkKept, Intact, InConnect, ConnackTimeout, CloseLink,
     Return, env
<1>7. QED BY <1>1, <1>2, <1>3, <1>4, <1>5, <1>6 DEF TypeOK

\* connect() has its answer: connected, or stopped.
LEMMA ConnackBodySound ==
  ASSUME Sound, ConnackBody
  PROVE  Sound'
<1> USE DEF Sound
<1>1. Flags'
  BY Zenon DEF TypeOK, Flags, ConnackBody, CloseLink, Return, peer, env
<1>2. Modes'
  BY DEF TypeOK, Modes, States, Calls, ConnackBody, CloseLink, Return, peer, env
<1>3. Streams'
  <2>1. CASE partial.pkt.type = "CONNACK" /\ partial.pkt.code = 0
    BY <2>1, Empty, Rest DEF TypeOK, Streams, ConnackBody, CloseLink, Return, peer, env
  <2>2. CASE ~(partial.pkt.type = "CONNACK" /\ partial.pkt.code = 0)
    <3>1. CloseLink /\ partial' = NoUnit
      BY <2>2 DEF ConnackBody, Return
    <3> QED BY <3>1, Empty, Zeroes DEF TypeOK, Streams, CloseLink
  <2> QED BY <2>1, <2>2
<1>4. Times'
  BY Zeroes DEF TypeOK, Times, Streams, ConnackBody, CloseLink, Return, peer, env
<1>5. LinkKept'
  BY DEF TypeOK, Streams, LinkKept, Intact, ConnackBody, CloseLink, Return, peer, env
<1>6. SocketKept'
  BY DEF TypeOK, Streams, SocketKept, LinkKept, Intact, InConnect, ConnackBody, CloseLink, Return,
     peer, env
<1>7. QED BY <1>1, <1>2, <1>3, <1>4, <1>5, <1>6 DEF TypeOK

\* connect() gives up in the middle of the answer.
LEMMA ConnackBodyTimeoutSound ==
  ASSUME Sound, ConnackBodyTimeout
  PROVE  Sound'
<1> USE DEF Sound
<1>1. Flags'
  BY Zenon DEF TypeOK, Flags, ConnackBodyTimeout, CloseLink, Return, GivesUp, env
<1>2. Modes'
  BY DEF TypeOK, Modes, States, Calls, ConnackBodyTimeout, CloseLink, Return, GivesUp, env
<1>3. Streams'
  BY Empty DEF TypeOK, Streams, ConnackBodyTimeout, CloseLink, Return, GivesUp, env
<1>4. Times'
  BY Zeroes DEF TypeOK, Times, Streams, ConnackBodyTimeout, CloseLink, Return, GivesUp, env
<1>5. LinkKept'
  BY DEF TypeOK, Streams, LinkKept, Intact, ConnackBodyTimeout, CloseLink, Return, GivesUp, env
<1>6. SocketKept'
  BY DEF TypeOK, Streams, SocketKept, LinkKept, Intact, InConnect, ConnackBodyTimeout, CloseLink,
     Return, GivesUp, env
<1>7. QED BY <1>1, <1>2, <1>3, <1>4, <1>5, <1>6 DEF TypeOK

\* loop() finds the connection lost.
LEMMA LoopNotConnectedSound ==
  ASSUME Sound, LoopNotConnected
  PROVE  Sound'
<1> USE DEF Sound
<1>1. Flags'
  BY Zenon DEF TypeOK, Flags, LoopNotConnected, Connected, TcpConnected, NoteLoss, CloseLink,
     link, peer, timers, env
<1>2. Modes'
  BY DEF TypeOK, Modes, States, Calls, LoopNotConnected, Connected, TcpConnected, NoteLoss,
     CloseLink, link, peer, timers, env
<1>3. Streams'
  <2>1. CASE TcpConnected(inbox)
    BY <2>1 DEF TypeOK, Streams, LoopNotConnected, link, peer
  <2>2. CASE ~TcpConnected(inbox)
    BY <2>2, Empty, Zeroes DEF TypeOK, Streams, LoopNotConnected, NoteLoss, CloseLink
  <2> QED BY <2>1, <2>2
<1>4. Times'
  BY Zeroes DEF TypeOK, Times, Streams, LoopNotConnected, Connected, TcpConnected, NoteLoss,
     CloseLink, link, peer, timers, env
<1>5. LinkKept'
  BY DEF TypeOK, Streams, LinkKept, Intact, LoopNotConnected, Connected, TcpConnected, NoteLoss,
     CloseLink, link, peer, timers, env
<1>6. SocketKept'
  BY DEF TypeOK, Streams, SocketKept, LinkKept, Intact, InConnect, LoopNotConnected, Connected,
     TcpConnected, NoteLoss, CloseLink, link, peer, timers, env
<1>7. QED BY <1>1, <1>2, <1>3, <1>4, <1>5, <1>6 DEF TypeOK

\* loop() gives up for want of PINGRESP.
LEMMA LoopPingTimeoutSound ==
  ASSUME Sound, LoopPingTimeout
  PROVE  Sound'
<1> USE DEF Sound
<1>1. Flags'
  BY Zenon DEF TypeOK, Flags, LoopPingTimeout, Connected, TcpConnected, CloseLink, timers, env
<1>2. Modes'
  BY DEF TypeOK, Modes, States, Calls, LoopPingTimeout, Connected, TcpConnected, CloseLink,
     timers, env
<1>3. Streams'
  BY Empty, Zeroes DEF TypeOK, Streams, LoopPingTimeout, Connected, TcpConnected, CloseLink,
     timers, env
<1>4. Times'
  BY Zeroes DEF TypeOK, Times, Streams, LoopPingTimeout, Connected, TcpConnected, CloseLink,
     timers, env
<1>5. LinkKept'
  BY DEF TypeOK, Streams, LinkKept, Intact, LoopPingTimeout, Connected, TcpConnected, CloseLink,
     timers, env
<1>6. SocketKept'
  BY DEF TypeOK, Streams, SocketKept, LinkKept, Intact, InConnect, LoopPingTimeout, Connected,
     TcpConnected, CloseLink, timers, env
<1>7. QED BY <1>1, <1>2, <1>3, <1>4, <1>5, <1>6 DEF TypeOK

\* loop() pings if it must and starts to read.
LEMMA LoopRunSound ==
  ASSUME Sound, LoopRun
  PROVE  Sound'
<1> USE DEF Sound
<1>0. /\ up' \in {up, Sent([type |-> "PINGREQ"])}
      /\ \/ inbox # <<>> /\ inbox' = Tail(inbox) /\ partial' = Head(inbox) /\ call' = "loopBody"
         \/ UNCHANGED <<inbox, partial, call>>
      /\ UNCHANGED <<sock, open, cut, down, session, subs, state>> /\ sock /\ state = "CONNECTED"
         /\ call = "idle"
  BY DEF LoopRun, Connected, TcpConnected, peer
<1>1. Flags'
  BY Zenon DEF TypeOK, Flags, LoopRun, Connected, TcpConnected, peer, env
<1>2. Modes'
  BY DEF TypeOK, Modes, States, Calls, LoopRun, Connected, TcpConnected, peer, env
<1>3. Streams'
  <2>1. up' \in Seq(ToBroker)
    BY <1>0, Packets, SentType DEF TypeOK, Streams
  <2>2. inbox' \in Seq(Unit) /\ Len(inbox') <= MaxUnits /\ partial' \in Unit
    BY <1>0, Rest DEF TypeOK, Streams
  <2> QED BY <1>0, <2>1, <2>2 DEF TypeOK, Streams
<1>4. Times'
  BY Zeroes DEF TypeOK, Times, Streams, LoopRun, Connected, TcpConnected, peer, env
<1>5. LinkKept'
  BY SentType, Packets DEF TypeOK, Streams, LinkKept, Intact, LoopRun, Connected, TcpConnected,
     peer, env
<1>6. SocketKept'
  <2>1. \A i \in 1..Len(up') : (i \in 1..Len(up) /\ up'[i] = up[i])
          \/ up'[i] = [type |-> "PINGREQ"]
    <3>1. PICK s \in Seq(ToBroker) :
              /\ s = up'
              /\ \A i \in 1..Len(up) : s[i] = up[i]
              /\ \A i \in 1..Len(s) : i \in 1..Len(up) \/ s[i] = [type |-> "PINGREQ"]
      <4>1. up \in Seq(ToBroker)
        BY DEF TypeOK, Streams
      <4>2. CASE up' = up
        BY <4>1, <4>2
      <4>3. CASE up' = Sent([type |-> "PINGREQ"])
        BY <4>3, Packets, SentType
      <4> QED BY <1>0, <4>2, <4>3
    <3> QED BY <3>1
  <2>2. \A i \in 1..Len(up') : up'[i].type = "CONNECT" => i = 1 /\ ~session'
    BY <1>0, <2>1 DEF SocketKept
  <2> QED BY <1>0, <2>2 DEF SocketKept, InConnect
<1>7. QED BY <1>1, <1>2, <1>3, <1>4, <1>5, <1>6 DEF TypeOK

\* loop() has read a packet.
LEMMA LoopBodySound ==
  ASSUME Sound, LoopBody
  PROVE  Sound'
<1> USE DEF Sound
<1>0. \/ CloseLink /\ partial' = NoUnit /\ state' \in {state, "CONNECTION_LOST"} /\ call' = "idle"
        /\ UNCHANGED <<inAge, outAge>>
      \/ /\ inbox # <<>> /\ inbox' = Tail(inbox) /\ partial' = NoUnit
         /\ up' \in {up, Sent([type |-> "PUBACK"])} /\ inAge' \in {inAge, waitAge}
            /\ outAge' \in {outAge, waitAge}
         /\ UNCHANGED <<sock, open, cut, down, downAge, upAge, session, subs, silence, state>>
            /\ call' = "idle"
  BY DEF LoopBody, Finishes, ReturnConnected, Return, Answer, NoteLoss, peer
<1>00. waitAge' = 0 /\ UNCHANGED <<failures>> /\ call = "loopBody"
  BY DEF LoopBody, Finishes, ReturnConnected, Return, env
<1>1. Flags'
  BY Zenon DEF TypeOK, Flags, LoopBody, Finishes, ReturnConnected, TcpConnected, NoteLoss,
     CloseLink, Answer, PingStillOut, Return, peer, env
<1>2. Modes'
  BY DEF TypeOK, Modes, States, Calls, LoopBody, Finishes, ReturnConnected, TcpConnected,
     NoteLoss, CloseLink, Answer, PingStillOut, Return, peer, env
<1>3. Streams'
  <2>1. CASE CloseLink
    BY <1>0, <2>1, Empty, Zeroes DEF TypeOK, Streams, CloseLink
  <2>2. CASE ~CloseLink
    <3>1. up' \in Seq(ToBroker)
      BY <1>0, <2>2, Packets, SentType DEF TypeOK, Streams
    <3> QED BY <1>0, <2>2, <3>1, Rest, Empty DEF TypeOK, Streams
  <2> QED BY <2>1, <2>2
<1>4. Times'
  <2>1. CASE CloseLink
    BY <1>0, <1>00, <2>1, Zeroes DEF TypeOK, Times, CloseLink
  <2>2. CASE ~CloseLink
    <3>1. /\ inAge' \in 0..inAge \/ inAge' = inAge \/ inAge' = waitAge
          /\ outAge' \in 0..outAge \/ outAge' = outAge \/ outAge' = waitAge
          /\ waitAge' = 0 /\ UNCHANGED <<downAge, upAge, silence, failures>>
      BY <1>0, <1>00, <2>2
    <3> QED BY <3>1, Zeroes DEF TypeOK, Times
  <2> QED BY <2>1, <2>2
<1>5. LinkKept'
  <2>1. CASE CloseLink
    BY <2>1 DEF LinkKept, CloseLink, Intact
  <2>2. CASE ~CloseLink
    BY <1>0, <2>2, Packets, SentType DEF LinkKept, Intact
  <2> QED BY <2>1, <2>2
<1>6. SocketKept'
  <2>1. CASE CloseLink
    BY <1>0, <2>1 DEF SocketKept, CloseLink, InConnect
  <2>2. CASE ~CloseLink
    <3>1. \A i \in 1..Len(up') : (i \in 1..Len(up) /\ up'[i] = up[i])
            \/ up'[i] = [type |-> "PUBACK"]
      BY <1>0, <2>2, Packets, SentType DEF TypeOK, Streams
    <3>2. \A i \in 1..Len(up') : up'[i].type = "CONNECT" => i = 1 /\ ~session'
      BY <1>0, <2>2, <3>1 DEF SocketKept
    <3> QED BY <1>0, <1>00, <2>2, <3>2 DEF SocketKept, InConnect
  <2> QED BY <2>1, <2>2
<1>7. QED BY <1>1, <1>2, <1>3, <1>4, <1>5, <1>6 DEF TypeOK

\* loop() gives up in the middle of a packet.
LEMMA LoopBodyTimeoutSound ==
  ASSUME Sound, LoopBodyTimeout
  PROVE  Sound'
<1> USE DEF Sound
<1>1. Flags'
  BY Zenon DEF TypeOK, Flags, LoopBodyTimeout, GivesUp, ReturnConnected, TcpConnected, NoteLoss,
     CloseLink, Return, peer, env
<1>2. Modes'
  BY DEF TypeOK, Modes, States, Calls, LoopBodyTimeout, GivesUp, ReturnConnected, TcpConnected,
     NoteLoss, CloseLink, Return, peer, env
<1>3. Streams'
  BY Empty DEF TypeOK, Streams, LoopBodyTimeout, GivesUp, ReturnConnected, TcpConnected, NoteLoss,
     CloseLink, Return, peer, env
<1>4. Times'
  BY Zeroes DEF TypeOK, Times, Streams, LoopBodyTimeout, GivesUp, ReturnConnected, TcpConnected,
     NoteLoss, CloseLink, Return, peer, env
<1>5. LinkKept'
  BY DEF TypeOK, Streams, LinkKept, Intact, LoopBodyTimeout, GivesUp, ReturnConnected,
     TcpConnected, NoteLoss, CloseLink, Return, peer, env
<1>6. SocketKept'
  BY DEF TypeOK, Streams, SocketKept, LinkKept, Intact, InConnect, LoopBodyTimeout, GivesUp,
     ReturnConnected, TcpConnected, NoteLoss, CloseLink, Return, peer, env
<1>7. QED BY <1>1, <1>2, <1>3, <1>4, <1>5, <1>6 DEF TypeOK

\* loop() reads data as a header.
LEMMA GarbageReadSound ==
  ASSUME Sound, GarbageRead
  PROVE  Sound'
<1> USE DEF Sound
<1>0. \/ CloseLink /\ partial' = NoUnit /\ state' = "DISCONNECTED" /\ call' = "idle"
        /\ UNCHANGED <<inAge, outAge>> /\ waitAge' = 0
      \/ /\ inbox' = inbox \/ (inbox # <<>> /\ inbox' = Tail(inbox))
         /\ partial' \in {partial, NoUnit} /\ waitAge' = 0
         /\ up' \in {up, Sent([type |-> "PUBACK"])}
         /\ inAge' \in 0..inAge \/ inAge' = inAge
         /\ outAge' \in 0..outAge \/ outAge' = outAge
         /\ UNCHANGED <<sock, open, cut, down, downAge, upAge, session, subs, silence, state>>
            /\ call' \in {call, "idle"}
  <2>1. CASE CloseLink /\ state' = "DISCONNECTED" /\ Return(FALSE)
          /\ UNCHANGED <<inAge, outAge, pingOutstanding>>
    BY <2>1 DEF Return
  <2>2. CASE /\ inbox # <<>> /\ inbox' = Tail(inbox) /\ waitAge' = 0
             /\ UNCHANGED <<sock, open, cut, down, up, downAge, upAge, peer, inAge, outAge,
                            pingOutstanding, state, call, partial, ret>>
    BY <2>2 DEF peer
  <2>3. CASE /\ inAge' \in 0..inAge
             /\ \/ UNCHANGED <<up, outAge>>
                \/ up' = Sent([type |-> "PUBACK"]) /\ outAge' \in 0..outAge
             /\ Return(TRUE)
             /\ UNCHANGED <<sock, open, cut, inbox, down, downAge, upAge, peer, state>>
    <3>1. up' \in {up, Sent([type |-> "PUBACK"])}
      BY <2>3
    <3>2. inbox' = inbox /\ partial' = NoUnit /\ waitAge' = 0 /\ call' = "idle"
      BY <2>3 DEF Return
    <3>3. UNCHANGED <<sock, open, cut, down, downAge, upAge, session, subs, silence, state>>
      BY <2>3 DEF peer
    <3>4. inAge' \in 0..inAge /\ (outAge' \in 0..outAge \/ outAge' = outAge)
      BY <2>3
    <3>5. /\ inbox' = inbox \/ (inbox # <<>> /\ inbox' = Tail(inbox))
          /\ partial' \in {partial, NoUnit} /\ waitAge' = 0
          /\ call' \in {call, "idle"}
      BY <3>2
    <3> QED BY Zenon, <3>1, <3>3, <3>4, <3>5
  <2> QED BY <2>1, <2>2, <2>3 DEF GarbageRead
<1>00. UNCHANGED <<failures>> /\ call = "loopBody"
  BY DEF GarbageRead, env
<1>1. Flags'
  BY Zenon DEF TypeOK, Flags, GarbageRead, CloseLink, Return, peer, env
<1>2. Modes'
  BY DEF TypeOK, Modes, States, Calls, GarbageRead, CloseLink, Return, peer, env
<1>3. Streams'
  <2>1. CASE CloseLink
    BY <1>0, <2>1, Empty, Zeroes DEF TypeOK, Streams, CloseLink
  <2>2. CASE ~CloseLink
    <3>1. up' \in Seq(ToBroker)
      BY <1>0, <2>2, Packets, SentType DEF TypeOK, Streams
    <3> QED BY <1>0, <2>2, <3>1, Rest, Empty DEF TypeOK, Streams
  <2> QED BY <2>1, <2>2
<1>4. Times'
  <2>1. CASE CloseLink
    BY <1>0, <1>00, <2>1, Zeroes DEF TypeOK, Times, CloseLink
  <2>2. CASE ~CloseLink
    <3>1. /\ inAge' \in 0..inAge \/ inAge' = inAge \/ inAge' = waitAge
          /\ outAge' \in 0..outAge \/ outAge' = outAge \/ outAge' = waitAge
          /\ waitAge' = 0 /\ UNCHANGED <<downAge, upAge, silence, failures>>
      BY <1>0, <1>00, <2>2
    <3> QED BY <3>1, Zeroes DEF TypeOK, Times
  <2> QED BY <2>1, <2>2
<1>5. LinkKept'
  <2>1. CASE CloseLink
    BY <2>1 DEF LinkKept, CloseLink, Intact
  <2>2. CASE ~CloseLink
    BY <1>0, <2>2, Packets, SentType DEF LinkKept, Intact
  <2> QED BY <2>1, <2>2
<1>6. SocketKept'
  <2>1. CASE CloseLink
    BY <1>0, <2>1 DEF SocketKept, CloseLink, InConnect
  <2>2. CASE ~CloseLink
    <3>1. \A i \in 1..Len(up') : (i \in 1..Len(up) /\ up'[i] = up[i])
            \/ up'[i] = [type |-> "PUBACK"]
      BY <1>0, <2>2, Packets, SentType DEF TypeOK, Streams
    <3>2. \A i \in 1..Len(up') : up'[i].type = "CONNECT" => i = 1 /\ ~session'
      BY <1>0, <2>2, <3>1 DEF SocketKept
    <3> QED BY <1>0, <1>00, <2>2, <3>2 DEF SocketKept, InConnect
  <2> QED BY <2>1, <2>2
<1>7. QED BY <1>1, <1>2, <1>3, <1>4, <1>5, <1>6 DEF TypeOK

\* subscribe() and publish() write one packet.
LEMMA WriteSound ==
  ASSUME Sound, NEW p \in ToBroker, p.type # "CONNECT", Write(p)
  PROVE  Sound'
<1> USE DEF Sound
<1>0. \/ CloseLink /\ state' \in {state, "CONNECTION_LOST"}
      \/ /\ up' \in {up, Sent(p)}
         /\ UNCHANGED <<sock, open, cut, inbox, down, session, subs, state>>
  BY DEF Write, NoteLoss, link, peer
<1>00. UNCHANGED <<call, partial>> /\ call = "idle"
  BY DEF Write
<1>1. Flags'
  BY Zenon DEF TypeOK, Flags, Write, Connected, TcpConnected, NoteLoss, CloseLink, link, peer, env
<1>2. Modes'
  BY DEF TypeOK, Modes, States, Calls, Write, Connected, TcpConnected, NoteLoss, CloseLink, link,
     peer, env
<1>3. Streams'
  <2>1. CASE CloseLink
    BY <1>00, <2>1, Empty, Zeroes DEF TypeOK, Streams, CloseLink
  <2>2. CASE ~CloseLink
    BY <1>0, <1>00, <2>2, SentType DEF TypeOK, Streams
  <2> QED BY <2>1, <2>2
<1>4. Times'
  BY Zeroes DEF TypeOK, Times, Streams, Write, Connected, TcpConnected, NoteLoss, CloseLink, link,
     peer, env
<1>5. LinkKept'
  BY SentType, Packets DEF TypeOK, Streams, LinkKept, Intact, Write, Connected, TcpConnected,
     NoteLoss, CloseLink, link, peer, env
<1>6. SocketKept'
  <2>1. CASE CloseLink
    BY <1>0, <1>00, <2>1 DEF SocketKept, CloseLink, InConnect
  <2>2. CASE ~CloseLink
    <3>1. \A i \in 1..Len(up') : (i \in 1..Len(up) /\ up'[i] = up[i]) \/ up'[i] = p
      BY <1>0, <2>2, SentType DEF TypeOK, Streams
    <3>2. \A i \in 1..Len(up') : up'[i].type = "CONNECT" => i = 1 /\ ~session'
      BY <1>0, <2>2, <3>1 DEF SocketKept
    <3> QED BY <1>0, <1>00, <2>2, <3>2 DEF SocketKept, InConnect
  <2> QED BY <2>1, <2>2
<1>7. QED BY <1>1, <1>2, <1>3, <1>4, <1>5, <1>6 DEF TypeOK

\* disconnect() closes the socket.
LEMMA CallDisconnectSound ==
  ASSUME Sound, CallDisconnect
  PROVE  Sound'
<1> USE DEF Sound
<1>1. Flags'
  BY Zenon DEF TypeOK, Flags, CallDisconnect, CloseLink, env
<1>2. Modes'
  BY DEF TypeOK, Modes, States, Calls, CallDisconnect, CloseLink, env
<1>3. Streams'
  BY Empty, Zeroes DEF TypeOK, Streams, CallDisconnect, CloseLink, env
<1>4. Times'
  BY Zeroes DEF TypeOK, Times, Streams, CallDisconnect, CloseLink, env
<1>5. LinkKept'
  BY DEF TypeOK, Streams, LinkKept, Intact, CallDisconnect, CloseLink, env
<1>6. SocketKept'
  BY DEF TypeOK, Streams, SocketKept, LinkKept, Intact, InConnect, CallDisconnect, CloseLink, env
<1>7. QED BY <1>1, <1>2, <1>3, <1>4, <1>5, <1>6 DEF TypeOK

\* A unit arrives.
LEMMA DeliverSound ==
  ASSUME Sound, Deliver
  PROVE  Sound'
<1> USE DEF Sound
<1>1. Flags'
  BY Zenon DEF TypeOK, Flags, Deliver, peer, timers, lib, env
<1>2. Modes'
  BY DEF TypeOK, Modes, States, Calls, Deliver, peer, timers, lib, env
<1>3. Streams'
  BY Empty, Zeroes, Packets, SentType, TailOf DEF TypeOK, Streams, Deliver, peer, timers, lib, env
<1>4. Times'
  BY Zeroes DEF TypeOK, Times, Streams, Deliver, peer, timers, lib, env
<1>5. LinkKept'
  BY DEF TypeOK, Streams, LinkKept, Intact, Deliver, peer, timers, lib, env
<1>6. SocketKept'
  BY DEF TypeOK, Streams, SocketKept, LinkKept, Intact, InConnect, Deliver, peer, timers, lib, env
<1>7. QED BY <1>1, <1>2, <1>3, <1>4, <1>5, <1>6 DEF TypeOK

\* The broker answers a packet.
LEMMA BrokerHandleSound ==
  ASSUME Sound, BrokerHandle
  PROVE  Sound'
<1> USE DEF Sound
<1>1. Flags'
  BY Zenon DEF TypeOK, Flags, BrokerHandle, timers, lib, env
<1>2. Modes'
  BY DEF TypeOK, Modes, States, Calls, BrokerHandle, timers, lib, env
<1>3. Streams'
  <2>1. up # <<>> /\ Head(up) \in ToBroker /\ up' = Tail(up) /\ Tail(up) \in Seq(ToBroker)
    BY TailOf DEF TypeOK, Streams, BrokerHandle
  <2>2. PICK r \in Seq(Unit) : r = Reply(Head(up)) /\ Len(r) \in {0, 2}
    BY <2>1, ReplyType
  <2>3. down' = down \o r /\ Len(down) + 2 <= MaxUnits
    BY <2>2 DEF BrokerHandle
  <2>4. down' \in Seq(Unit) /\ Len(down') <= MaxUnits
    <3>1. down \in Seq(Unit)
      BY DEF TypeOK, Streams
    <3>2. down \o r \in Seq(Unit) /\ Len(down \o r) = Len(down) + Len(r) /\ Len(down) \in Nat
      BY <2>2, <3>1
    <3>3. Len(down \o r) <= MaxUnits
      BY <2>2, <2>3, <3>2, Room, Zenon
    <3> QED BY <2>3, <3>2, <3>3
  <2>5. subs' \subseteq Topics \X QosLevels
    <3>1. CASE Head(up).type = "SUBSCRIBE"
      <4>1. Head(up).topic \in Topics /\ Head(up).qos \in QosLevels
        BY <2>1, <3>1 DEF ToBroker
      <4> QED BY <3>1, <4>1 DEF BrokerHandle, TypeOK, Streams
    <3>2. CASE Head(up).type # "SUBSCRIBE"
      BY <3>2 DEF BrokerHandle, TypeOK, Streams
    <3> QED BY <3>1, <3>2
  <2> QED BY <2>1, <2>4, <2>5 DEF BrokerHandle, TypeOK, Streams, lib
<1>4. Times'
  BY Zeroes DEF TypeOK, Times, Streams, BrokerHandle, timers, lib, env
<1>5. LinkKept'
  BY DEF TypeOK, Streams, LinkKept, Intact, BrokerHandle, timers, lib, env
<1>6. SocketKept'
  BY DEF TypeOK, Streams, SocketKept, LinkKept, Intact, InConnect, BrokerHandle, timers, lib, env
<1>7. QED BY <1>1, <1>2, <1>3, <1>4, <1>5, <1>6 DEF TypeOK

\* The broker passes a message on.
LEMMA BrokerPublishSound ==
  ASSUME Sound, NEW t \in Topics, NEW q \in QosLevels, NEW v \in Values, NEW s \in Sizes,
         BrokerPublish(t, q, v, s)
  PROVE  Sound'
<1> USE DEF Sound
<1>1. Flags'
  BY Zenon DEF TypeOK, Flags, BrokerPublish, peer, timers, lib, env
<1>2. Modes'
  BY DEF TypeOK, Modes, States, Calls, BrokerPublish, peer, timers, lib, env
<1>3. Streams'
  <2>1. PICK p \in ToClient : down' = down \o Units(p) /\ Len(down) + 2 <= MaxUnits
    BY PublicationType DEF BrokerPublish
  <2>2. down' \in Seq(Unit) /\ Len(down') <= MaxUnits
    BY <2>1, Paired
  <2> QED BY <2>2, Empty DEF TypeOK, Streams, BrokerPublish, peer, timers, lib, env
<1>4. Times'
  BY Zeroes DEF TypeOK, Times, Streams, BrokerPublish, peer, timers, lib, env
<1>5. LinkKept'
  BY DEF TypeOK, Streams, LinkKept, Intact, BrokerPublish, peer, timers, lib, env
<1>6. SocketKept'
  BY DEF TypeOK, Streams, SocketKept, LinkKept, Intact, InConnect, BrokerPublish, peer, timers,
     lib, env
<1>7. QED BY <1>1, <1>2, <1>3, <1>4, <1>5, <1>6 DEF TypeOK

\* The broker refuses the credentials.
LEMMA BrokerRefuseSound ==
  ASSUME Sound, BrokerRefuse
  PROVE  Sound'
<1> USE DEF Sound
<1>1. Flags'
  BY Zenon DEF TypeOK, Flags, BrokerRefuse, Fault, peer, timers, lib
<1>2. Modes'
  BY DEF TypeOK, Modes, States, Calls, BrokerRefuse, Fault, peer, timers, lib
<1>3. Streams'
  <2>1. down' = Units([type |-> "CONNACK", code |-> 5]) /\ up' = <<>>
    BY DEF BrokerRefuse
  <2>2. down' \in Seq(Unit) /\ Len(down') <= MaxUnits
    <3>1. down' \in Seq(Unit) /\ Len(down') = 2
      BY <2>1, UnitsType, Packets
    <3> QED BY <3>1, PubSubAssumption
  <2> QED BY <2>1, <2>2, Empty DEF TypeOK, Streams, BrokerRefuse, Fault, peer, timers, lib
<1>4. Times'
  BY Zeroes DEF TypeOK, Times, Streams, BrokerRefuse, Fault, peer, timers, lib
<1>5. LinkKept'
  BY DEF TypeOK, Streams, LinkKept, Intact, BrokerRefuse, Fault, peer, timers, lib
<1>6. SocketKept'
  BY DEF TypeOK, Streams, SocketKept, LinkKept, Intact, InConnect, BrokerRefuse, Fault, peer,
     timers, lib
<1>7. QED BY <1>1, <1>2, <1>3, <1>4, <1>5, <1>6 DEF TypeOK

\* The broker crashes.
LEMMA BrokerCrashSound ==
  ASSUME Sound, BrokerCrash
  PROVE  Sound'
<1> USE DEF Sound
<1>1. Flags'
  BY Zenon DEF TypeOK, Flags, BrokerCrash, Fault, PeerGone, timers, lib
<1>2. Modes'
  BY DEF TypeOK, Modes, States, Calls, BrokerCrash, Fault, PeerGone, timers, lib
<1>3. Streams'
  BY Empty, Zeroes DEF TypeOK, Streams, BrokerCrash, Fault, PeerGone, timers, lib
<1>4. Times'
  BY Zeroes DEF TypeOK, Times, Streams, BrokerCrash, Fault, PeerGone, timers, lib
<1>5. LinkKept'
  BY DEF TypeOK, Streams, LinkKept, Intact, BrokerCrash, Fault, PeerGone, timers, lib
<1>6. SocketKept'
  BY DEF TypeOK, Streams, SocketKept, LinkKept, Intact, InConnect, BrokerCrash, Fault, PeerGone,
     timers, lib
<1>7. QED BY <1>1, <1>2, <1>3, <1>4, <1>5, <1>6 DEF TypeOK

\* The broker is back.
LEMMA BrokerRestartSound ==
  ASSUME Sound, BrokerRestart
  PROVE  Sound'
<1> USE DEF Sound
<1>1. Flags'
  BY Zenon DEF TypeOK, Flags, BrokerRestart, link, peer, timers, lib
<1>2. Modes'
  BY DEF TypeOK, Modes, States, Calls, BrokerRestart, link, peer, timers, lib
<1>3. Streams'
  BY DEF TypeOK, Streams, BrokerRestart, link, peer, timers, lib
<1>4. Times'
  BY Zeroes DEF TypeOK, Times, Streams, BrokerRestart, link, peer, timers, lib
<1>5. LinkKept'
  BY DEF TypeOK, Streams, LinkKept, Intact, BrokerRestart, link, peer, timers, lib
<1>6. SocketKept'
  BY DEF TypeOK, Streams, SocketKept, LinkKept, Intact, InConnect, BrokerRestart, link, peer,
     timers, lib
<1>7. QED BY <1>1, <1>2, <1>3, <1>4, <1>5, <1>6 DEF TypeOK

\* The broker gives the session up.
LEMMA BrokerExpireSound ==
  ASSUME Sound, BrokerExpire
  PROVE  Sound'
<1> USE DEF Sound
<1>1. Flags'
  BY Zenon DEF TypeOK, Flags, BrokerExpire, PeerGone, timers, lib, env
<1>2. Modes'
  BY DEF TypeOK, Modes, States, Calls, BrokerExpire, PeerGone, timers, lib, env
<1>3. Streams'
  BY Empty, Zeroes DEF TypeOK, Streams, BrokerExpire, PeerGone, timers, lib, env
<1>4. Times'
  BY Zeroes DEF TypeOK, Times, Streams, BrokerExpire, PeerGone, timers, lib, env
<1>5. LinkKept'
  BY DEF TypeOK, Streams, LinkKept, Intact, BrokerExpire, PeerGone, timers, lib, env
<1>6. SocketKept'
  BY DEF TypeOK, Streams, SocketKept, LinkKept, Intact, InConnect, BrokerExpire, PeerGone, timers,
     lib, env
<1>7. QED BY <1>1, <1>2, <1>3, <1>4, <1>5, <1>6 DEF TypeOK

\* The path dies.
LEMMA LinkCutSound ==
  ASSUME Sound, LinkCut
  PROVE  Sound'
<1> USE DEF Sound
<1>1. Flags'
  BY Zenon DEF TypeOK, Flags, LinkCut, Fault, timers, lib
<1>2. Modes'
  BY DEF TypeOK, Modes, States, Calls, LinkCut, Fault, timers, lib
<1>3. Streams'
  BY Empty, Zeroes DEF TypeOK, Streams, LinkCut, Fault, timers, lib
<1>4. Times'
  BY Zeroes DEF TypeOK, Times, Streams, LinkCut, Fault, timers, lib
<1>5. LinkKept'
  BY DEF TypeOK, Streams, LinkKept, Intact, LinkCut, Fault, timers, lib
<1>6. SocketKept'
  BY DEF TypeOK, Streams, SocketKept, LinkKept, Intact, InConnect, LinkCut, Fault, timers, lib
<1>7. QED BY <1>1, <1>2, <1>3, <1>4, <1>5, <1>6 DEF TypeOK

\* Time passes.
LEMMA ElapseSound ==
  ASSUME Sound, NEW b \in BOOLEAN, Elapse(b)
  PROVE  Sound'
<1> USE DEF Sound
<1>1. Flags'
  BY Zenon DEF TypeOK, Flags, Elapse, Blocked, UpTo, env
<1>2. Modes'
  BY DEF TypeOK, Modes, States, Calls, Elapse, Blocked, UpTo, env
<1>3. Streams'
  BY Empty DEF TypeOK, Streams, Elapse, Blocked, UpTo, env
<1>4. Times'
  <2>1. inAge' \in 0..AgeBound /\ outAge' \in 0..AgeBound
    BY Zeroes DEF TypeOK, Times, Elapse, UpTo
  <2>2. waitAge' \in 0..SocketTimeout
    BY Zeroes DEF TypeOK, Times, Elapse, UpTo
  <2>3. downAge' \in 0..Latency /\ upAge' \in 0..Latency
    BY Zeroes DEF TypeOK, Times, Elapse
  <2>4. silence' \in 0..(ExpireTime + 1)
    BY Zeroes DEF TypeOK, Times, Elapse, UpTo
  <2> QED BY <2>1, <2>2, <2>3, <2>4 DEF TypeOK, Times, Elapse, env
<1>5. LinkKept'
  BY DEF TypeOK, Streams, LinkKept, Intact, Elapse, Blocked, UpTo, env
<1>6. SocketKept'
  BY DEF TypeOK, Streams, SocketKept, LinkKept, Intact, InConnect, Elapse, Blocked, UpTo, env
<1>7. QED BY <1>1, <1>2, <1>3, <1>4, <1>5, <1>6 DEF TypeOK

-----------------------------------------------------------------------------
(* The stream to the client: what a step can do to it, and that it stays cut*)
(* into packets                                                            *)
-----------------------------------------------------------------------------
\* The hypothesis of InStep: what is sent on an intact link arrives before readByte
\* gives up.
Prompt == Latency < SocketTimeout

\* What a step does to the stream to the client.
Kept     == StreamLen' = StreamLen /\ \A k \in 1..StreamLen : At(k)' = At(k)
Taken    == /\ StreamLen >= 2 /\ StreamLen' = StreamLen - 2
            /\ \A k \in 1..StreamLen' : At(k)' = At(k + 2)
Added(p) == /\ StreamLen' = StreamLen + 2
            /\ \A k \in 1..StreamLen : At(k)' = At(k)
            /\ \A k \in 1..StreamLen' : k = StreamLen + 1 => At(k)' = [pkt |-> p, part |-> 1]
            /\ \A k \in 1..StreamLen' : k = StreamLen + 2 => At(k)' = [pkt |-> p, part |-> 2]
Lost     == ~Intact' /\ StreamLen' <= StreamLen /\ \A k \in 1..StreamLen' : At(k)' = At(k)
Emptied  == StreamLen' = 0

\* The lengths of the stream and its parts.
LEMMA Lens ==
  ASSUME TypeOK
  PROVE  /\ Len(inbox) \in Nat /\ Len(down) \in Nat /\ Offset \in {0, 1} /\ StreamLen \in Nat
         /\ inbox # <<>> <=> Len(inbox) > 0
         /\ down # <<>> <=> Len(down) > 0
         /\ inbox \in Seq(Unit) /\ down \in Seq(Unit)
BY DEF TypeOK, Streams, Offset, StreamLen

\* readPacket takes the first unit of a packet: it holds what was unread.
LEMMA HeadRead ==
  ASSUME TypeOK, ~Mid, Mid', inbox # <<>>, inbox' = Tail(inbox), partial' = Head(inbox),
         down' = down
  PROVE  Kept
<1>1. /\ Len(inbox) \in Nat /\ Len(inbox) > 0 /\ Len(down) \in Nat /\ Len(inbox') = Len(inbox) - 1
      /\ partial' = inbox[1] /\ \A k \in 1..Len(inbox') : inbox'[k] = inbox[k + 1]
  BY Lens, TailOf
<1>2. Offset = 0 /\ Offset' = 1
  BY DEF Offset
<1>3. StreamLen' = StreamLen /\ StreamLen \in Nat
  BY <1>1, <1>2 DEF StreamLen
<1>4. ASSUME NEW k \in 1..StreamLen PROVE At(k)' = At(k)
  BY <1>1, <1>2, <1>3, <1>4 DEF At, StreamLen
<1>5. QED BY <1>3, <1>4 DEF Kept

\* readPacket takes the second one: the packet leaves the stream.
LEMMA BodyRead ==
  ASSUME TypeOK, Mid, ~Mid', inbox # <<>>, inbox' = Tail(inbox), down' = down
  PROVE  Taken
<1>1. /\ Len(inbox) \in Nat /\ Len(inbox) > 0 /\ Len(down) \in Nat /\ Len(inbox') = Len(inbox) - 1
      /\ \A k \in 1..Len(inbox') : inbox'[k] = inbox[k + 1]
  BY Lens, TailOf
<1>2. Offset = 1 /\ Offset' = 0
  BY DEF Offset
<1>3. StreamLen' = StreamLen - 2 /\ StreamLen \in Nat /\ StreamLen >= 2
  BY <1>1, <1>2 DEF StreamLen
<1>4. ASSUME NEW k \in 1..StreamLen' PROVE At(k)' = At(k + 2)
  <2>1. k \in Int /\ k >= 1 /\ k <= Len(inbox) - 1 + Len(down)
    BY <1>1, <1>2, <1>4 DEF StreamLen
  <2>2. CASE k <= Len(inbox')
    <3>1. At(k)' = inbox'[k] /\ At(k + 2) = inbox[k + 1]
      BY <1>1, <1>2, <2>1, <2>2 DEF At
    <3> QED BY <1>1, <2>1, <2>2, <3>1
  <2>3. CASE ~(k <= Len(inbox'))
    BY <1>1, <1>2, <2>1, <2>3 DEF At
  <2> QED BY <2>2, <2>3
<1>5. QED BY <1>3, <1>4 DEF Taken

\* A step that leaves unread and under way alone leaves the stream alone.
LEMMA Untouched ==
  ASSUME TypeOK, inbox' = inbox, down' = down, Mid' = Mid, Mid => partial' = partial
  PROVE  Kept
<1>1. Offset' = Offset /\ StreamLen' = StreamLen /\ Offset \in {0, 1}
        /\ (Offset = 1 => partial' = partial)
  BY DEF Offset, StreamLen
<1>2. ASSUME NEW k \in 1..StreamLen PROVE At(k)' = At(k)
  BY <1>1, Lens DEF At
<1>3. QED BY <1>1, <1>2 DEF Kept

\* Delivery moves a unit within the stream.
LEMMA Delivered ==
  ASSUME TypeOK, down # <<>>, inbox' = Append(inbox, Head(down)), down' = Tail(down),
         call' = call, partial' = partial
  PROVE  Kept
<1>1. /\ Len(inbox) \in Nat /\ Len(down) \in Nat /\ Len(down) > 0 /\ Offset' = Offset
        /\ Offset \in {0, 1}
      /\ Len(down') = Len(down) - 1 /\ \A k \in 1..Len(down') : down'[k] = down[k + 1]
      /\ Head(down) = down[1]
  BY Lens, TailOf DEF Offset, Mid
<1>2. /\ Len(inbox') = Len(inbox) + 1 /\ inbox'[Len(inbox) + 1] = down[1]
      /\ \A k \in 1..Len(inbox) : inbox'[k] = inbox[k]
  BY <1>1, Lens
<1>3. StreamLen' = StreamLen /\ StreamLen \in Nat
  BY <1>1, <1>2 DEF StreamLen
<1>4. ASSUME NEW k \in 1..StreamLen PROVE At(k)' = At(k)
  <2>1. k \in Int /\ k >= 1 /\ k <= Offset + Len(inbox) + Len(down)
    BY <1>1, <1>4 DEF StreamLen
  <2>2. CASE k <= Offset + Len(inbox)
    BY <1>1, <1>2, <2>1, <2>2 DEF At
  <2>3. CASE k = Offset + Len(inbox) + 1
    BY <1>1, <1>2, <2>1, <2>3 DEF At
  <2>4. CASE k > Offset + Len(inbox) + 1
    <3>1. At(k) = down[k - Offset - Len(inbox)] /\ At(k)' = down'[k - Offset - Len(inbox) - 1]
      BY <1>1, <1>2, <2>1, <2>4 DEF At
    <3>2. k - Offset - Len(inbox) - 1 \in 1..Len(down')
      BY <1>1, <2>1, <2>4
    <3> QED BY <1>1, <2>1, <3>1, <3>2
  <2> QED BY <1>1, <2>1, <2>2, <2>3, <2>4
<1>5. QED BY <1>3, <1>4 DEF Kept

\* The broker writes a packet at the end of the stream.
LEMMA PairSent ==
  ASSUME TypeOK, NEW p \in ToClient, Len(down) + 2 <= MaxUnits, down' = down \o Units(p),
         inbox' = inbox, call' = call, partial' = partial
  PROVE  Added(p)
<1>1. /\ Len(inbox) \in Nat /\ Len(down) \in Nat /\ Offset' = Offset /\ Offset \in {0, 1}
  BY Lens DEF Offset, Mid
<1>2. /\ Len(down') = Len(down) + 2 /\ \A k \in 1..Len(down) : down'[k] = down[k]
      /\ down'[Len(down) + 1] = [pkt |-> p, part |-> 1]
      /\ down'[Len(down) + 2] = [pkt |-> p, part |-> 2]
  BY Paired
<1>3. StreamLen' = StreamLen + 2 /\ StreamLen \in Nat
  BY <1>1, <1>2 DEF StreamLen
<1>4. ASSUME NEW k \in 1..StreamLen PROVE At(k)' = At(k)
  BY <1>1, <1>2, <1>3, <1>4 DEF At, StreamLen
<1>5. ASSUME NEW k \in 1..StreamLen', k = StreamLen + 1 PROVE At(k)' = [pkt |-> p, part |-> 1]
  <2>1. k - Offset - Len(inbox) = Len(down) + 1
    BY <1>1, <1>5 DEF StreamLen
  <2> QED BY <1>1, <1>2, <1>5, <2>1 DEF At, StreamLen
<1>6. ASSUME NEW k \in 1..StreamLen', k = StreamLen + 2 PROVE At(k)' = [pkt |-> p, part |-> 2]
  <2>1. k - Offset - Len(inbox) = Len(down) + 2
    BY <1>1, <1>6 DEF StreamLen
  <2> QED BY <1>1, <1>2, <1>6, <2>1 DEF At, StreamLen
<1>7. QED BY <1>3, <1>4, <1>5, <1>6 DEF Added

\* What is under way is lost; what was received stays readable.
LEMMA DownLost ==
  ASSUME TypeOK, down' = <<>>, inbox' = inbox, call' = call, partial' = partial, ~Intact'
  PROVE  Lost
<1>1. /\ Len(inbox) \in Nat /\ Len(down) \in Nat /\ Offset' = Offset /\ Offset \in {0, 1}
        /\ Len(down') = 0
  BY Lens DEF Offset, Mid
<1>2. StreamLen' = Offset + Len(inbox) /\ StreamLen' <= StreamLen
  BY <1>1 DEF StreamLen
<1>3. ASSUME NEW k \in 1..StreamLen' PROVE At(k)' = At(k)
  BY <1>1, <1>2, <1>3 DEF At
<1>4. QED BY <1>2, <1>3 DEF Lost

\* The socket is closed, and the stream with it.
LEMMA Gone ==
  ASSUME inbox' = <<>>, down' = <<>>, ~Mid'
  PROVE  Emptied
BY DEF Emptied, StreamLen, Offset

\* A stream left alone stays cut into packets.
LEMMA KeptInPairs ==
  ASSUME TypeOK, InPairs, Kept, Intact' => Intact
  PROVE  InPairs'
<1>1. StreamLen \in Nat BY Lens
<1>2. QED BY <1>1 DEF InPairs, Kept

\* ... so does one that loses its first packet,
LEMMA TakenInPairs ==
  ASSUME TypeOK, InPairs, Taken, Intact' => Intact
  PROVE  InPairs'
<1>1. StreamLen \in Nat /\ StreamLen >= 2 /\ StreamLen' = StreamLen - 2
  BY Lens DEF Taken
<1>2. ASSUME NEW k \in 1..StreamLen'
      PROVE  k + 2 \in 1..StreamLen /\ (k + 2) % 2 = k % 2 /\ k \in Int
  BY <1>1
<1>3. \A k \in 1..StreamLen' : At(k)'.part = IF k % 2 = 1 THEN 1 ELSE 2
  BY <1>2 DEF InPairs, Taken
<1>4. ASSUME NEW k \in 1..StreamLen', k % 2 = 1, k < StreamLen' PROVE At(k + 1)'.pkt = At(k)'.pkt
  <2>1. k + 1 \in 1..StreamLen' /\ k \in Int /\ (k + 1) + 2 = (k + 2) + 1 /\ k + 2 < StreamLen
    BY <1>1, <1>4
  <2>2. At(k)' = At(k + 2)
    BY DEF Taken
  <2>3. \A j \in 1..StreamLen' : At(j)' = At(j + 2)
    BY DEF Taken
  <2>4. At(k + 1)' = At((k + 1) + 2)
    BY <2>1, <2>3
  <2>5. At((k + 2) + 1).pkt = At(k + 2).pkt
    BY <1>2, <1>4, <2>1 DEF InPairs
  <2> QED BY <2>1, <2>2, <2>4, <2>5
<1>5. Intact' => StreamLen' % 2 = 0
  BY <1>1 DEF InPairs
<1>6. QED BY <1>3, <1>4, <1>5 DEF InPairs

\* ... one that gets a packet at its end,
LEMMA AddedInPairs ==
  ASSUME TypeOK, InPairs, NEW p \in ToClient, Added(p), Intact
  PROVE  InPairs'
<1>1. StreamLen \in Nat /\ StreamLen' = StreamLen + 2 /\ StreamLen % 2 = 0
  BY Lens DEF Added, InPairs
<1>2. ASSUME NEW k \in 1..StreamLen'
      PROVE  k \in 1..StreamLen \/ k = StreamLen + 1 \/ k = StreamLen + 2
  BY <1>1
<1>3. (StreamLen + 1) % 2 = 1 /\ (StreamLen + 2) % 2 = 0
  BY <1>1
<1>4. ASSUME NEW k \in 1..StreamLen' PROVE At(k)'.part = IF k % 2 = 1 THEN 1 ELSE 2
  BY <1>1, <1>2, <1>3 DEF InPairs, Added
<1>5. ASSUME NEW k \in 1..StreamLen', k % 2 = 1, k < StreamLen' PROVE At(k + 1)'.pkt = At(k)'.pkt
  <2>1. k + 1 \in 1..StreamLen'
    BY <1>1, <1>5
  <2>2. CASE k \in 1..StreamLen
    <3>1. k < StreamLen /\ k + 1 \in 1..StreamLen
      BY <1>1, <1>5, <2>2
    <3>2. At(k)' = At(k) /\ At(k + 1)' = At(k + 1)
      BY <2>2, <3>1 DEF Added
    <3> QED BY <1>5, <2>2, <3>1, <3>2 DEF InPairs
  <2>3. CASE k = StreamLen + 1
    <3>1. At(k)' = [pkt |-> p, part |-> 1]
      BY <2>3 DEF Added
    <3>2. \A j \in 1..StreamLen' : j = StreamLen + 2 => At(j)' = [pkt |-> p, part |-> 2]
      BY DEF Added
    <3>3. k + 1 = StreamLen + 2
      BY <1>1, <2>3
    <3>4. At(k + 1)' = [pkt |-> p, part |-> 2]
      BY <2>1, <3>2, <3>3
    <3> QED BY <3>1, <3>4
  <2> QED BY <1>1, <1>2, <1>3, <1>5, <2>2, <2>3
<1>6. StreamLen' % 2 = 0
  BY <1>1, <1>3
<1>7. QED BY <1>4, <1>5, <1>6 DEF InPairs

\* ... one that loses its tail on a lost connection,
LEMMA LostInPairs ==
  ASSUME TypeOK, InPairs, Lost, StreamLen' \in Nat
  PROVE  InPairs'
<1>1. StreamLen \in Nat
  BY Lens
<1>2. ASSUME NEW k \in 1..StreamLen' PROVE k \in 1..StreamLen /\ At(k)' = At(k)
  BY <1>1 DEF Lost
<1>3. ASSUME NEW k \in 1..StreamLen', k % 2 = 1, k < StreamLen' PROVE At(k + 1)'.pkt = At(k)'.pkt
  <2>1. k + 1 \in 1..StreamLen' /\ k < StreamLen
    BY <1>1, <1>3 DEF Lost
  <2>2. \A j \in 1..StreamLen' : At(j)' = At(j)
    BY DEF Lost
  <2>3. At(k + 1)' = At(k + 1)
    BY <2>1, <2>2
  <2> QED BY <1>2, <1>3, <2>1, <2>2, <2>3 DEF InPairs
<1>4. QED BY <1>2, <1>3 DEF InPairs, Lost

\* ... and an empty one.
LEMMA EmptiedInPairs ==
  ASSUME Emptied
  PROVE  InPairs'
BY DEF Emptied, InPairs

-----------------------------------------------------------------------------
(* The pings under way                                                     *)
-----------------------------------------------------------------------------
\* The packets on their way to the broker.
LEMMA Ups ==
  ASSUME TypeOK
  PROVE  up \in Seq(ToBroker) /\ Len(up) \in Nat /\ (up # <<>> <=> Len(up) > 0)
BY DEF TypeOK, Streams

\* One packet more on its way up.
LEMMA Appended ==
  ASSUME TypeOK, NEW p \in ToBroker, up' = Append(up, p)
  PROVE  /\ Len(up') = Len(up) + 1 /\ up'[Len(up) + 1] = p
         /\ \A i \in 1..Len(up) : up'[i] = up[i]
BY Ups

\* One packet less.
LEMMA Popped ==
  ASSUME TypeOK, up # <<>>, up' = Tail(up)
  PROVE  /\ Len(up') = Len(up) - 1 /\ Head(up) = up[1] /\ Head(up) \in ToBroker
         /\ \A i \in 1..Len(up') : up'[i] = up[i + 1]
BY Ups, TailOf

\* No packet on its way up changes: neither do the requests.
LEMMA AskedSame ==
  ASSUME up' = up
  PROVE  (NoneAsked => NoneAsked') /\ \A i \in 1..Len(up) : OnlyAsked(i) => OnlyAsked(i)'
BY DEF NoneAsked, OnlyAsked, Asked

\* A packet that is not PINGREQ adds no request.
LEMMA AskedWrite ==
  ASSUME TypeOK, NEW p \in ToBroker, p.type # "PINGREQ", up' = Append(up, p)
  PROVE  (NoneAsked => NoneAsked') /\ \A i \in 1..Len(up) : OnlyAsked(i) => OnlyAsked(i)'
         /\ i \in 1..Len(up')
<1>1. /\ Len(up) \in Nat /\ Len(up') = Len(up) + 1 /\ up'[Len(up) + 1] = p
      /\ \A i \in 1..Len(up) : up'[i] = up[i]
  BY Ups, Appended
<1>2. ASSUME NEW j \in 1..Len(up') PROVE Asked(j)' => j \in 1..Len(up) /\ Asked(j)
  BY <1>1 DEF Asked
<1>3. NoneAsked => NoneAsked'
  BY <1>2 DEF NoneAsked
<1>4. ASSUME NEW i \in 1..Len(up), OnlyAsked(i) PROVE OnlyAsked(i)' /\ i \in 1..Len(up')
  <2>1. i \in 1..Len(up') /\ Asked(i)'
    BY <1>1, <1>4 DEF OnlyAsked, Asked
  <2> QED BY <1>2, <1>4, <2>1 DEF OnlyAsked
<1>5. QED BY <1>3, <1>4

\* PINGREQ is the only request where there was none.
LEMMA AskedPing ==
  ASSUME TypeOK, NoneAsked, up' = Append(up, [type |-> "PINGREQ"])
  PROVE  Len(up) + 1 \in 1..Len(up') /\ \E i \in 1..Len(up') : OnlyAsked(i)'
<1>1. /\ Len(up) \in Nat /\ Len(up') = Len(up) + 1 /\ up'[Len(up) + 1] = [type |-> "PINGREQ"]
      /\ \A i \in 1..Len(up) : up'[i] = up[i]
  BY Ups, Appended, Packets
<1>2. \A j \in 1..Len(up') : Asked(j)' => j = Len(up) + 1
  BY <1>1 DEF Asked, NoneAsked
<1>3. PICK i \in 1..Len(up') : i = Len(up) + 1
  BY <1>1
<1>4. Asked(i)'
  BY <1>1, <1>3 DEF Asked
<1>5. OnlyAsked(i)'
  BY <1>2, <1>3, <1>4 DEF OnlyAsked
<1>6. QED BY <1>1, <1>5

\* The broker takes a packet: the request, if it is one.
LEMMA AskedPop ==
  ASSUME TypeOK, up # <<>>, up' = Tail(up)
  PROVE  /\ NoneAsked => NoneAsked' /\ Head(up).type # "PINGREQ"
         /\ \A i \in 1..Len(up) : OnlyAsked(i) =>
              IF Head(up).type = "PINGREQ" THEN NoneAsked' ELSE \E j \in 1..Len(up') : OnlyAsked(j)'
<1>1. /\ Len(up) \in Nat /\ Len(up) > 0 /\ Len(up') = Len(up) - 1 /\ Head(up) = up[1]
      /\ \A i \in 1..Len(up') : up'[i] = up[i + 1]
  BY Ups, Popped
<1>2. ASSUME NEW j \in 1..Len(up')
      PROVE  j + 1 \in 1..Len(up) /\ j \in Int /\ (Asked(j)' <=> Asked(j + 1))
  BY <1>1 DEF Asked
<1>3. NoneAsked => NoneAsked' /\ Head(up).type # "PINGREQ"
  BY <1>1, <1>2 DEF NoneAsked, Asked
<1>4. ASSUME NEW i \in 1..Len(up), OnlyAsked(i), Head(up).type = "PINGREQ" PROVE NoneAsked'
  <2>1. i = 1
    BY <1>1, <1>4 DEF OnlyAsked, Asked
  <2>2. \A j \in 1..Len(up') : ~Asked(j)'
    BY <1>2, <1>4, <2>1 DEF OnlyAsked
  <2> QED BY <2>2 DEF NoneAsked
<1>5. ASSUME NEW i \in 1..Len(up), OnlyAsked(i), Head(up).type # "PINGREQ"
      PROVE  \E j \in 1..Len(up') : OnlyAsked(j)'
  <2>1. i # 1 /\ i \in Int
    BY <1>1, <1>5 DEF OnlyAsked, Asked
  <2>2. PICK j \in 1..Len(up') : j + 1 = i /\ j \in Int
    BY <1>1, <2>1
  <2>3. Asked(j)'
    BY <1>2, <1>5, <2>2 DEF OnlyAsked
  <2>4. ASSUME NEW l \in 1..Len(up'), Asked(l)' PROVE l = j
    <3>1. l + 1 \in 1..Len(up) /\ l \in Int /\ Asked(l + 1)
      BY <1>2, <2>4
    <3>2. l + 1 = i
      BY <1>5, <3>1 DEF OnlyAsked
    <3> QED BY <2>2, <3>1, <3>2
  <2> QED BY <2>3, <2>4 DEF OnlyAsked
<1>6. QED BY <1>3, <1>4, <1>5

\* The stream left alone keeps its answers.
LEMMA AnsweredKept ==
  ASSUME TypeOK, Kept
  PROVE  (NoneAnswered => NoneAnswered') /\ \A k \in 1..StreamLen : OnlyAnswered(k)
         => OnlyAnswered(k)'
<1>1. StreamLen' = StreamLen /\ \A k \in 1..StreamLen : Answered(k)' <=> Answered(k)
  BY DEF Kept, Answered
<1>2. QED BY <1>1 DEF NoneAnswered, OnlyAnswered

\* A packet that is not PINGRESP adds no answer.
LEMMA AnsweredOther ==
  ASSUME TypeOK, NEW p \in ToClient, p.type # "PINGRESP", Added(p)
  PROVE  (NoneAnswered => NoneAnswered') /\ \A k \in 1..StreamLen : OnlyAnswered(k)
         => OnlyAnswered(k)' /\ k \in 1..StreamLen'
<1>1. StreamLen \in Nat /\ StreamLen' = StreamLen + 2
  BY Lens DEF Added
<1>2. ASSUME NEW k \in 1..StreamLen PROVE k \in 1..StreamLen' /\ (Answered(k)' <=> Answered(k))
  BY <1>1 DEF Added, Answered
<1>3. ASSUME NEW k \in 1..StreamLen', Answered(k)' PROVE k \in 1..StreamLen
  <2>1. k \in 1..StreamLen \/ k = StreamLen + 1 \/ k = StreamLen + 2
    BY <1>1
  <2>2. k \in 1..StreamLen \/ At(k)'.pkt = p
    BY <2>1 DEF Added
  <2> QED BY <1>3, <2>2 DEF Answered
<1>4. NoneAnswered => NoneAnswered'
  BY <1>2, <1>3 DEF NoneAnswered
<1>5. ASSUME NEW k \in 1..StreamLen, OnlyAnswered(k) PROVE OnlyAnswered(k)' /\ k \in 1..StreamLen'
  BY <1>2, <1>3, <1>5 DEF OnlyAnswered
<1>6. QED BY <1>4, <1>5

\* PINGRESP is the only answer where there was none.
LEMMA AnsweredPing ==
  ASSUME TypeOK, NoneAnswered, Added([type |-> "PINGRESP"]), StreamLen % 2 = 0
  PROVE  \E k \in 1..StreamLen' : OnlyAnswered(k)'
<1>1. StreamLen \in Nat /\ StreamLen' = StreamLen + 2
  BY Lens DEF Added
<1>2. ASSUME NEW k \in 1..StreamLen PROVE ~Answered(k)'
  BY <1>1 DEF Added, Answered, NoneAnswered
<1>3. PICK k \in 1..StreamLen' : k = StreamLen + 2 /\ k % 2 = 0
  BY <1>1
<1>4. At(k)' = [pkt |-> [type |-> "PINGRESP"], part |-> 2]
  BY <1>3 DEF Added
<1>5. Answered(k)'
  BY <1>3, <1>4 DEF Answered
<1>6. ASSUME NEW l \in 1..StreamLen', Answered(l)' PROVE l = k
  <2>1. l % 2 = 0
    BY <1>6 DEF Answered
  <2>2. l # StreamLen + 1
    BY <1>1, <2>1
  <2> QED BY <1>1, <1>2, <1>3, <1>6, <2>2
<1>7. QED BY <1>5, <1>6 DEF OnlyAnswered

\* loop() takes a packet: the answer, if it is one.
LEMMA AnsweredTaken ==
  ASSUME TypeOK, InPairs, Taken
  PROVE  /\ NoneAnswered => NoneAnswered' /\ At(1).pkt.type # "PINGRESP"
         /\ \A k \in 1..StreamLen : OnlyAnswered(k) =>
              IF At(1).pkt.type = "PINGRESP" THEN NoneAnswered'
              ELSE \E l \in 1..StreamLen' : OnlyAnswered(l)'
<1>1. StreamLen \in Nat /\ StreamLen >= 2 /\ StreamLen' = StreamLen - 2
  BY Lens DEF Taken
<1>2. ASSUME NEW k \in 1..StreamLen'
      PROVE  k + 2 \in 1..StreamLen /\ k \in Int /\ (Answered(k)' <=> Answered(k + 2))
  <2>1. k + 2 \in 1..StreamLen /\ k \in Int /\ (k + 2) % 2 = k % 2
    BY <1>1
  <2> QED BY <2>1 DEF Answered, Taken
<1>3. 1 \in 1..StreamLen /\ 2 \in 1..StreamLen /\ 1 + 1 = 2 /\ 1 % 2 = 1 /\ 1 < StreamLen
  BY <1>1
<1>4. At(1 + 1).pkt = At(1).pkt
  BY <1>3 DEF InPairs
<1>5. Answered(2) <=> At(1).pkt.type = "PINGRESP"
  BY <1>3, <1>4 DEF Answered
<1>6. NoneAnswered => NoneAnswered' /\ At(1).pkt.type # "PINGRESP"
  BY <1>2, <1>3, <1>5 DEF NoneAnswered
<1>7. ASSUME NEW k \in 1..StreamLen, OnlyAnswered(k), At(1).pkt.type = "PINGRESP"
      PROVE  NoneAnswered'
  <2>1. k = 2
    BY <1>3, <1>5, <1>7 DEF OnlyAnswered
  <2>2. \A j \in 1..StreamLen' : ~Answered(j)'
    BY <1>2, <1>7, <2>1 DEF OnlyAnswered
  <2> QED BY <2>2 DEF NoneAnswered
<1>8. ASSUME NEW k \in 1..StreamLen, OnlyAnswered(k), At(1).pkt.type # "PINGRESP"
      PROVE  \E l \in 1..StreamLen' : OnlyAnswered(l)'
  <2>1. k # 2 /\ k # 1 /\ k \in Int
    BY <1>3, <1>5, <1>8 DEF OnlyAnswered, Answered
  <2>2. PICK l \in 1..StreamLen' : l + 2 = k /\ l \in Int
    BY <1>1, <2>1
  <2>3. Answered(l)'
    BY <1>2, <1>8, <2>2 DEF OnlyAnswered
  <2>4. ASSUME NEW j \in 1..StreamLen', Answered(j)' PROVE j = l
    <3>1. j + 2 \in 1..StreamLen /\ j \in Int /\ Answered(j + 2)
      BY <1>2, <2>4
    <3>2. j + 2 = k
      BY <1>8, <3>1 DEF OnlyAnswered
    <3> QED BY <2>2, <3>1, <3>2
  <2> QED BY <2>3, <2>4 DEF OnlyAnswered
<1>9. QED BY <1>6, <1>7, <1>8

\* What is lost was no answer if there was none.
LEMMA AnsweredLess ==
  ASSUME TypeOK, NoneAnswered, Lost \/ Emptied, StreamLen' \in Nat
  PROVE  NoneAnswered'
<1>1. CASE Emptied
  BY <1>1 DEF Emptied, NoneAnswered
<1>2. CASE Lost
  <2>1. StreamLen \in Nat /\ StreamLen' <= StreamLen
    BY <1>2, Lens DEF Lost
  <2>2. \A k \in 1..StreamLen' : k \in 1..StreamLen /\ At(k)' = At(k)
    BY <1>2, <2>1 DEF Lost
  <2> QED BY <2>2 DEF NoneAnswered, Answered
<1>3. QED BY <1>1, <1>2

-----------------------------------------------------------------------------
(* InStep, action by action                                                *)
-----------------------------------------------------------------------------
\* No step on either way: the pings under way stay.
LEMMA PingsSame ==
  ASSUME TypeOK, up' = up, Kept
  PROVE  (NoPing => NoPing') /\ (OnePing => OnePing')
<1>1. StreamLen' = StreamLen BY DEF Kept
<1>2. QED BY <1>1, AskedSame, AnsweredKept DEF NoPing, OnePing

\* Nor does a packet that is not PINGREQ change them.
LEMMA PingsWrite ==
  ASSUME TypeOK, NEW p \in ToBroker, p.type # "PINGREQ", up' \in {up, Append(up, p)}, Kept
  PROVE  (NoPing => NoPing') /\ (OnePing => OnePing')
<1>1. StreamLen' = StreamLen BY DEF Kept
<1>2. CASE up' = up
  BY <1>2, PingsSame
<1>3. CASE up' = Append(up, p)
  BY <1>1, <1>3, AskedWrite, AnsweredKept DEF NoPing, OnePing
<1>4. QED BY <1>2, <1>3

\* Reading PINGRESP ends the ping under way, reading anything else does not.
LEMMA PingsTaken ==
  ASSUME TypeOK, InPairs, Taken, NEW p \in ToBroker, p.type # "PINGREQ",
         up' \in {up, Append(up, p)}
  PROVE  /\ NoPing => NoPing' /\ At(1).pkt.type # "PINGRESP"
         /\ OnePing => IF At(1).pkt.type = "PINGRESP" THEN NoPing' ELSE OnePing'
<1>1. (NoneAsked => NoneAsked') /\ \A i \in 1..Len(up) : OnlyAsked(i) => OnlyAsked(i)'
        /\ i \in 1..Len(up')
  BY AskedSame, AskedWrite
<1>2. QED BY <1>1, AnsweredTaken DEF NoPing, OnePing

\* Nor does a packet of the broker that is not PINGRESP change them.
LEMMA PingsOther ==
  ASSUME TypeOK, NEW p \in ToClient, p.type # "PINGRESP", Added(p), up' = up
  PROVE  (NoPing => NoPing') /\ (OnePing => OnePing')
BY AskedSame, AnsweredOther DEF NoPing, OnePing

\* On a lost connection only the framing is left to show.
LEMMA DeadInStep ==
  ASSUME ~Intact', ~InConnect' \/ NoPing', InPairs', WaitedFor'
  PROVE  InStep'
BY DEF InStep, Accepted, PingTruth

\* A closed socket is in step.
LEMMA ClosedInStep ==
  ASSUME CloseLink, ~Mid'
  PROVE  InStep'
<1>1. Emptied
  BY Gone DEF CloseLink
<1>2. ~Intact' /\ InPairs' /\ WaitedFor'
  BY <1>1, EmptiedInPairs DEF CloseLink, Intact, WaitedFor
<1>3. NoPing'
  BY <1>1 DEF NoPing, NoneAsked, NoneAnswered, CloseLink, Emptied
<1>4. QED BY <1>2, <1>3, DeadInStep

\* A connection that loses what is under way stays in step.
LEMMA CutInStep ==
  ASSUME TypeOK, TypeOK', InStep, ~Intact', up' = <<>>, down' = <<>>, inbox' = inbox,
         call' = call, partial' = partial
  PROVE  InStep'
<1>1. Lost
  BY DownLost
<1>2. StreamLen' \in Nat
  BY DEF TypeOK, Streams, StreamLen, Offset
<1>3. InPairs' /\ WaitedFor'
  BY <1>1, <1>2, LostInPairs DEF InStep, WaitedFor
<1>4. InConnect' => NoPing'
  <2>1. NoneAsked'
    BY DEF NoneAsked
  <2>2. InConnect' => InConnect /\ NoneAnswered
    BY DEF InStep, PingTruth, NoPing, InConnect
  <2> QED BY <1>1, <1>2, <2>1, <2>2, AnsweredLess DEF NoPing
<1>5. QED BY <1>3, <1>4, DeadInStep

\* A step that touches neither the connection nor the client stays in step.
LEMMA SameInStep ==
  ASSUME TypeOK, InStep, WaitedFor',
         UNCHANGED <<sock, open, cut, inbox, down, up, session, state, pingOutstanding, call,
                     partial>>
  PROVE  InStep'
<1>1. Kept /\ (Intact' <=> Intact)
  BY Untouched DEF Mid, Intact
<1>2. InPairs'
  BY <1>1, KeptInPairs DEF InStep
<1>3. Accepted'
  BY <1>1 DEF InStep, Accepted, Kept
<1>4. PingTruth'
  BY <1>1, PingsSame DEF InStep, PingTruth, InConnect
<1>5. QED BY <1>2, <1>3, <1>4 DEF InStep

\* connect() is entered: connected already, or from no socket.
LEMMA CallConnectInStep ==
  ASSUME Sound, InStep, CallConnect
  PROVE  InStep'
<1> USE DEF Sound
<1>1. CASE Connected
  <2>1. UNCHANGED <<link, peer, state, call, partial, waitAge, pingOutstanding>>
    BY <1>1 DEF CallConnect
  <2> QED BY <2>1, SameInStep DEF link, peer, InStep, WaitedFor, Mid
<1>2. CASE ~Connected
  <2>1. CloseLink /\ call' = "tcp"
    BY <1>2 DEF SocketKept, InConnect, CallConnect, Connected, TcpConnected, NoteLoss
  <2> QED BY <2>1, ClosedInStep DEF Mid
<1>3. QED BY <1>1, <1>2

\* CONNECT starts a connection without pings, packets or session.
LEMMA TcpUpInStep ==
  ASSUME Sound, InStep, TcpUp
  PROVE  InStep'
<1> USE DEF Sound
<1>1. /\ inbox' = <<>> /\ down' = <<>> /\ up' = Append(<<>>, [type |-> "CONNECT"])
        /\ call' = "connack"
      /\ state' # "CONNECTED"
  BY DEF TcpUp, SendConnect, LinkKept, SocketKept, InConnect, Intact
<1>2. Emptied /\ ~Mid'
  BY <1>1, Gone DEF Mid
<1>3. InPairs' /\ WaitedFor' /\ Accepted'
  BY <1>1, <1>2, EmptiedInPairs DEF WaitedFor, Accepted, Emptied
<1>4. NoPing'
  BY <1>1, <1>2 DEF NoPing, NoneAsked, Asked, NoneAnswered, Emptied
<1>5. QED BY <1>1, <1>3, <1>4 DEF InStep, PingTruth

\* There is no TCP connection.
LEMMA TcpFailInStep ==
  ASSUME Sound, InStep, TcpFail
  PROVE  InStep'
<1> USE DEF Sound
<1>1. ~Intact' /\ ~InConnect' /\ ~Mid' /\ ~Mid /\ inbox' = inbox /\ down' = down /\ ~Intact
  BY DEF TcpFail, Return, SocketKept, Intact, InConnect, Mid, link
<1>2. Mid' = Mid
  BY DEF TcpFail, Return, Mid
<1>3. InPairs' /\ WaitedFor'
  BY <1>1, <1>2, Untouched, KeptInPairs DEF InStep, WaitedFor
<1>4. QED BY <1>1, <1>3, DeadInStep

\* connect() reads the first bytes of the answer.
LEMMA ConnackHeadInStep ==
  ASSUME Sound, InStep, ConnackHead
  PROVE  InStep'
<1> USE DEF Sound
<1>1. Kept
  BY HeadRead DEF ConnackHead, Mid
<1>2. (Intact' <=> Intact) /\ InConnect /\ UNCHANGED <<up, state, session>> /\ waitAge' = 0
        /\ downAge' = downAge /\ state # "CONNECTED"
  BY DEF ConnackHead, Intact, InConnect, peer, SocketKept
<1>3. InPairs'
  BY <1>1, <1>2, KeptInPairs DEF InStep
<1>4. WaitedFor'
  BY <1>2, Zeroes DEF WaitedFor, TypeOK, Times
<1>5. Accepted'
  BY <1>1, <1>2 DEF InStep, Accepted, Kept
<1>6. PingTruth'
  BY <1>1, <1>2, PingsSame DEF InStep, PingTruth
<1>7. QED BY <1>3, <1>4, <1>5, <1>6 DEF InStep

\* connect() gives up waiting.
LEMMA ConnackTimeoutInStep ==
  ASSUME Sound, InStep, ConnackTimeout
  PROVE  InStep'
BY ClosedInStep DEF ConnackTimeout, Return, Mid, Sound

\* The unit readPacket holds is the first of the stream.
LEMMA FirstIsPartial ==
  ASSUME TypeOK, Mid
  PROVE  At(1) = partial /\ 1 \in 1..StreamLen
BY Lens DEF At, Offset, StreamLen

\* Return code 0 comes from a session, and pingOutstanding starts again with it.
LEMMA ConnackBodyInStep ==
  ASSUME Sound, InStep, ConnackBody
  PROVE  InStep'
<1> USE DEF Sound
<1>1. CASE ~(partial.pkt.type = "CONNACK" /\ partial.pkt.code = 0)
  <2>1. CloseLink /\ ~Mid'
    BY <1>1 DEF ConnackBody, Return, Mid
  <2> QED BY <2>1, ClosedInStep
<1>2. CASE partial.pkt.type = "CONNACK" /\ partial.pkt.code = 0
  <2>1. /\ Mid /\ inbox # <<>> /\ inbox' = Tail(inbox) /\ call' = "idle" /\ InConnect
        /\ pingOutstanding' = FALSE /\ UNCHANGED <<sock, open, cut, down, up, session>>
    BY <1>2 DEF ConnackBody, Return, Mid, InConnect, peer
  <2>2. ~Mid' /\ ~InConnect' /\ (Intact' <=> Intact)
    BY <2>1 DEF Mid, InConnect, Intact
  <2>3. Taken
    BY <2>1, <2>2, BodyRead
  <2>4. InPairs' /\ WaitedFor'
    BY <2>2, <2>3, TakenInPairs DEF InStep, WaitedFor
  <2>5. Intact => session
    BY <1>2, <2>1, FirstIsPartial DEF InStep, Accepted, Refusal
  <2>6. Accepted'
    BY <2>1, <2>2, <2>5 DEF Accepted
  <2>7. NoPing'
    BY <2>1, <2>3, PingsTaken, Packets DEF InStep, PingTruth
  <2> QED BY <2>1, <2>2, <2>4, <2>6, <2>7 DEF InStep, PingTruth
<1>3. QED BY <1>1, <1>2

\* connect() gives up in the middle of the answer.
LEMMA ConnackBodyTimeoutInStep ==
  ASSUME Sound, InStep, ConnackBodyTimeout
  PROVE  InStep'
BY ClosedInStep DEF ConnackBodyTimeout, Return, Mid, Sound

\* loop() finds the connection lost.
LEMMA LoopNotConnectedInStep ==
  ASSUME Sound, InStep, LoopNotConnected
  PROVE  InStep'
<1> USE DEF Sound
<1>1. CloseLink /\ ~Mid'
  BY DEF LoopNotConnected, Connected, TcpConnected, NoteLoss, SocketKept, InConnect, Mid
<1>2. QED BY <1>1, ClosedInStep

\* loop() gives up for want of PINGRESP.
LEMMA LoopPingTimeoutInStep ==
  ASSUME Sound, InStep, LoopPingTimeout
  PROVE  InStep'
BY ClosedInStep DEF LoopPingTimeout, Mid, Sound

\* A ping goes out only when none is under way.
LEMMA LoopRunInStep ==
  ASSUME Sound, InStep, LoopRun
  PROVE  InStep'
<1> USE DEF Sound
<1>1. /\ ~Mid /\ ~InConnect /\ state = "CONNECTED" /\ waitAge' = 0
      /\ UNCHANGED <<sock, open, cut, down, downAge, session, state>>
  BY DEF LoopRun, Connected, Mid, InConnect, peer
<1>2. Kept /\ ~InConnect'
  <2>1. CASE inbox # <<>>
    <3>1. inbox' = Tail(inbox) /\ partial' = Head(inbox) /\ call' = "loopBody"
      BY <2>1 DEF LoopRun
    <3> QED BY <1>1, <2>1, <3>1, HeadRead DEF Mid, InConnect
  <2>2. CASE inbox = <<>>
    <3>1. UNCHANGED <<inbox, partial, call>>
      BY <2>2 DEF LoopRun
    <3> QED BY <1>1, <3>1, Untouched DEF Mid, InConnect
  <2> QED BY <2>1, <2>2
<1>3. InPairs' /\ WaitedFor' /\ Accepted'
  <2>1. Intact' <=> Intact
    BY <1>1 DEF Intact
  <2>2. downAge \in Nat
    BY Zeroes DEF TypeOK, Times
  <2> QED BY <1>1, <1>2, <2>1, <2>2, KeptInPairs DEF InStep, WaitedFor, Accepted, Kept
<1>4. ASSUME Intact' PROVE IF pingOutstanding' THEN OnePing' ELSE NoPing'
  <2>1. Intact
    BY <1>1, <1>4 DEF Intact
  <2>2. CASE PingDue
    <3>1. ~pingOutstanding /\ pingOutstanding' /\ up' = Append(up, [type |-> "PINGREQ"])
      BY <2>1, <2>2 DEF LoopRun, Sent, Intact
    <3>2. NoneAsked /\ NoneAnswered
      BY <1>1, <2>1, <3>1 DEF InStep, PingTruth, NoPing
    <3>3. NoneAnswered' /\ \E i \in 1..Len(up') : OnlyAsked(i)'
      BY <1>2, <3>1, <3>2, AskedPing, AnsweredKept
    <3> QED BY <3>1, <3>3 DEF OnePing
  <2>3. CASE ~PingDue
    <3>1. pingOutstanding' = pingOutstanding /\ up' = up
      BY <2>3 DEF LoopRun
    <3> QED BY <1>1, <1>2, <2>1, <3>1, PingsSame DEF InStep, PingTruth
  <2> QED BY <2>2, <2>3
<1>5. QED BY <1>2, <1>3, <1>4 DEF InStep, PingTruth

\* Reading PINGRESP clears pingOutstanding, and nothing else does.
LEMMA LoopBodyInStep ==
  ASSUME Sound, InStep, LoopBody
  PROVE  InStep'
<1> USE DEF Sound
<1>1. Mid /\ call' = "idle" /\ ~Mid' /\ ~InConnect' /\ ~InConnect /\ inbox # <<>>
  BY DEF LoopBody, Finishes, ReturnConnected, Return, Mid, InConnect
<1>2. CASE CloseLink
  BY <1>1, <1>2, ClosedInStep
<1>3. CASE ~CloseLink
  <2>1. /\ inbox' = Tail(inbox) /\ UNCHANGED <<sock, open, cut, down, session, state>>
    BY <1>3 DEF LoopBody, ReturnConnected, NoteLoss, peer
  <2>2. Taken /\ (Intact' <=> Intact) /\ At(1) = partial /\ StreamLen \in Nat
    BY <1>1, <2>1, BodyRead, FirstIsPartial, Lens DEF Intact
  <2>3. InPairs' /\ WaitedFor'
    BY <1>1, <2>2, TakenInPairs DEF InStep, WaitedFor
  <2>4. Accepted'
    <3>1. \A k \in 1..StreamLen' : k + 2 \in 1..StreamLen /\ At(k)' = At(k + 2)
      BY <2>2 DEF Taken
    <3> QED BY <2>1, <2>2, <3>1 DEF InStep, Accepted
  <2>5. ASSUME Intact PROVE up' \in {up, Append(up, [type |-> "PUBACK"])}
    BY <1>3, <2>5 DEF LoopBody, ReturnConnected, NoteLoss, Answer, Sent, Intact
  <2>6. pingOutstanding' = (pingOutstanding /\ partial.pkt.type # "PINGRESP")
    BY <1>3 DEF LoopBody, PingStillOut, TypeOK, Flags
  <2>7. ASSUME Intact', state' = "CONNECTED" PROVE IF pingOutstanding' THEN OnePing' ELSE NoPing'
    <3>1. Intact /\ state = "CONNECTED" /\ up' \in {up, Append(up, [type |-> "PUBACK"])}
      BY <2>1, <2>2, <2>5, <2>7
    <3>2. IF pingOutstanding THEN OnePing ELSE NoPing
      BY <3>1 DEF InStep, PingTruth
    <3>3. /\ NoPing => NoPing' /\ At(1).pkt.type # "PINGRESP"
          /\ OnePing => IF At(1).pkt.type = "PINGRESP" THEN NoPing' ELSE OnePing'
      BY <2>2, <3>1, PingsTaken, Packets DEF InStep
    <3> QED BY <2>2, <2>6, <3>2, <3>3
  <2> QED BY <1>1, <2>3, <2>4, <2>7 DEF InStep, PingTruth
<1>4. QED BY <1>2, <1>3

\* readByte gives up only on a connection that is lost: on an intact one the rest
\* of the packet is under way, and arrives before the socket timeout has passed.
LEMMA Patient ==
  ASSUME Prompt, TypeOK, LinkKept, InStep, Mid, GivesUp
  PROVE  ~Intact /\ down = <<>>
<1>1. SUFFICES ASSUME Intact PROVE FALSE
  BY <1>1 DEF LinkKept
<1>2. Len(inbox) = 0 /\ Offset = 1 /\ StreamLen = 1 + Len(down) /\ Len(down) \in Nat
  BY Lens DEF GivesUp, StreamLen, Offset
<1>3. StreamLen % 2 = 0
  BY <1>1 DEF InStep, InPairs
<1>4. down # <<>>
  BY <1>2, <1>3, Lens
<1>5. waitAge <= downAge
  BY <1>4 DEF InStep, WaitedFor, GivesUp
<1>6. QED BY <1>5, PubSubAssumption DEF GivesUp, Prompt, TypeOK, Times

\* loop() gives up in the middle of a packet: only on a lost connection, and the
\* rest of that packet will never come.
LEMMA LoopBodyTimeoutInStep ==
  ASSUME Prompt, Sound, InStep, LoopBodyTimeout
  PROVE  InStep'
<1> USE DEF Sound
<1>1. call' = "idle" /\ ~Mid' /\ ~InConnect' /\ Mid /\ inbox = <<>> /\ GivesUp
  BY DEF LoopBodyTimeout, ReturnConnected, Return, Mid, InConnect, GivesUp
<1>2. CASE CloseLink
  BY <1>1, <1>2, ClosedInStep
<1>3. CASE ~CloseLink
  <2>1. inbox' = inbox /\ UNCHANGED <<sock, open, cut, down>>
    BY <1>3 DEF LoopBodyTimeout, ReturnConnected, NoteLoss
  <2>2. ~Intact' /\ Emptied
    BY <1>1, <2>1, Patient, Gone DEF Intact
  <2> QED BY <1>1, <2>2, EmptiedInPairs, DeadInStep DEF WaitedFor
<1>4. QED BY <1>2, <1>3

\* readPacket holds the first unit of a packet.
LEMMA NoGarbage ==
  ASSUME TypeOK, InStep, Mid
  PROVE  InFrame
<1>1. 1 \in 1..StreamLen /\ At(1) = partial /\ 1 % 2 = 1
  BY FirstIsPartial
<1>2. QED BY <1>1 DEF InStep, InPairs, InFrame

\* loop() reads data as a header: it never does.
LEMMA GarbageReadInStep ==
  ASSUME Sound, InStep, GarbageRead
  PROVE  InStep'
BY NoGarbage DEF GarbageRead, Mid, Sound

\* subscribe() and publish() write one packet.
LEMMA WriteInStep ==
  ASSUME Sound, InStep, NEW p \in ToBroker, p.type # "PINGREQ", Write(p)
  PROVE  InStep'
<1> USE DEF Sound
<1>1. /\ ~InConnect /\ ~InConnect' /\ ~Mid /\ ~Mid'
        /\ UNCHANGED <<call, partial, pingOutstanding>>
  BY DEF Write, Mid, InConnect
<1>2. CASE CloseLink
  BY <1>1, <1>2, ClosedInStep
<1>3. CASE ~CloseLink
  <2>1. up' \in {up, Sent(p)} /\ UNCHANGED <<sock, open, cut, inbox, down, session, state>>
    BY <1>3 DEF Write, NoteLoss, link, peer
  <2>2. up' \in {up, Append(up, p)} /\ Kept /\ (Intact' <=> Intact)
    <3>1. Mid' = Mid
      BY <1>1 DEF Mid
    <3>2. up' \in {up, Append(up, p)} /\ (Intact' <=> Intact)
      BY <2>1 DEF Sent, Intact
    <3> QED BY <1>1, <2>1, <3>1, <3>2, Untouched
  <2>3. InPairs' /\ WaitedFor' /\ Accepted'
    BY <1>1, <2>1, <2>2, KeptInPairs DEF InStep, WaitedFor, Accepted, Kept
  <2>4. PingTruth'
    BY <1>1, <2>1, <2>2, PingsWrite DEF InStep, PingTruth
  <2> QED BY <2>3, <2>4 DEF InStep
<1>4. QED BY <1>2, <1>3

\* disconnect() closes the socket.
LEMMA CallDisconnectInStep ==
  ASSUME Sound, InStep, CallDisconnect
  PROVE  InStep'
BY ClosedInStep DEF CallDisconnect, Mid, Sound

\* A unit arrives.
LEMMA DeliverInStep ==
  ASSUME Sound, InStep, Deliver
  PROVE  InStep'
<1> USE DEF Sound
<1>1. down # <<>> /\ inbox' = Append(inbox, Head(down))
        /\ UNCHANGED <<sock, open, cut, up, session, state, pingOutstanding, call, partial>>
           /\ down' = Tail(down)
  BY DEF Deliver, peer, lib
<1>2. Kept /\ (Intact' <=> Intact) /\ (InConnect' <=> InConnect)
  BY <1>1, Delivered DEF Intact, InConnect
<1>3. inbox' # <<>>
  BY <1>1, Lens
<1>4. InPairs' /\ WaitedFor' /\ Accepted'
  BY <1>1, <1>2, <1>3, KeptInPairs DEF InStep, WaitedFor, Accepted, Kept
<1>5. PingTruth'
  BY <1>1, <1>2, PingsSame DEF InStep, PingTruth
<1>6. QED BY <1>4, <1>5 DEF InStep

\* What the broker answers to which packet.
LEMMA ReplyIs ==
  ASSUME NEW p \in ToBroker
  PROVE  \/ Reply(p) = <<>> /\ p.type \notin {"CONNECT", "PINGREQ", "SUBSCRIBE"}
         \/ Reply(p) = Units([type |-> "CONNACK", code |-> 0]) /\ p.type = "CONNECT"
         \/ Reply(p) = Units([type |-> "SUBACK"]) /\ p.type = "SUBSCRIBE"
         \/ Reply(p) = Units([type |-> "PINGRESP"]) /\ p.type = "PINGREQ"
BY DEF Reply

\* A packet sent behind what readByte waits for does not change the wait.
LEMMA PairWaited ==
  ASSUME TypeOK, InStep, Intact, UNCHANGED <<call, inbox, waitAge, downAge>>
  PROVE  WaitedFor'
<1>1. ASSUME Mid, inbox = <<>> PROVE down # <<>>
  <2>1. StreamLen = 1 + Len(down) /\ Len(down) \in Nat /\ StreamLen % 2 = 0
    BY <1>1, Lens DEF StreamLen, Offset, InStep, InPairs
  <2> QED BY <2>1, Lens
<1>2. QED BY <1>1 DEF InStep, WaitedFor, Mid

\* A request on its way up becomes an answer on its way down.
LEMMA BrokerHandleInStep ==
  ASSUME Sound, InStep, BrokerHandle
  PROVE  InStep'
<1> USE DEF Sound
<1>1. /\ up # <<>> /\ up' = Tail(up) /\ session' = TRUE /\ Len(down) + 2 <= MaxUnits
        /\ down' = down \o Reply(Head(up))
      /\ UNCHANGED <<sock, open, cut, inbox, downAge, waitAge, state, pingOutstanding,
                     call, partial>>
  BY DEF BrokerHandle, timers, lib
<1>2. Intact /\ Intact' /\ Head(up) \in ToBroker /\ StreamLen % 2 = 0
        /\ (InConnect' <=> InConnect)
  BY <1>1, Popped DEF LinkKept, Intact, InStep, InPairs, InConnect
<1>3. WaitedFor' /\ Accepted'
  BY <1>1, <1>2, PairWaited DEF Accepted
<1>4. CASE Reply(Head(up)) = <<>> /\ Head(up).type # "PINGREQ"
  <2>1. down' = down
    BY <1>1, <1>4, Lens
  <2>2. Kept
    BY <1>1, <2>1, Untouched DEF Mid
  <2>3. (NoPing => NoPing') /\ (OnePing => OnePing')
    BY <1>1, <1>4, <2>2, AskedPop, AnsweredKept DEF NoPing, OnePing, Kept
  <2>4. InPairs'
    BY <1>2, <2>2, KeptInPairs DEF InStep
  <2> QED BY <1>1, <1>2, <1>3, <2>3, <2>4 DEF InStep, PingTruth
<1>5. ASSUME NEW r \in ToClient, Reply(Head(up)) = Units(r), r.type # "PINGRESP",
             Head(up).type # "PINGREQ"
      PROVE InStep'
  <2>1. Added(r)
    BY <1>1, <1>5, PairSent
  <2>2. (NoPing => NoPing') /\ (OnePing => OnePing')
    BY <1>1, <1>5, <2>1, AskedPop, AnsweredOther DEF NoPing, OnePing
  <2>3. InPairs'
    BY <1>2, <2>1, AddedInPairs DEF InStep
  <2> QED BY <1>1, <1>2, <1>3, <2>2, <2>3 DEF InStep, PingTruth
<1>6. CASE Reply(Head(up)) = Units([type |-> "PINGRESP"]) /\ Head(up).type = "PINGREQ"
  <2>1. Added([type |-> "PINGRESP"])
    BY <1>1, <1>6, PairSent, Packets
  <2>2. ~NoneAsked
    BY <1>1, <1>6, AskedPop
  <2>3. OnePing => OnePing'
    BY <1>1, <1>2, <1>6, <2>1, <2>2, AskedPop, AnsweredPing DEF OnePing
  <2>4. InPairs'
    BY <1>2, <2>1, AddedInPairs, Packets DEF InStep
  <2> QED BY <1>1, <1>2, <1>3, <2>2, <2>3, <2>4 DEF InStep, PingTruth, NoPing
<1>7. QED BY <1>2, <1>4, <1>5, <1>6, ReplyIs, Packets

\* The broker passes a message on.
LEMMA BrokerPublishInStep ==
  ASSUME Sound, InStep, NEW t \in Topics, NEW q \in QosLevels, NEW v \in Values, NEW s \in Sizes,
         BrokerPublish(t, q, v, s)
  PROVE  InStep'
<1> USE DEF Sound
<1>1. PICK p \in ToClient : p.type = "PUBLISH" /\ down' = down \o Units(p)
  BY PublicationType DEF BrokerPublish
<1>2. /\ Len(down) + 2 <= MaxUnits /\ session /\ session' = session
      /\ UNCHANGED <<sock, open, cut, inbox, up, downAge, waitAge, state, pingOutstanding,
                     call, partial>>
  BY DEF BrokerPublish, timers, lib, peer
<1>3. Intact /\ Intact' /\ (InConnect' <=> InConnect)
  BY <1>2 DEF LinkKept, Intact, InConnect
<1>4. Added(p)
  BY <1>1, <1>2, PairSent
<1>5. InPairs' /\ WaitedFor' /\ Accepted'
  BY <1>2, <1>3, <1>4, AddedInPairs, PairWaited DEF InStep, Accepted
<1>6. PingTruth'
  BY <1>1, <1>2, <1>3, <1>4, PingsOther DEF InStep, PingTruth
<1>7. QED BY <1>5, <1>6 DEF InStep

\* A refusal is the only packet without a session, and it finds connect() waiting.
LEMMA BrokerRefuseInStep ==
  ASSUME Sound, InStep, BrokerRefuse
  PROVE  InStep'
<1> USE DEF Sound
<1> DEFINE no == [type |-> "CONNACK", code |-> 5]
<1>1. /\ up # <<>> /\ ~session /\ down = <<>> /\ down' = Units(no) /\ up' = <<>>
      /\ UNCHANGED <<sock, open, cut, inbox, downAge, waitAge, state, pingOutstanding,
                     call, partial, session>>
  BY DEF BrokerRefuse, timers, lib, peer
<1>2. Intact /\ Intact' /\ (InConnect' <=> InConnect) /\ no \in ToClient /\ state # "CONNECTED"
  BY <1>1, Packets DEF LinkKept, Intact, InConnect, InStep, Accepted
<1>3. InConnect
  BY <1>2 DEF SocketKept, Intact
<1>4. Added(no)
  <2>1. Len(down) + 2 <= MaxUnits
    BY <1>1, PubSubAssumption
  <2>2. down' = down \o Units(no)
    BY <1>1, <1>2, UnitsType
  <2> QED BY <1>1, <1>2, <2>1, <2>2, PairSent
<1>5. InPairs' /\ WaitedFor'
  BY <1>1, <1>2, <1>4, AddedInPairs, PairWaited DEF InStep
<1>6. Accepted'
  <2>1. StreamLen \in Nat /\ StreamLen' = StreamLen + 2
    BY <1>4, Lens DEF Added
  <2>2. Refusal(no)
    BY DEF Refusal
  <2>3. ASSUME NEW k \in 1..StreamLen' PROVE Refusal(At(k)'.pkt)
    <3>1. CASE k \in 1..StreamLen
      BY <1>1, <1>2, <1>4, <3>1 DEF Added, InStep, Accepted
    <3>2. CASE k = StreamLen + 1 \/ k = StreamLen + 2
      <4>1. At(k)'.pkt = no
        BY <1>4, <3>2 DEF Added
      <4> QED BY <2>2, <4>1
    <3> QED BY <2>1, <3>1, <3>2
  <2> QED BY <1>1, <1>2, <2>3 DEF Accepted, Refusal
<1>7. PingTruth'
  <2>1. NoneAnswered
    BY <1>3 DEF InStep, PingTruth, NoPing
  <2>2. no.type # "PINGRESP"
    OBVIOUS
  <2>3. NoPing'
    BY <1>1, <1>2, <1>4, <2>1, <2>2, AnsweredOther DEF NoPing, NoneAsked
  <2> QED BY <1>1, <1>2, <2>3 DEF PingTruth
<1>8. QED BY <1>5, <1>6, <1>7 DEF InStep

\* The broker crashes.
LEMMA BrokerCrashInStep ==
  ASSUME Sound, InStep, BrokerCrash
  PROVE  InStep'
BY BrokerCrashSound, CutInStep DEF BrokerCrash, PeerGone, Intact, lib, Sound

\* The broker gives the session up.
LEMMA BrokerExpireInStep ==
  ASSUME Sound, InStep, BrokerExpire
  PROVE  InStep'
BY BrokerExpireSound, CutInStep DEF BrokerExpire, PeerGone, Intact, lib, Sound

\* The path dies.
LEMMA LinkCutInStep ==
  ASSUME Sound, InStep, LinkCut
  PROVE  InStep'
BY LinkCutSound, CutInStep DEF LinkCut, Intact, lib, Sound

\* The broker is back.
LEMMA BrokerRestartInStep ==
  ASSUME Sound, InStep, BrokerRestart
  PROVE  InStep'
BY SameInStep DEF BrokerRestart, link, peer, lib, timers, InStep, WaitedFor, Mid, Sound

\* What the library waits for ages as fast as the wait.
LEMMA ElapseInStep ==
  ASSUME Sound, InStep, NEW b \in BOOLEAN, Elapse(b)
  PROVE  InStep'
<1> USE DEF Sound
<1>1. UNCHANGED <<sock, open, cut, inbox, down, up, session, state, pingOutstanding, call, partial>>
  BY DEF Elapse
<1>2. down # <<>> => downAge' = downAge + 1
  BY DEF Elapse
<1>3. waitAge' <= waitAge + 1
  BY PubSubAssumption DEF Elapse, UpTo, TypeOK, Times
<1>4. WaitedFor'
  <2>1. waitAge \in Nat /\ downAge \in Nat
    BY Zeroes DEF TypeOK, Times
  <2>2. waitAge' \in Int
    BY <2>1, Zeroes DEF Elapse, UpTo
  <2>3. ASSUME Mid, inbox = <<>>, down # <<>> PROVE waitAge' <= downAge'
    BY <1>2, <1>3, <2>1, <2>2, <2>3 DEF InStep, WaitedFor
  <2> QED BY <1>1, <2>3 DEF WaitedFor, Mid
<1>5. QED BY <1>1, <1>4, SameInStep

-----------------------------------------------------------------------------
(* The steps put together                                                  *)
-----------------------------------------------------------------------------
\* subscribe() writes SUBSCRIBE.
LEMMA CallSubscribeSound ==
  ASSUME Sound, NEW t \in Topics, NEW q \in QosLevels, CallSubscribe(t, q)
  PROVE  Sound'
<1> USE DEF Sound
<1> DEFINE p == [type |-> "SUBSCRIBE", topic |-> t, qos |-> q]
<1>1. p \in ToBroker /\ p.type # "CONNECT"
  BY DEF ToBroker
<1>2. Write(p)
  BY DEF CallSubscribe
<1> HIDE DEF p
<1>3. QED BY <1>1, <1>2, WriteSound

\* subscribe() writes SUBSCRIBE.
LEMMA CallSubscribeInStep ==
  ASSUME Sound, InStep, NEW t \in Topics, NEW q \in QosLevels, CallSubscribe(t, q)
  PROVE  InStep'
<1> USE DEF Sound
<1> DEFINE p == [type |-> "SUBSCRIBE", topic |-> t, qos |-> q]
<1>1. p \in ToBroker /\ p.type # "PINGREQ"
  BY DEF ToBroker
<1>2. Write(p)
  BY DEF CallSubscribe
<1> HIDE DEF p
<1>3. QED BY <1>1, <1>2, WriteInStep

\* publish() writes PUBLISH.
LEMMA CallPublishSound ==
  ASSUME Sound, CallPublish
  PROVE  Sound'
BY WriteSound, Packets DEF CallPublish

\* publish() writes PUBLISH.
LEMMA CallPublishInStep ==
  ASSUME Sound, InStep, CallPublish
  PROVE  InStep'
BY WriteInStep, Packets DEF CallPublish

\* Every step of a call that goes on.
LEMMA LibrarySound ==
  ASSUME Sound, LibraryStep
  PROVE  Sound'
BY TcpUpSound, TcpFailSound, ConnackHeadSound, ConnackTimeoutSound, ConnackBodySound,
   ConnackBodyTimeoutSound, LoopBodySound, LoopBodyTimeoutSound, GarbageReadSound DEF LibraryStep

\* Every call a sketch may make.
LEMMA CallerSound ==
  ASSUME Sound, CallerStep
  PROVE  Sound'
BY CallConnectSound, LoopNotConnectedSound, LoopPingTimeoutSound, LoopRunSound, CallPublishSound,
   CallDisconnectSound, CallSubscribeSound DEF CallerStep, CallLoop

\* Every step of broker and network.
LEMMA EnvironmentSound ==
  ASSUME Sound, Environment
  PROVE  Sound'
BY DeliverSound, BrokerHandleSound, BrokerPublishSound, BrokerRefuseSound, BrokerCrashSound,
   BrokerRestartSound, BrokerExpireSound, LinkCutSound DEF Environment

\* A step of something else.
LEMMA StutterSound ==
  ASSUME Sound, UNCHANGED vars
  PROVE  Sound'
<1> USE DEF Sound
<1>1. TypeOK'
  BY DEF TypeOK, Flags, Streams, Modes, Times, vars, link, peer, timers, lib, env
<1>2. LinkKept' /\ SocketKept'
  BY DEF LinkKept, Intact, SocketKept, InConnect, vars, link, peer, lib
<1>3. QED BY <1>1, <1>2

\* Power-on.
LEMMA InitSound ==
  ASSUME Init
  PROVE  Sound
<1> USE DEF Sound
<1>1. Flags
  BY DEF Init, Flags
<1>2. Streams
  BY Empty, Zeroes DEF Init, Streams
<1>3. Modes /\ Times
  BY Zeroes DEF Init, Modes, States, Calls, Times
<1>4. LinkKept /\ SocketKept
  BY DEF Init, LinkKept, SocketKept, InConnect, Intact
<1>5. QED BY <1>1, <1>2, <1>3, <1>4 DEF TypeOK

\* Every step of a call that goes on.
LEMMA LibraryInStep ==
  ASSUME Prompt, Sound, InStep, LibraryStep
  PROVE  InStep'
BY TcpUpInStep, TcpFailInStep, ConnackHeadInStep, ConnackTimeoutInStep, ConnackBodyInStep,
   ConnackBodyTimeoutInStep, LoopBodyInStep, LoopBodyTimeoutInStep, GarbageReadInStep
   DEF LibraryStep

\* Every call a sketch may make.
LEMMA CallerInStep ==
  ASSUME Sound, InStep, CallerStep
  PROVE  InStep'
BY CallConnectInStep, LoopNotConnectedInStep, LoopPingTimeoutInStep, LoopRunInStep,
   CallPublishInStep, CallDisconnectInStep, CallSubscribeInStep DEF CallerStep, CallLoop

\* Every step of broker and network.
LEMMA EnvironmentInStep ==
  ASSUME Sound, InStep, Environment
  PROVE  InStep'
BY DeliverInStep, BrokerHandleInStep, BrokerPublishInStep, BrokerRefuseInStep, BrokerCrashInStep,
   BrokerRestartInStep, BrokerExpireInStep, LinkCutInStep DEF Environment

\* A step of something else.
LEMMA StutterInStep ==
  ASSUME TypeOK, InStep, UNCHANGED vars
  PROVE  InStep'
BY SameInStep DEF vars, link, peer, lib, timers, InStep, WaitedFor, Mid

\* Power-on.
LEMMA InitInStep ==
  ASSUME Init
  PROVE  InStep
<1>1. ~Mid /\ ~InConnect /\ ~Intact /\ StreamLen = 0
  BY DEF Init, Mid, InConnect, Intact, StreamLen, Offset
<1>2. QED BY <1>1 DEF InStep, InPairs, WaitedFor, Accepted, PingTruth

=============================================================================

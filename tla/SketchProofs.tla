---------------------------- MODULE SketchProofs ----------------------------
(***************************************************************************)
(* The library in use.  First under a sketch that may ask anything of it:  *)
(* the socket, the pings, and the keepalive in both directions.  Then the  *)
(* actuator sketch: motor and LED follow the last readings.  A reading is  *)
(* either still in the stream, the last of its topic, or it has been       *)
(* obeyed; that is ReadingsKept, and OutputsFollow is what is left of it   *)
(* when the stream is empty.                                               *)
(***************************************************************************)
EXTENDS AnySketch, Actuator, PubSubProofs, FiniteSetTheorems

\* Every step keeps the types, the link and the socket.
LEMMA NextSound ==
  ASSUME Sound, [NextD]_varsD
  PROVE  Sound'
<1> USE DEF Sound
<1>1. CASE Passes
  <2>1. (call = "idle" /\ ran) \in BOOLEAN
    OBVIOUS
  <2> QED BY <1>1, <2>1, ElapseSound DEF Passes
<1>2. QED BY <1>1, LibrarySound, CallerSound, EnvironmentSound, StutterSound DEF NextD, varsD

\* A TCP connection carries one CONNECT and is held only by a client in
\* MQTT_CONNECTED: every way out of connect(), loop() and readPacket() that is not a
\* success has stopped the socket, for all times, queues and faults.  No assumption on
\* the network is needed.
THEOREM OneConnect == SpecD => []OneConnectPerSocket
<1> DEFINE Inv == Sound
<1>1. InitD => Inv
  BY InitSound DEF InitD
<1>2. Inv /\ [NextD]_varsD => Inv'
  BY NextSound
<1>3. Inv => OneConnectPerSocket
  BY DEF Sound, SocketKept, OneConnectPerSocket, InConnect
<1>4. QED BY <1>1, <1>2, <1>3, PTL DEF SpecD

\* With a prompt network every step keeps client and broker in step.
LEMMA NextInStep ==
  ASSUME Prompt, Sound, InStep, [NextD]_varsD
  PROVE  InStep'
<1> USE DEF Sound
<1>1. CASE Passes
  <2>1. (call = "idle" /\ ran) \in BOOLEAN
    OBVIOUS
  <2> QED BY <1>1, <2>1, ElapseInStep DEF Passes
<1>2. QED BY <1>1, LibraryInStep, CallerInStep, EnvironmentInStep, StutterInStep DEF NextD, varsD

\* In step, the pings counted under way are what pingOutstanding says.
LEMMA PingCount ==
  ASSUME TypeOK, InStep
  PROVE  PingIsTracked
<1> DEFINE U == {i \in 1..Len(up) : up[i].type = "PINGREQ"}
           D == {i \in 1..Len(down) : down[i].part = 2 /\ down[i].pkt.type = "PINGRESP"}
           I == {i \in 1..Len(inbox) : inbox[i].part = 2 /\ inbox[i].pkt.type = "PINGRESP"}
<1>1. /\ Len(inbox) \in Nat /\ Len(down) \in Nat /\ Offset \in {0, 1}
      /\ StreamLen = Offset + Len(inbox) + Len(down)
  BY Lens DEF StreamLen
<1>2. ASSUME NEW k \in 1..StreamLen PROVE At(k).part = 2 <=> k % 2 = 0
  BY <1>1 DEF InStep, InPairs
<1>3. ASSUME NEW i \in 1..Len(inbox)
      PROVE  i + Offset \in 1..StreamLen /\ At(i + Offset) = inbox[i]
             /\ (i \in I <=> Answered(i + Offset))
  <2>1. i + Offset \in 1..StreamLen
    BY <1>1
  <2>2. At(i + Offset) = inbox[i]
    BY <1>1 DEF At
  <2> QED BY <1>2, <2>1, <2>2 DEF Answered
<1>4. ASSUME NEW i \in 1..Len(down)
      PROVE  /\ i + Offset + Len(inbox) \in 1..StreamLen /\ At(i + Offset + Len(inbox)) = down[i]
             /\ i \in D <=> Answered(i + Offset + Len(inbox))
  <2>1. i + Offset + Len(inbox) \in 1..StreamLen
    BY <1>1
  <2>2. At(i + Offset + Len(inbox)) = down[i]
    BY <1>1 DEF At
  <2> QED BY <1>2, <2>1, <2>2 DEF Answered
<1>5. NoneAsked => U = {}
  BY DEF NoneAsked, Asked
<1>6. NoneAnswered => D = {} /\ I = {}
  BY <1>3, <1>4 DEF NoneAnswered
<1>7. ASSUME NEW i \in 1..Len(up), OnlyAsked(i) PROVE U = {i}
  BY <1>7 DEF OnlyAsked, Asked
<1>8. ASSUME NEW k \in 1..StreamLen, OnlyAnswered(k)
      PROVE  (\E i : I = {i} /\ D = {}) \/ (\E i : D = {i} /\ I = {})
  <2>1. k \in Int /\ k > Offset
    BY <1>1, <1>8 DEF OnlyAnswered, Answered
  <2>2. CASE k - Offset <= Len(inbox)
    <3>1. PICK i \in 1..Len(inbox) : i + Offset = k
      BY <1>1, <2>1, <2>2
    <3>2. I = {i}
      <4>1. ASSUME NEW j \in 1..Len(inbox) PROVE j \in I <=> j = i
        <5>1. j + Offset = k <=> j = i
          BY <1>1, <3>1
        <5>2. QED BY <1>3, <1>8, <5>1 DEF OnlyAnswered
      <4>2. QED BY <3>1, <4>1
    <3>3. D = {}
      <4>1. ASSUME NEW j \in 1..Len(down), j \in D PROVE FALSE
        BY <1>1, <1>4, <1>8, <2>2, <4>1 DEF OnlyAnswered
      <4> QED BY <4>1
    <3> QED BY <3>2, <3>3
  <2>3. CASE ~(k - Offset <= Len(inbox))
    <3>0. /\ k - Offset - Len(inbox) \in 1..Len(down)
          /\ (k - Offset - Len(inbox)) + Offset + Len(inbox) = k
      BY <1>1, <2>1, <2>3
    <3>1. PICK i \in 1..Len(down) : i + Offset + Len(inbox) = k
      BY <3>0
    <3>2. D = {i}
      BY <1>1, <1>4, <1>8, <3>1 DEF OnlyAnswered
    <3>3. I = {}
      <4>1. ASSUME NEW j \in 1..Len(inbox), j \in I PROVE FALSE
        BY <1>1, <1>3, <1>8, <2>1, <2>3, <4>1 DEF OnlyAnswered
      <4> QED BY <4>1
    <3> QED BY <3>2, <3>3
  <2> QED BY <2>2, <2>3
<1>9. PingsUnderWay = Cardinality(U) + Cardinality(D) + Cardinality(I)
  BY DEF PingsUnderWay
<1>10. Cardinality({}) = 0 /\ \A i : Cardinality({i}) = 1
  BY FS_EmptySet, FS_Singleton
<1> HIDE DEF U, D, I
<1>11. NoPing => PingsUnderWay = 0
  BY <1>5, <1>6, <1>9, <1>10 DEF NoPing
<1>12. OnePing => PingsUnderWay = 1
  <2>1. CASE NoneAnswered /\ \E i \in 1..Len(up) : OnlyAsked(i)
    <3>1. \E i : U = {i}
      BY <1>7, <2>1
    <3>2. D = {} /\ I = {}
      BY <1>6, <2>1
    <3>3. Cardinality(U) = 1 /\ Cardinality(D) = 0 /\ Cardinality(I) = 0
      BY <1>10, <3>1, <3>2, Zenon
    <3> QED BY <1>9, <3>3
  <2>2. CASE NoneAsked /\ \E k \in 1..StreamLen : OnlyAnswered(k)
    <3>1. U = {}
      BY <1>5, <2>2
    <3>2. (\E i : I = {i} /\ D = {}) \/ (\E i : D = {i} /\ I = {})
      BY <1>8, <2>2
    <3>3. Cardinality(U) = 0 /\ Cardinality(D) \in {0, 1} /\ Cardinality(I) = 1 - Cardinality(D)
      <4>1. CASE \E i : I = {i} /\ D = {}
        <5>1. Cardinality(U) = 0 /\ Cardinality(D) = 0 /\ Cardinality(I) = 1
          BY <1>10, <3>1, <4>1, Zenon
        <5> QED BY <5>1
      <4>2. CASE \E i : D = {i} /\ I = {}
        <5>1. Cardinality(U) = 0 /\ Cardinality(D) = 1 /\ Cardinality(I) = 0
          BY <1>10, <3>1, <4>2, Zenon
        <5> QED BY <5>1
      <4> QED BY <3>2, <4>1, <4>2
    <3> QED BY <1>9, <3>3
  <2> QED BY <2>1, <2>2 DEF OnePing
<1>13. QED BY <1>11, <1>12 DEF PingIsTracked, InStep, PingTruth, Intact

\* With a network that delivers within the socket timeout, readPacket starts each
\* packet at its first byte, pingOutstanding is set exactly while a ping or its answer
\* is under way, and only the session makes a client CONNECTED.  Without Prompt the
\* run client_stall shows a packet read as a header.
THEOREM SessionHolds ==
  ASSUME Prompt
  PROVE  SpecD => []SessionInv
<1> DEFINE Inv == Sound /\ InStep
<1>1. InitD => Inv
  BY InitSound, InitInStep DEF InitD
<1>2. Inv /\ [NextD]_varsD => Inv'
  BY NextSound, NextInStep
<1>3. Inv => SessionInv
  BY PingCount, NoGarbage DEF Sound, SessionInv, FramesStayWhole, Mid
<1>4. QED BY <1>1, <1>2, <1>3, PTL DEF SpecD

-----------------------------------------------------------------------------
(* Keepalive                                                               *)
-----------------------------------------------------------------------------
\* The ages and bounds are natural numbers.
LEMMA Numbers ==
  ASSUME TypeOK
  PROVE  /\ inAge \in Nat /\ outAge \in Nat /\ waitAge \in Nat /\ downAge \in Nat /\ upAge \in Nat
         /\ silence \in Nat /\ downAge <= Latency /\ upAge <= Latency /\ waitAge <= SocketTimeout
         /\ inAge <= AgeBound /\ outAge <= AgeBound
         /\ KeepAlive \in Nat /\ SocketTimeout \in Nat /\ SocketTimeout > 0 /\ Latency \in Nat
         /\ MaxUnits \in Nat /\ AgeBound \in Nat
         /\ AgeBound > KeepAlive /\ AgeBound >= SocketTimeout
<1>1. /\ inAge \in 0..AgeBound /\ outAge \in 0..AgeBound /\ waitAge \in 0..SocketTimeout
      /\ downAge \in 0..Latency /\ upAge \in 0..Latency /\ silence \in 0..(ExpireTime + 1)
  BY DEF TypeOK, Times
<1>2. AgeBound > KeepAlive
  BY PubSubAssumption DEF AgeBound
<1>3. QED BY <1>1, <1>2, Zeroes, PubSubAssumption

\* What something is appended to is not empty.
LEMMA Nonempty ==
  ASSUME NEW S, NEW s \in Seq(S)
  PROVE  /\ \A e \in S : Append(s, e) # <<>>
         /\ \A t \in Seq(S) : s # <<>> \/ t # <<>> => s \o t # <<>>
<1>1. ASSUME NEW e \in S PROVE Append(s, e) # <<>>
  <2>1. Len(Append(s, e)) = Len(s) + 1 /\ Len(s) \in Nat /\ Len(<<>>) = 0
    OBVIOUS
  <2> QED BY <2>1
<1>2. ASSUME NEW t \in Seq(S), s # <<>> \/ t # <<>> PROVE s \o t # <<>>
  BY <1>2
<1>3. QED BY <1>1, <1>2

\* After loop() the activity times are recent; readByte waits no longer than the times
\* have run, and on an intact connection no longer than the network takes.
LEMMA LibraryRanLately ==
  ASSUME Sound, InStep, RanLately, LibraryStep
  PROVE  RanLately'
<1> USE Numbers DEF Sound
<1>1. CASE TcpUp
  BY <1>1 DEF TcpUp, SendConnect, RanLately, Mid
<1>2. CASE TcpFail
  BY <1>2 DEF TcpFail, Return, RanLately, Mid, link
<1>3. CASE ConnackHead
  BY <1>3 DEF ConnackHead, RanLately, Mid
<1>4. CASE ConnackTimeout
  BY <1>4 DEF ConnackTimeout, Return, CloseLink, RanLately, Mid
<1>5. CASE ConnackBody
  BY <1>5 DEF ConnackBody, Return, CloseLink, RanLately, Mid
<1>6. CASE ConnackBodyTimeout
  BY <1>6 DEF ConnackBodyTimeout, Return, CloseLink, RanLately, Mid
<1>7. CASE LoopBody
  BY <1>7 DEF LoopBody, Finishes, ReturnConnected, NoteLoss, Return, CloseLink, RanLately, Mid
<1>8. CASE LoopBodyTimeout
  BY <1>8 DEF LoopBodyTimeout, ReturnConnected, NoteLoss, Return, CloseLink, RanLately, Mid
<1>9. CASE GarbageRead
  BY <1>9, NoGarbage DEF GarbageRead, Mid
<1>10. QED BY <1>1, <1>2, <1>3, <1>4, <1>5, <1>6, <1>7, <1>8, <1>9 DEF LibraryStep

\* subscribe() and publish() leave the wait alone.
LEMMA WriteRanLately ==
  ASSUME Sound, InStep, RanLately, NEW p, Write(p)
  PROVE  RanLately'
<1> USE Numbers DEF Sound
<1>1. ~Mid' /\ inAge' = inAge /\ outAge' \in {0, outAge} /\ ran' = ran /\ (sock' => sock)
  BY DEF Write, NoteLoss, CloseLink, Mid, link
<1>2. QED BY <1>1 DEF RanLately

\* loop() leaves with both times at most KeepAlive old.
LEMMA CallerRanLately ==
  ASSUME Sound, InStep, RanLately, CallerStep
  PROVE  RanLately'
<1> USE Numbers DEF Sound
<1>1. CASE CallConnect
  BY <1>1 DEF CallConnect, SendConnect, Connected, NoteLoss, CloseLink, RanLately, Mid, link
<1>2. CASE LoopNotConnected
  <2>1. ~sock' /\ ~Mid'
    BY <1>2 DEF LoopNotConnected, Connected, TcpConnected, NoteLoss, CloseLink, SocketKept,
                InConnect, Mid
  <2> QED BY <2>1 DEF RanLately
<1>3. CASE LoopPingTimeout
  BY <1>3 DEF LoopPingTimeout, CloseLink, RanLately, Mid
<1>4. CASE LoopRun
  <2>1. waitAge' = 0 /\ inAge' \in Nat /\ outAge' \in Nat /\ inAge' <= KeepAlive
          /\ outAge' <= KeepAlive
    BY <1>4 DEF LoopRun, PingDue
  <2> QED BY <2>1 DEF RanLately
<1>5. CASE CallPublish
  BY <1>5, WriteRanLately DEF CallPublish
<1>6. CASE CallDisconnect
  BY <1>6 DEF CallDisconnect, CloseLink, RanLately, Mid
<1>7. ASSUME NEW t \in Topics, NEW q \in QosLevels, CallSubscribe(t, q) PROVE RanLately'
  BY <1>7, WriteRanLately DEF CallSubscribe
<1>8. QED BY <1>1, <1>2, <1>3, <1>4, <1>5, <1>6, <1>7 DEF CallerStep, CallLoop

\* Broker and network leave the times alone.
LEMMA EnvironmentRanLately ==
  ASSUME Sound, RanLately, Environment
  PROVE  RanLately'
<1>1. UNCHANGED <<timers, lib, sock>> /\ (Intact' => Intact)
  <2>1. CASE Deliver \/ BrokerHandle
    BY <2>1 DEF Deliver, BrokerHandle, Intact
  <2>2. ASSUME NEW t \in Topics, NEW q \in QosLevels, NEW v \in Values, NEW s \in Sizes,
               BrokerPublish(t, q, v, s)
        PROVE  UNCHANGED <<timers, lib, sock>> /\ (Intact' => Intact)
    BY <2>2 DEF BrokerPublish, Intact
  <2>3. CASE BrokerRefuse
    BY <2>3 DEF BrokerRefuse, Intact
  <2>4. CASE BrokerCrash \/ BrokerExpire
    BY <2>4 DEF BrokerCrash, BrokerExpire, PeerGone, Intact
  <2>5. CASE BrokerRestart \/ LinkCut
    BY <2>5 DEF BrokerRestart, LinkCut, Intact, link
  <2> QED BY <2>1, <2>2, <2>3, <2>4, <2>5 DEF Environment
<1>2. QED BY <1>1 DEF RanLately, Mid, timers, lib

\* The times run at least as fast as the wait, what is under way as well.
LEMMA ElapseRanLately ==
  ASSUME Sound, InStep, RanLately, NEW b \in BOOLEAN, Elapse(b)
  PROVE  RanLately'
<1> USE Numbers DEF Sound
<1>1. UNCHANGED <<sock, open, cut, inbox, down, call>> /\ ran' = FALSE
  BY DEF Elapse
<1>2. Mid => waitAge' <= inAge' /\ waitAge' <= outAge'
  <2>1. waitAge' <= waitAge + 1 /\ waitAge' <= SocketTimeout
    <3>1. waitAge' = waitAge \/ waitAge' = UpTo(SocketTimeout, waitAge + 1)
      BY DEF Elapse
    <3> QED BY ONLY <3>1, Sound, Numbers DEF Sound, UpTo
  <2>2. inAge' = UpTo(AgeBound, inAge + 1) /\ outAge' = UpTo(AgeBound, outAge + 1)
    BY DEF Elapse
  <2>3. waitAge' \in Int
    BY DEF Elapse, UpTo
  <2> QED BY <2>1, <2>2, <2>3 DEF UpTo, RanLately
<1>3. ASSUME Mid, Intact PROVE waitAge' <= Latency
  <2>1. CASE ~Blocked
    BY <1>3, <2>1 DEF Elapse, RanLately
  <2>2. CASE Blocked
    <3>1. Len(inbox) = 0 /\ Offset = 1 /\ StreamLen = 1 + Len(down) /\ Len(down) \in Nat
            /\ inbox = <<>>
      BY <1>3, <2>2, Lens DEF Blocked, Mid, StreamLen, Offset
    <3>2. StreamLen % 2 = 0
      BY <1>3 DEF InStep, InPairs
    <3>3. down # <<>>
      BY <3>1, <3>2, Lens
    <3>4. waitAge <= downAge /\ downAge < Latency
      <4>1. downAge < Latency
        BY <3>3 DEF Elapse
      <4>2. waitAge <= downAge
        BY <1>3, <3>1, <3>3 DEF InStep, WaitedFor
      <4> QED BY ONLY <4>1, <4>2
    <3>5. waitAge' = UpTo(SocketTimeout, waitAge + 1)
      BY <2>2 DEF Elapse
    <3> QED BY ONLY <3>4, <3>5, Sound, Numbers DEF Sound, UpTo
  <2> QED BY <2>1, <2>2
<1>4. QED BY <1>1, <1>2, <1>3 DEF RanLately, Mid, Intact


\* The hypothesis of the broker's side: a network so prompt that a ping sent one time
\* unit or one delivery late arrives within the half interval the broker grants.
PromptPings == Carry + Latency <= KeepAlive \div 2

\* ... which is then also within the interval itself.
LEMMA Halves ==
  ASSUME PromptPings
  PROVE  /\ Carry \in Nat /\ Carry >= 1 /\ Carry >= Latency /\ Latency \in Nat /\ KeepAlive \in Nat
         /\ Carry + Latency <= KeepAlive /\ KeepAlive + Carry + Latency <= ExpireTime
<1>1. Carry \in Nat /\ Carry >= 1 /\ Carry >= Latency /\ Latency \in Nat /\ KeepAlive \in Nat
  BY PubSubAssumption DEF Carry
<1>2. KeepAlive \div 2 \in Nat /\ KeepAlive \div 2 <= KeepAlive
  BY <1>1
<1>3. QED BY <1>1, <1>2 DEF PromptPings, ExpireTime

\* With something on its way up only the count itself matters.
LEMMA OnItsWay ==
  ASSUME up' # <<>>, session', call' \in {"idle", "loopBody"},
         silence' <= KeepAlive + Carry + upAge'
  PROVE  Heard'
BY DEF Heard

\* Where there is no session nobody counts its silence.
LEMMA Quiet ==
  ASSUME Heard, LibraryStep \/ CallerStep \/ Environment \/ Passes
  PROVE  ~session' => silence' = 0
<1>1. (~session => silence = 0) /\ (CloseLink => silence' = 0) /\ (PeerGone => silence' = 0)
  BY DEF Heard, CloseLink, PeerGone
<1>2. CASE TcpUp \/ TcpFail \/ ConnackHead \/ ConnackTimeout \/ ConnackBody \/ ConnackBodyTimeout
  BY <1>1, <1>2 DEF TcpUp, TcpFail, ConnackHead, ConnackTimeout, ConnackBody,
                    ConnackBodyTimeout, peer
<1>3. CASE LoopBody \/ LoopBodyTimeout
  BY <1>1, <1>3 DEF LoopBody, LoopBodyTimeout, ReturnConnected, NoteLoss, peer
<1>4. CASE GarbageRead
  <2>1. CloseLink \/ UNCHANGED peer
    BY <1>4, Zenon DEF GarbageRead
  <2> QED BY <1>1, <2>1 DEF peer
<1>5. CASE CallConnect
  BY <1>1, <1>5 DEF CallConnect, NoteLoss, peer
<1>6. CASE CallLoop
  BY <1>1, <1>6 DEF CallLoop, LoopNotConnected, LoopPingTimeout, LoopRun, NoteLoss, peer
<1>7. ASSUME NEW p, Write(p) PROVE ~session' => silence' = 0
  BY <1>1, <1>7 DEF Write, NoteLoss, peer
<1>8. CASE CallDisconnect
  BY <1>1, <1>8 DEF CallDisconnect
<1>9. CASE Deliver \/ BrokerHandle \/ BrokerRefuse \/ BrokerRestart
  BY <1>1, <1>9 DEF Deliver, BrokerHandle, BrokerRefuse, BrokerRestart, peer
<1>10. ASSUME NEW t \in Topics, NEW q \in QosLevels, NEW v \in Values, NEW s \in Sizes,
              BrokerPublish(t, q, v, s)
       PROVE  ~session' => silence' = 0
  BY <1>1, <1>10 DEF BrokerPublish, peer
<1>11. CASE BrokerCrash \/ BrokerExpire \/ LinkCut
  BY <1>1, <1>11 DEF BrokerCrash, BrokerExpire, LinkCut
<1>12. CASE Passes
  BY <1>12 DEF Passes, Elapse
<1>13. QED
  BY <1>2, <1>3, <1>4, <1>5, <1>6, <1>7, <1>8, <1>9, <1>10, <1>11, <1>12
  DEF LibraryStep, CallerStep, Environment, CallPublish, CallSubscribe

\* The broker's count: a call goes on.  An acknowledgement starts a packet on its way up.
LEMMA LibraryHeard ==
  ASSUME Prompt, PromptPings, Sound, InStep, RanLately, Heard, LibraryStep
  PROVE  Heard'
<1> USE Numbers, Halves DEF Sound
<1>q. ~session' => silence' = 0
  BY Quiet
<1>1. CASE TcpUp \/ TcpFail
  <2>1. ~session'
    BY <1>1 DEF TcpUp, TcpFail, SocketKept, LinkKept, Intact, peer
  <2> QED BY <1>q, <2>1 DEF Heard
<1>2. CASE ConnackTimeout \/ ConnackBodyTimeout
  <2>1. ~session'
    BY <1>2 DEF ConnackTimeout, ConnackBodyTimeout, CloseLink
  <2> QED BY <1>q, <2>1 DEF Heard
<1>3. CASE ConnackHead
  BY <1>3 DEF ConnackHead, Heard, peer
<1>4. CASE ConnackBody
  <2>1. SUFFICES ASSUME session' PROVE Heard'
    BY <1>q DEF Heard
  <2>2. /\ call = "connackBody" /\ call' = "idle"
        /\ UNCHANGED <<session, up, upAge, outAge, silence>>
    BY <1>4, <2>1 DEF ConnackBody, CloseLink, Return, peer
  <2>3. waitAge <= Latency
    BY <2>1, <2>2 DEF RanLately, Mid, LinkKept
  <2>4. /\ up = <<>> /\ outAge < AgeBound => silence <= outAge
        /\ up # <<>> => silence <= KeepAlive + Carry + upAge
        /\ silence <= Latency + waitAge
    BY <2>1, <2>2 DEF Heard
  <2>5. silence <= KeepAlive + IF ran' THEN 0 ELSE Carry
    <3>1. /\ silence \in Nat /\ KeepAlive \in Nat /\ waitAge \in Nat /\ Carry \in Nat
          /\ Latency \in Nat /\ Carry >= Latency /\ Carry + Latency <= KeepAlive
      OBVIOUS
    <3> QED BY ONLY <2>3, <2>4, <3>1
  <2> QED BY ONLY <2>1, <2>2, <2>4, <2>5 DEF Heard
<1>5. CASE LoopBody
  <2>1. SUFFICES ASSUME session' PROVE Heard'
    BY <1>q DEF Heard
  <2>2. /\ call = "loopBody" /\ call' = "idle" /\ session /\ Intact
        /\ UNCHANGED <<session, upAge, silence, ran>>
    BY <1>5, <2>1 DEF LoopBody, Finishes, ReturnConnected, NoteLoss, CloseLink, Return, LinkKept,
                      peer
  <2>3. waitAge <= Latency /\ (ran => waitAge = 0)
    BY <2>2 DEF RanLately, Mid
  <2>4. UNCHANGED <<up, outAge>> \/ up' = Append(up, [type |-> "PUBACK"])
    BY <1>5, <2>1, <2>2 DEF LoopBody, ReturnConnected, NoteLoss, CloseLink, Answer, Sent, Intact
  <2>5. CASE UNCHANGED <<up, outAge>>
    <3>1. /\ up = <<>> /\ outAge < AgeBound => silence <= outAge
          /\ up = <<>> => silence <= KeepAlive + waitAge
          /\ up # <<>> => silence <= KeepAlive + Carry + upAge
      BY <2>2 DEF Heard
    <3>2. up = <<>> => silence <= KeepAlive + IF ran THEN 0 ELSE Carry
      <4>1. /\ silence \in Nat /\ KeepAlive \in Nat /\ waitAge \in Nat /\ Carry \in Nat
            /\ Latency \in Nat /\ Carry >= Latency
        OBVIOUS
      <4> QED BY ONLY <2>3, <3>1, <4>1
    <3> QED BY ONLY <2>2, <2>5, <3>1, <3>2 DEF Heard
  <2>6. CASE up' = Append(up, [type |-> "PUBACK"])
    <3>1. up' # <<>>
      BY <2>6, Nonempty, Packets, Ups
    <3>2. silence <= KeepAlive + Carry + upAge \/ silence <= KeepAlive + waitAge
      BY <2>2 DEF Heard
    <3>3. silence <= KeepAlive + Carry + upAge
      BY ONLY <2>3, <3>2, Sound, Numbers, PromptPings, Halves DEF Sound
    <3> QED BY ONLY <2>2, <3>1, <3>3, OnItsWay
  <2> QED BY <2>4, <2>5, <2>6
<1>6. CASE LoopBodyTimeout
  <2>1. ~session'
    BY <1>6, Patient DEF LoopBodyTimeout, ReturnConnected, NoteLoss, CloseLink, LinkKept, Mid, peer
  <2> QED BY <1>q, <2>1 DEF Heard
<1>7. CASE GarbageRead
  BY <1>7, NoGarbage DEF GarbageRead, Mid
<1>8. QED BY <1>1, <1>2, <1>3, <1>4, <1>5, <1>6, <1>7 DEF LibraryStep

\* subscribe() and publish() start a packet on its way up.
LEMMA WriteHeard ==
  ASSUME PromptPings, Sound, InStep, Heard, NEW p \in ToBroker, Write(p),
         ~session' => silence' = 0
  PROVE  Heard'
<1> USE Numbers, Halves DEF Sound
<1>1. SUFFICES ASSUME session' PROVE Heard'
  BY DEF Heard
<1>2. /\ call = "idle" /\ call' = "idle" /\ UNCHANGED <<session, upAge, silence, ran>>
      /\ UNCHANGED <<up, outAge>> \/ up' = Sent(p)
  BY <1>1 DEF Write, NoteLoss, CloseLink, link, peer
<1>3. CASE UNCHANGED <<up, outAge>>
  BY <1>2, <1>3 DEF Heard
<1>4. CASE up' = Sent(p)
  <2>1. up' # <<>>
    <3>1. sock /\ open /\ ~cut /\ p \in ToBroker
      BY <1>1, <1>2 DEF LinkKept, Intact
    <3> QED BY ONLY <1>4, <3>1, Sound, Ups DEF Sent, Sound, Intact
  <2>2. silence <= KeepAlive + Carry + upAge \/ silence <= KeepAlive + (IF ran THEN 0 ELSE Carry)
    BY <1>1, <1>2 DEF Heard
  <2>3. silence <= KeepAlive + Carry + upAge
    BY ONLY <2>2, Sound, Numbers, PromptPings, Halves DEF Sound
  <2> QED BY ONLY <1>1, <1>2, <2>1, <2>3, OnItsWay
<1>5. QED BY <1>2, <1>3, <1>4

\* A call is made: loop() pings before lastOutActivity is older than KeepAlive.
LEMMA CallerHeard ==
  ASSUME PromptPings, Sound, InStep, RanLately, Heard, CallerStep
  PROVE  Heard'
<1> USE Numbers, Halves DEF Sound
<1>q. ~session' => silence' = 0
  BY Quiet
<1>1. CASE CallConnect
  <2>1. CASE Connected
    <3>1. UNCHANGED <<call, session, up, down, inbox, upAge, downAge, outAge, silence, ran,
                      waitAge>>
      BY <1>1, <2>1 DEF CallConnect, link, peer
    <3> QED BY <1>q, <3>1 DEF Heard
  <2>2. CASE ~Connected
    <3>1. ~session'
      BY <1>1, <2>2 DEF CallConnect, Connected, TcpConnected, NoteLoss, CloseLink, SocketKept,
                        InConnect
    <3> QED BY <1>q, <3>1 DEF Heard
  <2> QED BY <2>1, <2>2
<1>2. CASE LoopNotConnected
  <2>1. ~session'
    BY <1>2 DEF LoopNotConnected, Connected, TcpConnected, NoteLoss, CloseLink, SocketKept,
                InConnect
  <2> QED BY <1>q, <2>1 DEF Heard
<1>3. CASE LoopPingTimeout \/ CallDisconnect
  <2>1. ~session'
    BY <1>3 DEF LoopPingTimeout, CallDisconnect, CloseLink
  <2> QED BY <1>q, <2>1 DEF Heard
<1>4. CASE LoopRun
  <2>1. SUFFICES ASSUME session' PROVE Heard'
    BY <1>q DEF Heard
  <2>2. /\ call = "idle" /\ call' \in {"idle", "loopBody"} /\ session /\ Intact /\ waitAge' = 0
        /\ UNCHANGED <<session, upAge, silence>> /\ ran' = TRUE
    BY <1>4, <2>1 DEF LoopRun, LinkKept, peer
  <2>3. CASE PingDue
    <3>1. up' # <<>>
      BY <1>4, <2>2, <2>3, Ups DEF LoopRun, Sent, Intact
    <3>2. silence <= KeepAlive + Carry + upAge \/ silence <= KeepAlive + Carry
            \/ silence <= KeepAlive
      BY <2>2 DEF Heard
    <3>3. silence <= KeepAlive + Carry + upAge
      BY ONLY <3>2, Sound, Numbers, PromptPings, Halves, Heard DEF Sound
    <3> QED BY ONLY <2>2, <3>1, <3>3, OnItsWay
  <2>4. CASE ~PingDue
    <3>1. UNCHANGED <<up, outAge>> /\ outAge <= KeepAlive
      BY <1>4, <2>4 DEF LoopRun, PingDue
    <3>2. /\ up = <<>> /\ outAge < AgeBound => silence <= outAge
          /\ up # <<>> => silence <= KeepAlive + Carry + upAge
      BY <2>2 DEF Heard
    <3>3. up = <<>> => silence <= outAge /\ silence <= KeepAlive
      BY ONLY <3>1, <3>2, Sound, Numbers DEF Sound
    <3>4. KeepAlive + 0 = KeepAlive
      OBVIOUS
    <3> QED BY ONLY <2>2, <3>1, <3>2, <3>3, <3>4 DEF Heard
  <2> QED BY <2>3, <2>4
<1>5. CASE CallPublish
  BY <1>q, <1>5, WriteHeard, Packets DEF CallPublish
<1>6. ASSUME NEW t \in Topics, NEW q \in QosLevels, CallSubscribe(t, q) PROVE Heard'
  BY <1>q, <1>6, WriteHeard DEF CallSubscribe, ToBroker
<1>7. QED BY <1>1, <1>2, <1>3, <1>4, <1>5, <1>6 DEF CallerStep, CallLoop

\* Broker and network: what arrives sets the count to nought.
LEMMA EnvironmentHeard ==
  ASSUME PromptPings, Sound, InStep, Heard, Environment
  PROVE  Heard'
<1> USE Numbers, Halves DEF Sound
<1>q. ~session' => silence' = 0
  BY Quiet
<1>1. SUFFICES ASSUME session' PROVE Heard'
  BY <1>q DEF Heard
<1>2. CASE Deliver
  <2>1. inbox' = Append(inbox, Head(down))
    BY <1>2 DEF Deliver
  <2>2. inbox' # <<>>
    <3>1. inbox \in Seq(Unit) /\ down \in Seq(Unit) /\ down # <<>>
      BY <1>2, Lens DEF Deliver
    <3>2. Head(down) \in Unit
      BY ONLY <3>1
    <3> QED BY <2>1, <3>1, <3>2, Nonempty
  <2> QED BY <1>2, <2>2 DEF Deliver, Heard, peer, timers, lib
<1>3. CASE BrokerHandle
  <2>1. /\ silence' = 0 /\ down' = down \o Reply(Head(up)) /\ Head(up) \in ToBroker
        /\ session \/ Head(up).type = "CONNECT"
        /\ UNCHANGED <<call, inbox, downAge, outAge, ran, waitAge>>
    BY <1>3, Popped DEF BrokerHandle, timers, lib
  <2>2. upAge' \in Nat
    BY <1>3 DEF BrokerHandle
  <2>3. ASSUME call = "connack", inbox = <<>> PROVE down' # <<>>
    <3>1. PICK r \in Seq(Unit) : r = Reply(Head(up))
      BY <2>1, ReplyType
    <3>2. down \in Seq(Unit) /\ down' = down \o r
      BY <2>1, <3>1, Lens
    <3>3. r # <<>> \/ down # <<>>
      BY <1>1, <2>1, <2>3, <3>1 DEF Heard, Reply, Units
    <3>4. down \o r # <<>>
      BY <3>2, <3>3, Nonempty
    <3> QED BY <3>2, <3>4
  <2>4. /\ call' = call /\ inbox' = inbox
        /\ downAge' \in Nat /\ outAge' \in Nat /\ waitAge' \in Nat /\ silence' = 0
    BY <2>1
  <2>5. KeepAlive \in Nat /\ Carry \in Nat /\ Latency \in Nat
    OBVIOUS
  <2>6. /\ silence' <= KeepAlive + Carry + upAge' /\ silence' <= outAge'
        /\ silence' <= KeepAlive + waitAge' /\ silence' <= Latency
        /\ silence' <= downAge' /\ silence' <= Latency + waitAge'
    <3>1. \A a, b, c \in Nat : 0 <= a + b + c /\ 0 <= a + b /\ 0 <= a
      OBVIOUS
    <3> HIDE Numbers, Halves
    <3> QED BY <2>2, <2>4, <2>5, <3>1
  <2>8. silence' <= KeepAlive + (IF ran' THEN 0 ELSE Carry)
    BY <2>4, <2>5
  <2>7. call' = "connack" /\ inbox' = <<>> => down' # <<>>
    BY <2>3, <2>4
  <2> QED BY <1>1, <2>6, <2>7, <2>8 DEF Heard
<1>4. ASSUME NEW t \in Topics, NEW q \in QosLevels, NEW v \in Values, NEW s \in Sizes,
             BrokerPublish(t, q, v, s)
      PROVE  Heard'
  <2>1. UNCHANGED <<session, call, inbox, up, upAge, downAge, outAge, silence, ran, waitAge>>
    BY <1>4 DEF BrokerPublish, peer, timers, lib
  <2>2. PICK p \in ToClient : down' = down \o Units(p)
    BY <1>4, PublicationType DEF BrokerPublish
  <2>3. down' # <<>>
    <3>1. Units(p) \in Seq(Unit) /\ Units(p) # <<>> /\ down \in Seq(Unit)
      BY UnitsType, Lens DEF Units
    <3> QED BY <2>2, <3>1, Nonempty
  <2> QED BY <2>1, <2>3 DEF Heard
<1>5. CASE BrokerRefuse
  BY <1>1, <1>5 DEF BrokerRefuse, peer
<1>6. CASE BrokerCrash \/ BrokerExpire \/ LinkCut
  BY <1>1, <1>6 DEF BrokerCrash, BrokerExpire, LinkCut, PeerGone
<1>7. CASE BrokerRestart
  BY <1>7 DEF BrokerRestart, Heard, link, peer, timers, lib
<1>8. QED BY <1>2, <1>3, <1>4, <1>5, <1>6, <1>7 DEF Environment

\* Time passes: the count grows with outAge, upAge, downAge or waitAge.
LEMMA PassesHeard ==
  ASSUME PromptPings, Sound, InStep, RanLately, Heard, Passes
  PROVE  Heard'
<1> USE Numbers, Halves DEF Sound
<1>q. ~session' => silence' = 0
  BY Quiet
<1>1. SUFFICES ASSUME session' PROVE Heard'
  BY <1>q DEF Heard
<1>2. /\ call' = call /\ session' = session /\ inbox' = inbox /\ down' = down /\ up' = up
      /\ ran' = FALSE
      /\ Blocked \/ (call = "idle" /\ ran)
      /\ silence' <= silence + 1 /\ silence' \in Int
      /\ up # <<>> => upAge' = upAge + 1
      /\ down # <<>> => downAge' = downAge + 1 /\ downAge < Latency
  <2>1. silence' = UpTo(ExpireTime + 1, silence + 1)
    BY <1>1 DEF Passes, Elapse
  <2>2. silence' <= silence + 1 /\ silence' \in Int
    BY ONLY <2>1, Zeroes, Sound, Numbers DEF Sound, UpTo
  <2> QED BY <2>2 DEF Passes, Elapse
<1>3. outAge' < AgeBound => outAge < AgeBound /\ outAge' = outAge + 1
  <2>1. outAge' = UpTo(AgeBound, outAge + 1)
    BY DEF Passes, Elapse
  <2> QED BY <2>1 DEF UpTo
<1>4. call \in {"connackBody", "loopBody"} => waitAge' = waitAge + 1
  <2>1. ASSUME call \in {"connackBody", "loopBody"}
        PROVE  waitAge' = UpTo(SocketTimeout, waitAge + 1) /\ waitAge < SocketTimeout
    BY <1>2, <2>1 DEF Passes, Elapse, Blocked
  <2> QED BY ONLY <2>1, Sound, Numbers DEF Sound, UpTo
<1>5. call = "connack" => inbox = <<>>
  BY <1>2 DEF Blocked
<1>6. call = "idle" => ran
  BY <1>2 DEF Blocked
<1>7. up' # <<>> => silence' <= KeepAlive + Carry + upAge'
  <2>1. up # <<>> => silence <= KeepAlive + Carry + upAge
    BY <1>1, <1>2 DEF Heard
  <2>2. up # <<>> => upAge' = upAge + 1 /\ silence' <= silence + 1 /\ silence' \in Int
    BY <1>2
  <2>3. /\ silence \in Nat /\ KeepAlive \in Nat /\ Carry \in Nat /\ upAge \in Nat
        /\ up' = up
    BY <1>2
  <2> QED BY ONLY <2>1, <2>2, <2>3
<1>8. ASSUME up' = <<>>, outAge' < AgeBound PROVE silence' <= outAge'
  <2>1. silence <= outAge /\ outAge' = outAge + 1
    BY <1>1, <1>2, <1>3, <1>8 DEF Heard
  <2>2. silence' <= silence + 1 /\ silence' \in Int
    BY <1>2
  <2> QED BY ONLY <2>1, <2>2, Sound, Numbers DEF Sound
<1>9. ASSUME up' = <<>>, call' = "idle" PROVE silence' <= KeepAlive + IF ran' THEN 0 ELSE Carry
  <2>1. silence <= KeepAlive + (IF ran THEN 0 ELSE Carry)
    BY <1>1, <1>2, <1>9 DEF Heard
  <2>2. silence' <= silence + 1 /\ silence' \in Int /\ ran /\ ~ran'
    BY <1>2, <1>6, <1>9
  <2> QED BY ONLY <2>1, <2>2, Sound, Numbers, PromptPings, Halves DEF Sound
<1>10. ASSUME up' = <<>>, call' = "loopBody" PROVE silence' <= KeepAlive + waitAge'
  <2>1. silence <= KeepAlive + waitAge
    BY <1>1, <1>2, <1>10 DEF Heard
  <2>2. waitAge' = waitAge + 1 /\ silence' <= silence + 1 /\ silence' \in Int
    BY <1>2, <1>4, <1>10
  <2> QED BY <2>1, <2>2
<1>11. ASSUME call' = "connack"
       PROVE  silence' <= Latency /\ (inbox' = <<>> => down' # <<>> /\ silence' <= downAge')
  <2>1. down # <<>> /\ silence <= downAge
    BY <1>1, <1>2, <1>5, <1>11 DEF Heard
  <2>2. /\ downAge' = downAge + 1 /\ downAge < Latency
        /\ silence' <= silence + 1 /\ silence' \in Int /\ down' = down
    BY <1>2, <2>1
  <2>3. silence \in Nat /\ downAge \in Nat /\ Latency \in Nat
    OBVIOUS
  <2> QED BY ONLY <2>1, <2>2, <2>3
<1>12. ASSUME call' = "connackBody" PROVE silence' <= Latency + waitAge'
  <2>1. silence <= Latency + waitAge
    BY <1>1, <1>2, <1>12 DEF Heard
  <2>2. waitAge' = waitAge + 1 /\ silence' <= silence + 1 /\ silence' \in Int
    BY <1>2, <1>4, <1>12
  <2> QED BY <2>1, <2>2
<1>13. QED BY <1>1, <1>7, <1>8, <1>9, <1>10, <1>11, <1>12 DEF Heard


\* The hypothesis of the client's side: what may be unread is read before a wait or a
\* keepalive interval is over.
ShortBacklog == Backlog < SocketTimeout /\ Backlog <= KeepAlive

\* What reading packets one by one takes.
LEMMA ReadingsLeft ==
  ASSUME NEW n \in Nat
  PROVE  /\ Readings(n) \in Nat /\ Readings(0) = 0 /\ (n >= 1 => Readings(n) >= 1)
         /\ n >= 2 => Readings(n) = Readings(n - 2) + 1
         /\ n <= MaxUnits => Readings(n) <= Backlog
         /\ Backlog \in Nat
<1>1. MaxUnits \in Nat
  BY PubSubAssumption
<1>2. QED BY <1>1 DEF Readings, Backlog

\* What was received and is not read.
LEMMA Unread ==
  ASSUME TypeOK
  PROVE  /\ Len(inbox) \in Nat /\ Len(inbox) <= MaxUnits /\ (inbox # <<>> <=> Len(inbox) > 0)
         /\ inbox' = Tail(inbox) /\ inbox # <<>> =>
              Len(inbox') = Len(inbox) - 1 /\ (inbox' # <<>> <=> Len(inbox) > 1)
<1>1. /\ inbox \in Seq(Unit) /\ Len(inbox) \in Nat /\ Len(inbox) <= MaxUnits
      /\ inbox # <<>> <=> Len(inbox) > 0
  BY Lens DEF TypeOK, Streams
<1>2. ASSUME inbox' = Tail(inbox), inbox # <<>>
      PROVE  Len(inbox') = Len(inbox) - 1 /\ (inbox' # <<>> <=> Len(inbox) > 1)
  <2>1. /\ inbox' \in Seq(Unit) /\ Len(inbox') = Len(inbox) - 1
    BY <1>1, <1>2, TailOf
  <2>2. inbox' # <<>> <=> Len(inbox') > 0
    BY <2>1
  <2> QED BY <1>1, <2>1, <2>2
<1>3. QED BY <1>1, <1>2

\* On a dead connection a call goes on: it reads what is there or gives up.
LEMMA LibraryDying ==
  ASSUME Prompt, Sound, InStep, RanLately, Dying, LibraryStep, cut', deadAge' = deadAge
  PROVE  Dying'
<1> USE Numbers, Unread DEF Sound
<1>0. deadAge' \in Nat
  BY DEF Dying
<1>1. CASE TcpUp \/ TcpFail
  BY <1>1 DEF TcpUp, TcpFail, SocketKept, LinkKept, link
<1>2. CASE ConnackTimeout \/ ConnackBodyTimeout
  BY <1>2 DEF ConnackTimeout, ConnackBodyTimeout, CloseLink
<1>3. CASE ConnackHead
  BY <1>0, <1>3 DEF ConnackHead, Dying
<1>4. CASE ConnackBody
  <2>1. call = "connackBody" /\ call' = "idle" /\ inbox # <<>> /\ inbox' = Tail(inbox)
          /\ inAge' = 0 /\ pingOutstanding' = FALSE /\ cut
    BY <1>4 DEF ConnackBody, CloseLink, Return
  <2>2. deadAge = 0
    BY <2>1 DEF Dying
  <2>3. Len(inbox') \in Nat /\ Len(inbox') <= MaxUnits
    BY <2>1
  <2>4. Readings(Len(inbox')) <= Backlog /\ Readings(Len(inbox')) \in Nat /\ Backlog \in Nat
    BY <2>3, ReadingsLeft
  <2>5. 0 + Readings(Len(inbox')) <= Backlog + (IF ran' THEN 0 ELSE 1) /\ 0 <= Backlog + 0
    BY ONLY <2>4
  <2> QED BY <2>1, <2>2, <2>5 DEF Dying
<1>5. CASE LoopBody
  <2>1. call = "loopBody" /\ call' = "idle" /\ inbox # <<>> /\ inbox' = Tail(inbox) /\ cut
          /\ inAge' \in Nat
    BY <1>5 DEF LoopBody, Finishes, ReturnConnected, NoteLoss, CloseLink, Return
  <2>2. Len(inbox') \in Nat /\ Len(inbox') = Len(inbox) - 1
    BY <2>1
  <2>3. deadAge + Readings(Len(inbox')) <= Backlog
    BY <2>1, <2>2 DEF Dying
  <2>4. Readings(Len(inbox')) \in Nat /\ Backlog \in Nat
    BY <2>2, ReadingsLeft
  <2>5. deadAge \in Nat
    BY DEF Dying
  <2>6. deadAge <= Backlog
    BY ONLY <2>3, <2>4, <2>5
  <2>7. UpTo(KeepAlive + 1, inAge') \in Nat /\ AgeBound \in Nat /\ inAge' \in Nat
    <3>1. inAge' \in Nat /\ AgeBound \in Nat /\ KeepAlive \in Nat
      BY <2>1
    <3> QED BY ONLY <3>1 DEF UpTo
  <2>8. /\ deadAge <= Backlog + AgeBound + UpTo(KeepAlive + 1, inAge')
        /\ deadAge <= Backlog + inAge'
    <3>1. \A a, b, c, d \in Nat : d <= a => d <= a + b /\ d <= a + b + c
      BY ONLY TRUE
    <3> QED BY ONLY <2>4, <2>5, <2>6, <2>7, <3>1
  <2>9. call' = "idle" /\ deadAge' = deadAge /\ ~(call' = "connack") /\ ~(call' = "connackBody")
          /\ ~(call' = "loopBody") /\ deadAge + Readings(Len(inbox')) <= Backlog + 0
    BY <2>1, <2>3, <2>4
  <2>10. deadAge + Readings(Len(inbox')) <= Backlog + IF ran' THEN 0 ELSE 1
    BY ONLY <2>3, <2>4, <2>5
  <2> QED BY ONLY <1>0, <2>1, <2>8, <2>9, <2>10, cut' DEF Dying
<1>6. CASE LoopBodyTimeout
  <2>1. call = "loopBody" /\ call' = "idle" /\ inbox = <<>> /\ inbox' = <<>> /\ cut
          /\ inAge' = inAge
    BY <1>6 DEF LoopBodyTimeout, GivesUp, ReturnConnected, NoteLoss, CloseLink, Return
  <2>2. deadAge <= Backlog + waitAge /\ waitAge <= inAge
    BY <2>1 DEF Dying, RanLately, Mid
  <2>3. Backlog \in Nat /\ UpTo(KeepAlive + 1, inAge) \in Nat /\ AgeBound \in Nat /\ inAge \in Nat
          /\ waitAge \in Nat /\ waitAge <= AgeBound
    <3>1. UpTo(KeepAlive + 1, inAge) \in Nat
      BY DEF UpTo
    <3> QED BY <3>1, ReadingsLeft
  <2>4. deadAge \in Nat
    BY DEF Dying
  <2>5. /\ deadAge <= Backlog + AgeBound + UpTo(KeepAlive + 1, inAge)
        /\ deadAge <= Backlog + inAge
    BY ONLY <2>2, <2>3, <2>4
  <2> QED BY <1>0, <2>1, <2>5 DEF Dying
<1>7. CASE GarbageRead
  BY <1>7, NoGarbage DEF GarbageRead, Mid
<1>8. QED BY <1>1, <1>2, <1>3, <1>4, <1>5, <1>6, <1>7 DEF LibraryStep

\* ... a call is made: loop() takes a packet, sends a ping or leaves the times alone.
LEMMA CallerDying ==
  ASSUME Sound, InStep, RanLately, Dying, CallerStep, cut', deadAge' = deadAge
  PROVE  Dying'
<1> USE Numbers, Unread DEF Sound
<1>0. deadAge' \in Nat
  BY DEF Dying
<1>1. ASSUME cut, UNCHANGED <<call, inbox, inAge, pingOutstanding, waitAge, ran>> PROVE Dying'
  BY <1>1 DEF Dying
<1>2. ASSUME NEW p, Write(p) PROVE Dying'
  <2>1. cut /\ UNCHANGED <<call, inbox, inAge, pingOutstanding, waitAge, ran>>
    BY <1>2 DEF Write, NoteLoss, CloseLink, link
  <2> QED BY <1>1, <2>1
<1>3. CASE CallConnect
  <2>1. Connected
    BY <1>3 DEF CallConnect, Connected, TcpConnected, NoteLoss, CloseLink, SocketKept, InConnect
  <2>2. cut /\ UNCHANGED <<call, inbox, inAge, pingOutstanding, waitAge, ran>>
    BY <1>3, <2>1 DEF CallConnect, link
  <2> QED BY <1>1, <2>2
<1>4. CASE LoopNotConnected
  BY <1>4 DEF LoopNotConnected, Connected, TcpConnected, NoteLoss, CloseLink, SocketKept, InConnect
<1>5. CASE LoopPingTimeout \/ CallDisconnect
  BY <1>5 DEF LoopPingTimeout, CallDisconnect, CloseLink
<1>6. CASE LoopRun
  <2>1. call = "idle" /\ cut /\ waitAge' = 0
    BY <1>6 DEF LoopRun
  <2>2. CASE inbox # <<>>
    <3>1. call' = "loopBody" /\ inbox' = Tail(inbox) /\ Len(inbox') = Len(inbox) - 1
            /\ (inbox' # <<>> <=> Len(inbox) > 1) /\ Len(inbox) >= 1
      <4>1. call' = "loopBody" /\ inbox' = Tail(inbox)
        BY <1>6, <2>2 DEF LoopRun
      <4> QED BY ONLY <2>2, <4>1, Sound, Unread DEF Sound
    <3>2. deadAge + Readings(Len(inbox)) <= Backlog + 1 /\ deadAge \in Nat
      <4>1. deadAge + Readings(Len(inbox)) <= Backlog + (IF ran THEN 0 ELSE 1) /\ deadAge \in Nat
        BY <2>1, <2>2 DEF Dying
      <4>2. Backlog \in Nat /\ Readings(Len(inbox)) \in Nat
        BY ReadingsLeft
      <4> QED BY ONLY <4>1, <4>2
    <3>3. CASE inbox' # <<>>
      <4>1. Len(inbox) >= 2 /\ Len(inbox) \in Nat /\ Len(inbox') - 1 = Len(inbox) - 2
        BY <3>1, <3>3
      <4>2. Readings(Len(inbox)) = Readings(Len(inbox) - 2) + 1 /\ Readings(Len(inbox) - 2) \in Nat
              /\ Backlog \in Nat
        BY <4>1, ReadingsLeft
      <4>3. deadAge + Readings(Len(inbox) - 2) <= Backlog
        BY ONLY <3>2, <4>2
      <4> QED BY <1>0, <3>1, <3>3, <4>1, <4>3 DEF Dying
    <3>4. CASE inbox' = <<>>
      <4>1. Readings(Len(inbox)) >= 1 /\ Readings(Len(inbox)) \in Nat /\ Backlog \in Nat
        BY <3>1, ReadingsLeft
      <4>2. deadAge <= Backlog + waitAge'
        BY ONLY <2>1, <3>2, <4>1
      <4> QED BY <1>0, <3>1, <3>4, <4>2 DEF Dying
    <3> QED BY <3>3, <3>4
  <2>3. CASE inbox = <<>>
    <3>1. call' = "idle" /\ inbox' = <<>>
      BY <1>6, <2>1, <2>3 DEF LoopRun
    <3>2. Backlog \in Nat
      BY ReadingsLeft
    <3>3. CASE PingDue
      <4>1. ~pingOutstanding /\ inAge' = 0 /\ pingOutstanding'
        BY <1>6, <3>3 DEF LoopRun
      <4>2. deadAge <= Backlog + inAge
        BY <2>1, <2>3, <4>1 DEF Dying
      <4>3. UpTo(KeepAlive + 1, inAge') = 0
        BY <4>1 DEF UpTo
      <4>4. deadAge <= Backlog + AgeBound + UpTo(KeepAlive + 1, inAge')
        <5>1. AgeBound \in Nat /\ inAge \in Nat /\ inAge <= AgeBound /\ deadAge \in Nat
          BY DEF Dying
        <5> QED BY ONLY <3>2, <4>2, <4>3, <5>1
      <4> QED BY <1>0, <3>1, <4>1, <4>4 DEF Dying
    <3>4. CASE ~PingDue
      <4>1. UNCHANGED <<inAge, pingOutstanding>>
        BY <1>6, <3>4 DEF LoopRun
      <4> QED BY <1>0, <2>1, <2>3, <3>1, <4>1 DEF Dying
    <3> QED BY <3>3, <3>4
  <2> QED BY <2>2, <2>3
<1>7. QED BY <1>2, <1>3, <1>4, <1>5, <1>6 DEF CallerStep, CallLoop, CallPublish, CallSubscribe

\* ... the path dies, or the broker comes back: nothing else can happen.
LEMMA EnvironmentDying ==
  ASSUME Sound, Dying, Environment, cut', deadAge' = deadAge
  PROVE  Dying'
<1> USE Numbers, Unread DEF Sound
<1>1. CASE ~cut
  <2>1. LinkCut
    BY <1>1 DEF Environment, Deliver, BrokerHandle, BrokerPublish, BrokerRefuse, BrokerCrash,
                BrokerRestart, BrokerExpire, PeerGone, link
  <2>2. deadAge = 0 /\ UNCHANGED <<call, inbox, timers, lib>>
    BY <1>1, <2>1 DEF LinkCut, Dying, lib
  <2>3. Readings(Len(inbox)) <= Backlog /\ Readings(Len(inbox)) \in Nat /\ Backlog \in Nat
    BY ReadingsLeft
  <2>4. inbox # <<>> => Len(inbox) - 1 \in Nat /\ Len(inbox) - 1 <= MaxUnits
    OBVIOUS
  <2>5. inbox # <<>> => Readings(Len(inbox) - 1) <= Backlog /\ Readings(Len(inbox) - 1) \in Nat
    BY <2>4, ReadingsLeft
  <2>6. UpTo(KeepAlive + 1, inAge) \in Nat /\ AgeBound \in Nat /\ inAge \in Nat /\ waitAge \in Nat
    BY DEF UpTo
  <2>7. /\ call' = call /\ inbox' = inbox /\ inAge' = inAge /\ waitAge' = waitAge /\ deadAge' = 0
        /\ pingOutstanding' = pingOutstanding /\ ran' = ran
    BY <2>2 DEF timers, lib
  <2>8. /\ 0 + Readings(Len(inbox)) <= Backlog + (IF ran THEN 0 ELSE 1)
        /\ 0 <= Backlog + waitAge /\ 0 <= Backlog + inAge
        /\ 0 <= Backlog + AgeBound + UpTo(KeepAlive + 1, inAge)
        /\ inbox # <<>> => 0 + Readings(Len(inbox) - 1) <= Backlog
    BY ONLY <2>3, <2>5, <2>6
  <2>9. 0 <= inAge /\ 0 <= waitAge
    BY ONLY <2>6
  <2> QED BY <2>7, <2>8, <2>9 DEF Dying
<1>2. CASE cut
  <2>1. down = <<>> /\ up = <<>> /\ ~session
    BY <1>2 DEF LinkKept, Intact
  <2>2. BrokerRestart
    BY <1>2, <2>1 DEF Environment, Deliver, BrokerHandle, BrokerPublish, BrokerRefuse, BrokerCrash,
                BrokerExpire, PeerGone, LinkCut
  <2> QED BY <2>2 DEF BrokerRestart, Dying, link, timers, lib
<1>3. QED BY <1>1, <1>2

\* ... time passes, and inAge, waitAge or the readings left account for it.
LEMMA PassesDying ==
  ASSUME Sound, InStep, RanLately, Dying, Passes, cut',
         deadAge' = UpTo(DetectTime + 1, deadAge + 1)
  PROVE  Dying'
<1> USE Numbers, Unread DEF Sound
<1>1. /\ call' = call /\ inbox' = inbox /\ pingOutstanding' = pingOutstanding /\ cut /\ ran' = FALSE
      /\ Blocked \/ (call = "idle" /\ ran)
  BY DEF Passes, Elapse
<1>2. deadAge' <= deadAge + 1 /\ deadAge' \in Nat /\ deadAge \in Nat
  <2>1. deadAge \in Nat
    BY DEF Dying
  <2>2. DetectTime \in Nat
    BY ONLY Sound, Numbers DEF Sound, DetectTime
  <2> QED BY ONLY <2>1, <2>2, deadAge' = UpTo(DetectTime + 1, deadAge + 1) DEF UpTo
<1>3. inAge' = UpTo(AgeBound, inAge + 1)
  BY DEF Passes, Elapse
<1>4. call \in {"connackBody", "loopBody"} => waitAge' = waitAge + 1 /\ inbox = <<>>
  BY <1>1 DEF Passes, Elapse, UpTo, Blocked
<1>5. CASE call = "connack"
  <2>1. inAge < SocketTimeout /\ inbox = <<>>
    BY <1>1, <1>5 DEF Blocked
  <2>2. inAge' = inAge + 1
    BY <1>3, <2>1 DEF UpTo
  <2>3. deadAge <= inAge
    BY <1>1, <1>5 DEF Dying
  <2>4. deadAge' <= inAge'
    BY ONLY <1>2, <2>2, <2>3, Sound, Numbers DEF Sound
  <2> QED BY <1>1, <1>2, <1>5, <2>1, <2>4 DEF Dying
<1>6. CASE call = "connackBody"
  <2>1. deadAge <= waitAge
    BY <1>1, <1>6 DEF Dying
  <2>2. deadAge' <= waitAge'
    BY ONLY <1>2, <1>4, <1>6, <2>1, Sound, Numbers DEF Sound
  <2> QED BY <1>1, <1>2, <1>4, <1>6, <2>2 DEF Dying
<1>7. CASE call = "loopBody"
  <2>1. deadAge <= Backlog + waitAge /\ Backlog \in Nat
    BY <1>1, <1>4, <1>7, ReadingsLeft DEF Dying
  <2>2. waitAge' = waitAge + 1 /\ waitAge \in Nat
    BY <1>4, <1>7
  <2>3. deadAge' <= Backlog + waitAge'
    BY ONLY <1>2, <2>1, <2>2
  <2> QED BY <1>1, <1>2, <1>4, <1>7, <2>3 DEF Dying
<1>8. CASE call = "idle"
  <2>1. ran /\ inAge <= KeepAlive
    BY <1>1, <1>8 DEF Blocked, RanLately, LinkKept
  <2>2. inAge' = inAge + 1 /\ inAge' <= KeepAlive + 1
    BY ONLY <1>3, <2>1, Sound, Numbers DEF Sound, UpTo
  <2>3. UpTo(KeepAlive + 1, inAge) = inAge /\ UpTo(KeepAlive + 1, inAge') = inAge + 1
    BY ONLY <2>1, <2>2, Sound, Numbers DEF Sound, UpTo
  <2>4. Backlog \in Nat /\ Readings(Len(inbox)) \in Nat
    BY ReadingsLeft
  <2>5. CASE inbox # <<>>
    <3>1. deadAge + Readings(Len(inbox)) <= Backlog
      BY <1>1, <1>8, <2>1, <2>4, <2>5 DEF Dying
    <3>2. deadAge' + Readings(Len(inbox)) <= Backlog + 1
      BY ONLY <1>2, <2>4, <3>1
    <3> QED BY <1>1, <1>2, <1>8, <2>5, <3>2 DEF Dying
  <2>6. CASE inbox = <<>> /\ pingOutstanding
    <3>1. deadAge <= Backlog + AgeBound + inAge
      BY <1>1, <1>8, <2>3, <2>6 DEF Dying
    <3>2. AgeBound \in Nat /\ inAge \in Nat
      OBVIOUS
    <3>3. deadAge' <= Backlog + AgeBound + UpTo(KeepAlive + 1, inAge')
      BY ONLY <1>2, <2>3, <2>4, <3>1, <3>2
    <3> QED BY <1>1, <1>2, <1>8, <2>6, <3>3 DEF Dying
  <2>7. CASE inbox = <<>> /\ ~pingOutstanding
    <3>0. inAge \in Nat
      OBVIOUS
    <3>1. deadAge <= Backlog + inAge
      BY <1>1, <1>8, <2>7 DEF Dying
    <3>2. deadAge' <= Backlog + inAge'
      BY ONLY <1>2, <2>2, <2>4, <3>1, <3>0
    <3> QED BY <1>1, <1>2, <1>8, <2>7, <3>2 DEF Dying
  <2> QED BY <2>5, <2>6, <2>7
<1>9. CASE call = "tcp"
  BY <1>1, <1>9 DEF SocketKept, LinkKept
<1>10. QED BY <1>5, <1>6, <1>7, <1>8, <1>9 DEF TypeOK, Modes, Calls

\* What is to be read, and then to be waited for, is over within DetectTime.
LEMMA DeadIsFound ==
  ASSUME Sound, ShortBacklog, Dying
  PROVE  DeadPeerFound
<1> USE Numbers, Unread DEF Sound
<1>1. Backlog \in Nat /\ Backlog < SocketTimeout /\ Backlog <= KeepAlive
  BY ReadingsLeft DEF ShortBacklog
<1>n. AgeBound \in Nat /\ KeepAlive \in Nat /\ SocketTimeout \in Nat /\ inAge \in Nat
        /\ inAge <= AgeBound /\ waitAge \in Nat /\ waitAge <= SocketTimeout
  OBVIOUS
<1>2. AgeBound = KeepAlive + 1 \/ AgeBound = SocketTimeout
  BY DEF AgeBound
<1>3. AgeBound <= KeepAlive + SocketTimeout /\ Backlog + AgeBound <= KeepAlive + SocketTimeout
  BY ONLY <1>1, <1>2, <1>n
<1>4. deadAge \in Nat
  BY DEF Dying
<1>5. CASE ~cut \/ call = "tcp"
  <2>1. deadAge = 0
    BY <1>5 DEF Dying, SocketKept, LinkKept
  <2> QED BY ONLY <1>n, <2>1 DEF DeadPeerFound, DetectTime
<1>6. CASE cut /\ call \in {"connack", "connackBody"}
  <2>1. deadAge <= inAge \/ deadAge <= waitAge
    BY <1>6 DEF Dying
  <2> QED BY ONLY <1>1, <1>2, <1>4, <1>n, <2>1 DEF DeadPeerFound, DetectTime
<1>7. CASE cut /\ call = "loopBody"
  <2>1. inbox # <<>> => Len(inbox) - 1 \in Nat
    OBVIOUS
  <2>2. inbox # <<>> => Readings(Len(inbox) - 1) \in Nat
    BY <2>1, ReadingsLeft
  <2>3. deadAge <= Backlog + waitAge
    <3>1. \/ inbox # <<>> /\ deadAge + Readings(Len(inbox) - 1) <= Backlog
          \/ deadAge <= Backlog + waitAge
      BY <1>7 DEF Dying
    <3> QED BY ONLY <1>1, <1>4, <1>n, <2>2, <3>1
  <2> QED BY ONLY <1>1, <1>4, <1>n, <2>3 DEF DeadPeerFound, DetectTime
<1>8. CASE cut /\ call = "idle" /\ inbox # <<>>
  <2>1. Readings(Len(inbox)) \in Nat /\ Readings(Len(inbox)) >= 1
    BY <1>8, ReadingsLeft
  <2>2. deadAge + Readings(Len(inbox)) <= Backlog + (IF ran THEN 0 ELSE 1)
    BY <1>8 DEF Dying
  <2>3. deadAge <= Backlog
    BY ONLY <1>1, <1>4, <2>1, <2>2
  <2> QED BY ONLY <1>1, <1>4, <1>n, <2>3 DEF DeadPeerFound, DetectTime
<1>9. CASE cut /\ call = "idle" /\ inbox = <<>>
  <2>1. UpTo(KeepAlive + 1, inAge) \in Nat /\ UpTo(KeepAlive + 1, inAge) <= KeepAlive + 1
    BY ONLY <1>n DEF UpTo
  <2>2. deadAge <= Backlog + AgeBound + UpTo(KeepAlive + 1, inAge) \/ deadAge <= Backlog + inAge
    BY <1>9 DEF Dying
  <2>3. deadAge <= Backlog + AgeBound + (KeepAlive + 1)
    BY ONLY <1>1, <1>4, <1>n, <2>1, <2>2
  <2> QED BY ONLY <1>1, <1>3, <1>4, <1>n, <2>3 DEF DeadPeerFound, DetectTime
<1>10. QED BY <1>5, <1>6, <1>7, <1>8, <1>9 DEF TypeOK, Modes, Calls


\* The time an answer may take is a number.
LEMMA DueType ==
  ASSUME TypeOK, NEW k \in Nat
  PROVE  Due(k) \in Int /\ AnswerTime \in Nat /\ Received \in Nat
<1>1. Received \in Nat
  BY Lens DEF Received
<1>2. MaxUnits \div 2 \in Nat /\ Latency \in Nat /\ downAge \in Nat
  BY Numbers
<1>3. AnswerTime \in Nat
  BY ONLY <1>2 DEF AnswerTime
<1>4. k \div 2 \in Nat
  BY ONLY k \in Nat
<1>5. Latency + downAge \in Int
  BY ONLY <1>2
<1>6. AnswerTime - (k \div 2) + (IF call = "idle" /\ ran THEN 0 ELSE 1) \in Int
  BY ONLY <1>3, <1>4
<1>7. Due(k) \in Int
  BY ONLY <1>5, <1>6 DEF Due
<1>8. QED BY <1>1, <1>3, <1>7

\* The ages never exceed what they may be while the pings under way stay, move on with
\* no more time to go, or turn from requests into answers.
LEMMA PingGoesOn ==
  ASSUME TypeOK, PingInTime, inAge' \in Int, outAge' \in Int, upAge' \in Int,
         inAge' <= inAge, outAge' <= outAge,
         Intact' /\ state' = "CONNECTED" /\ pingOutstanding'
           => Intact /\ state = "CONNECTED" /\ pingOutstanding,
         \A i \in 1..Len(up') : Asked(i)' => upAge <= upAge' /\ \E j \in 1..Len(up) : Asked(j),
         \A k \in 1..StreamLen' : Answered(k)' =>
           /\ Due(k)' \in Int
           /\ \/ \E l \in 1..StreamLen : Answered(l) /\ Due(l) <= Due(k)'
              \/ (\E j \in 1..Len(up) : Asked(j)) /\ upAge <= Due(k)'
  PROVE  PingInTime'
<1>1. SUFFICES ASSUME Intact', state' = "CONNECTED", pingOutstanding' PROVE PingInTime'
  BY DEF PingInTime
<1>2. Intact /\ state = "CONNECTED" /\ pingOutstanding
  BY <1>1
<1>3. inAge \in Nat /\ outAge \in Nat /\ upAge \in Nat
  BY Numbers
<1>4. ASSUME NEW i \in 1..Len(up'), Asked(i)' PROVE inAge' <= upAge' /\ outAge' <= upAge'
  <2>1. inAge <= upAge /\ outAge <= upAge
    BY <1>2, <1>4 DEF PingInTime
  <2>2. upAge <= upAge'
    BY <1>4
  <2> QED BY <1>3, <2>1, <2>2
<1>5. ASSUME NEW k \in 1..StreamLen', Answered(k)' PROVE inAge' <= Due(k)' /\ outAge' <= Due(k)'
  <2>1. PICK d \in Int : d = Due(k)'
    BY <1>5
  <2>2. CASE (\E j \in 1..Len(up) : Asked(j)) /\ upAge <= Due(k)'
    <3>1. inAge <= upAge /\ outAge <= upAge
      BY <1>2, <2>2 DEF PingInTime
    <3> QED BY <1>3, <2>1, <2>2, <3>1
  <2>3. CASE \E l \in 1..StreamLen : Answered(l) /\ Due(l) <= Due(k)'
    <3>1. PICK l \in 1..StreamLen : Answered(l) /\ Due(l) <= Due(k)'
      BY <2>3
    <3>2. PICK e \in Int : e = Due(l)
      BY DueType, Lens
    <3>3. inAge <= e /\ outAge <= e /\ e <= d
      BY <1>2, <2>1, <3>1, <3>2 DEF PingInTime
    <3>4. inAge' <= d /\ outAge' <= d
      BY <1>3, <3>3
    <3> QED BY <2>1, <3>4
  <2> QED BY <1>5, <2>2, <2>3
<1>6. QED BY <1>4, <1>5 DEF PingInTime

\* The time an answer has left does not shrink while it stays where it is.
LEMMA DueSame ==
  ASSUME TypeOK, NEW k \in Nat, Received' = Received, downAge' = downAge,
         k > Received \/ ~(call' = "idle" /\ ran') \/ (call = "idle" /\ ran)
  PROVE  Due(k)' \in Int /\ Due(k) <= Due(k)'
<1>1. AnswerTime \in Nat /\ Received \in Nat /\ Latency \in Nat /\ downAge \in Nat
  BY DueType, Numbers
<1>2. k \div 2 \in Nat
  BY ONLY k \in Nat
<1>3. CASE k > Received
  <2>1. Due(k) = Latency + downAge /\ Due(k)' = Latency + downAge
    BY ONLY <1>3, Received' = Received, downAge' = downAge DEF Due
  <2> QED BY ONLY <1>1, <2>1
<1>4. CASE ~(k > Received)
  <2>1. PICK h \in Nat : h = k \div 2
    BY <1>2
  <2>2. PICK c, d \in {0, 1} : /\ c = IF call = "idle" /\ ran THEN 0 ELSE 1
                               /\ d = IF call' = "idle" /\ ran' THEN 0 ELSE 1
    OBVIOUS
  <2>3. Due(k) = AnswerTime - h + c /\ Due(k)' = AnswerTime - h + d
    BY ONLY <1>4, <2>1, <2>2, Received' = Received DEF Due
  <2>4. c <= d
    BY <1>4, <2>2
  <2> QED BY ONLY <1>1, <2>1, <2>2, <2>3, <2>4
<1>5. QED BY <1>3, <1>4


\* A packet is read: each packet behind it has one reading less to go.
LEMMA DueTaken ==
  ASSUME TypeOK, NEW k \in Nat, Received \in Nat, Received >= 2, Received' = Received - 2,
         downAge' = downAge, ~(call = "idle" /\ ran)
  PROVE  Due(k)' \in Int /\ Due(k + 2) <= Due(k)'
<1>1. AnswerTime \in Nat /\ Latency \in Nat /\ downAge \in Nat
  BY DueType, Numbers
<1>2. PICK h \in Nat : h = k \div 2
  BY ONLY k \in Nat
<1>3. (k + 2) \div 2 = h + 1
  BY ONLY <1>2, k \in Nat
<1>4. k + 2 > Received <=> k > Received'
  BY ONLY k \in Nat, Received \in Nat, Received' = Received - 2
<1>5. CASE k > Received'
  <2>1. Due(k + 2) = Latency + downAge /\ Due(k)' = Latency + downAge
    BY ONLY <1>4, <1>5, downAge' = downAge DEF Due
  <2> QED BY ONLY <1>1, <2>1
<1>6. CASE ~(k > Received')
  <2>1. PICK d \in {0, 1} : d = IF call' = "idle" /\ ran' THEN 0 ELSE 1
    OBVIOUS
  <2>2. Due(k)' = AnswerTime - h + d
    BY ONLY <1>2, <1>6, <2>1 DEF Due
  <2>3. Due(k + 2) = AnswerTime - (h + 1) + 1
    BY ONLY <1>3, <1>4, <1>6, ~(call = "idle" /\ ran) DEF Due
  <2> QED BY ONLY <1>1, <1>2, <2>1, <2>2, <2>3
<1>7. QED BY <1>5, <1>6

\* An answer arrives: what is left is to read it and what is before it.
LEMMA DueArrived ==
  ASSUME TypeOK, NEW k \in Nat, k >= 1, Received' = Received + 1, Len(inbox) < MaxUnits,
         call' = call, ran' = ran, call \in {"idle", "loopBody"},
         k > Received' => downAge' = downAge
  PROVE  Due(k)' \in Int /\ Due(k) <= Due(k)'
<1>1. AnswerTime \in Nat /\ Latency \in Nat /\ downAge \in Nat /\ downAge <= Latency
        /\ Received \in Nat /\ MaxUnits \in Nat /\ MaxUnits \div 2 \in Nat
  <2>1. MaxUnits \in Nat
    BY Numbers
  <2>2. MaxUnits \div 2 \in Nat
    BY ONLY <2>1
  <2> QED BY <2>1, <2>2, DueType, Numbers
<1>2. PICK h \in Nat : h = k \div 2
  BY ONLY k \in Nat
<1>3. CASE k > Received'
  <2>1. k > Received
    BY ONLY <1>1, <1>3, k \in Nat, Received' = Received + 1
  <2>2. Due(k) = Latency + downAge /\ Due(k)' = Latency + downAge
    BY ONLY <1>3, <2>1, k > Received' => downAge' = downAge DEF Due
  <2> QED BY ONLY <1>1, <2>2
<1>4. CASE ~(k > Received')
  <2>1. PICK d \in {0, 1} : d = IF call = "idle" /\ ran THEN 0 ELSE 1
    OBVIOUS
  <2>2. Due(k)' = AnswerTime - h + d
    BY ONLY <1>2, <1>4, <2>1, call' = call, ran' = ran DEF Due
  <2>3. CASE k > Received
    <3>1. Due(k) = Latency + downAge
      BY ONLY <2>3 DEF Due
    <3>2. k <= Offset + MaxUnits /\ (Offset = 0 \/ (Offset = 1 /\ d = 1))
      <4>1. Received = Offset + Len(inbox) /\ Len(inbox) \in Nat /\ Offset \in {0, 1}
        BY Lens DEF Received
      <4>2. Offset = 1 => d = 1
        BY <2>1 DEF Offset, Mid
      <4>3. k <= Offset + MaxUnits
        BY ONLY <1>1, <1>4, <4>1, k \in Nat, Received' = Received + 1, Len(inbox) < MaxUnits
      <4> QED BY <4>1, <4>2, <4>3
    <3>3. h <= (MaxUnits \div 2) + d
      <4>1. CASE Offset = 0
        <5>1. k <= MaxUnits
          BY <1>1, <3>2, <4>1
        <5>2. h <= MaxUnits \div 2
          BY ONLY <1>1, <1>2, <5>1, k \in Nat
        <5> QED BY ONLY <1>1, <1>2, <2>1, <5>2
      <4>2. CASE Offset = 1 /\ d = 1
        <5>1. k <= MaxUnits + 1
          BY <1>1, <3>2, <4>2
        <5>2. h <= (MaxUnits \div 2) + 1
          BY ONLY <1>1, <1>2, <5>1, k \in Nat
        <5> QED BY ONLY <4>2, <5>2
      <4> QED BY <3>2, <4>1, <4>2
    <3>4. AnswerTime = 2 * Latency + (MaxUnits \div 2)
      BY DEF AnswerTime
    <3> QED BY ONLY <1>1, <1>2, <2>1, <2>2, <3>1, <3>3, <3>4
  <2>4. CASE ~(k > Received)
    <3>1. Due(k) = AnswerTime - h + d
      BY ONLY <1>2, <2>1, <2>4 DEF Due
    <3> QED BY ONLY <1>1, <1>2, <2>1, <2>2, <3>1
  <2> QED BY <2>3, <2>4
<1>5. QED BY <1>3, <1>4

\* A client that is not MQTT_CONNECTED, or has no connection, waits for no answer.
LEMMA NoPingOut ==
  ASSUME ~Intact' \/ state' # "CONNECTED" \/ ~pingOutstanding'
  PROVE  PingInTime'
BY DEF PingInTime

\* A client that is MQTT_CONNECTED is in none of the calls of connect().
LEMMA InNoConnect ==
  ASSUME Sound, state = "CONNECTED"
  PROVE  call \in {"idle", "loopBody"}
BY DEF Sound, TypeOK, Modes, Calls, SocketKept, InConnect

\* A step that leaves the stream, the ages and the requests alone.
LEMMA PingStays ==
  ASSUME TypeOK, PingInTime,
         UNCHANGED <<sock, open, cut, inbox, down, up, downAge, upAge, state, pingOutstanding, call,
                     partial, ran, inAge, outAge>>
  PROVE  PingInTime'
<1>1. Kept /\ (Intact' <=> Intact) /\ Received' = Received
  BY Untouched DEF Mid, Intact, Received, Offset
<1>2. /\ inAge \in Nat /\ outAge \in Nat /\ upAge \in Nat
      /\ call' = call /\ ran' = ran /\ downAge' = downAge
  BY Numbers
<1>3. ASSUME NEW i \in 1..Len(up'), Asked(i)'
      PROVE  upAge <= upAge' /\ \E j \in 1..Len(up) : Asked(j)
  BY <1>2, <1>3 DEF Asked
<1>4. ASSUME NEW k \in 1..StreamLen', Answered(k)'
      PROVE  Due(k)' \in Int /\ \E l \in 1..StreamLen : Answered(l) /\ Due(l) <= Due(k)'
  <2>1. k \in 1..StreamLen /\ Answered(k) /\ k \in Nat
    BY <1>1, <1>4, Lens DEF Kept, Answered
  <2>2. Due(k)' \in Int /\ Due(k) <= Due(k)'
    BY <1>1, <1>2, <2>1, DueSame
  <2> QED BY <2>1, <2>2
<1>5. QED BY <1>1, <1>2, <1>3, <1>4, PingGoesOn

\* The age of the ping: a call goes on.  Reading restarts inAge at waitAge, never later.
LEMMA LibraryPingInTime ==
  ASSUME Prompt, Sound, InStep, RanLately, PingInTime, LibraryStep
  PROVE  PingInTime'
<1> USE DEF Sound
<1>1. CASE TcpUp \/ TcpFail \/ ConnackHead
  <2>1. state' # "CONNECTED"
    BY <1>1 DEF TcpUp, TcpFail, ConnackHead, SocketKept, InConnect
  <2> QED BY <2>1, NoPingOut
<1>2. CASE ConnackTimeout \/ ConnackBodyTimeout
  BY <1>2, NoPingOut DEF ConnackTimeout, ConnackBodyTimeout, CloseLink, Intact
<1>3. CASE ConnackBody
  BY <1>3, NoPingOut DEF ConnackBody, CloseLink, Intact
<1>4. CASE LoopBody
  <2>1. CASE CloseLink
    BY <2>1, NoPingOut DEF CloseLink, Intact
  <2>2. CASE ~CloseLink
    <3>1. /\ call = "loopBody" /\ call' = "idle" /\ inbox # <<>> /\ inbox' = Tail(inbox)
          /\ UNCHANGED <<sock, open, cut, down, downAge, upAge, state, ran>>
          /\ Mid /\ ~Mid' /\ waitAge <= inAge /\ waitAge <= outAge
      BY <1>4, <2>2 DEF LoopBody, Finishes, ReturnConnected, NoteLoss, Return, RanLately, Mid
    <3>2. Taken /\ (Intact' <=> Intact)
      BY <3>1, BodyRead DEF Intact
    <3>3. Received \in Nat /\ Received >= 2 /\ Received' = Received - 2
      BY <3>1, Unread DEF Received, Offset
    <3>4. /\ inAge' \in {inAge, waitAge} /\ outAge' \in {outAge, waitAge}
          /\ pingOutstanding' => pingOutstanding
          /\ up' \in {up, Append(up, [type |-> "PUBACK"])}
      BY <1>4, <2>2 DEF LoopBody, ReturnConnected, NoteLoss, Answer, Sent, PingStillOut
    <3>5. /\ inAge' \in Int /\ outAge' \in Int /\ upAge' \in Int
          /\ inAge' <= inAge /\ outAge' <= outAge
          /\ upAge' = upAge /\ upAge \in Nat
      BY <3>1, <3>4, Numbers
    <3>6. ASSUME NEW i \in 1..Len(up'), Asked(i)'
          PROVE  upAge <= upAge' /\ \E j \in 1..Len(up) : Asked(j)
      <4>1. CASE up' = up
        BY <3>5, <3>6, <4>1 DEF Asked
      <4>2. CASE up' = Append(up, [type |-> "PUBACK"])
        <5>1. NoneAsked => NoneAsked'
          BY <4>2, AskedWrite, Packets
        <5> QED BY <3>5, <3>6, <5>1 DEF NoneAsked
      <4> QED BY <3>4, <4>1, <4>2
    <3>7. ASSUME NEW k \in 1..StreamLen', Answered(k)'
          PROVE  Due(k)' \in Int /\ \E l \in 1..StreamLen : Answered(l) /\ Due(l) <= Due(k)'
      <4>1. StreamLen \in Nat /\ StreamLen' = StreamLen - 2 /\ StreamLen >= 2
        BY <3>2, Lens DEF Taken
      <4>2. k + 2 \in 1..StreamLen /\ k \in Nat /\ ((k + 2) % 2 = 0 <=> k % 2 = 0)
        BY ONLY <4>1, k \in 1..StreamLen'
      <4>3. At(k)' = At(k + 2)
        BY <3>2 DEF Taken
      <4>4. Answered(k + 2)
        BY <3>7, <4>2, <4>3 DEF Answered
      <4>5. Due(k)' \in Int /\ Due(k + 2) <= Due(k)'
        BY <3>1, <3>3, <4>2, DueTaken
      <4> QED BY <4>2, <4>4, <4>5
    <3> QED BY <3>1, <3>2, <3>4, <3>5, <3>6, <3>7, PingGoesOn
  <2> QED BY <2>1, <2>2
<1>5. CASE LoopBodyTimeout
  <2>1. ~Intact'
    BY <1>5, Patient DEF LoopBodyTimeout, ReturnConnected, NoteLoss, CloseLink, Intact, Mid
  <2> QED BY <2>1, NoPingOut
<1>6. CASE GarbageRead
  BY <1>6, NoGarbage DEF GarbageRead, Mid
<1>7. QED BY <1>1, <1>2, <1>3, <1>4, <1>5, <1>6 DEF LibraryStep

\* subscribe() and publish() restart outAge.
LEMMA WritePingInTime ==
  ASSUME Sound, InStep, PingInTime, NEW p \in ToBroker, p.type # "PINGREQ", Write(p)
  PROVE  PingInTime'
<1> USE DEF Sound
<1>1. CASE CloseLink
  BY <1>1, NoPingOut DEF CloseLink, Intact
<1>2. CASE ~CloseLink
  <2>1. /\ call = "idle" /\ up' \in {up, Append(up, p)} /\ inAge' = inAge /\ outAge' \in {0, outAge}
        /\ UNCHANGED <<sock, open, cut, inbox, down, downAge, upAge, state, pingOutstanding, call,
                       partial, ran>>
    BY <1>2 DEF Write, NoteLoss, Sent, link
  <2>2. Kept /\ (Intact' <=> Intact) /\ Received' = Received
    BY <2>1, Untouched DEF Mid, Intact, Received, Offset
  <2>3. /\ inAge' \in Nat /\ outAge' \in Nat /\ upAge' \in Nat /\ inAge' <= inAge
        /\ outAge' <= outAge /\ upAge' = upAge
    BY <2>1, Numbers
  <2>4. ASSUME NEW i \in 1..Len(up'), Asked(i)'
        PROVE  upAge <= upAge' /\ \E j \in 1..Len(up) : Asked(j)
    <3>1. CASE up' = up
      BY <2>3, <2>4, <3>1 DEF Asked
    <3>2. CASE up' = Append(up, p)
      <4>1. NoneAsked => NoneAsked'
        BY <3>2, AskedWrite
      <4> QED BY <2>3, <2>4, <4>1 DEF NoneAsked
    <3> QED BY <2>1, <3>1, <3>2
  <2>5. ASSUME NEW k \in 1..StreamLen', Answered(k)'
        PROVE  Due(k)' \in Int /\ \E l \in 1..StreamLen : Answered(l) /\ Due(l) <= Due(k)'
    <3>1. k \in 1..StreamLen /\ Answered(k) /\ k \in Nat
      BY <2>2, <2>5, Lens DEF Kept, Answered
    <3>2. Due(k)' \in Int /\ Due(k) <= Due(k)'
      BY <2>1, <2>2, <3>1, DueSame
    <3> QED BY <3>1, <3>2
  <2> QED BY <2>1, <2>2, <2>3, <2>4, <2>5, PingGoesOn
<1>3. QED BY <1>1, <1>2


\* loop() sends a ping and restarts both times, or begins to read a packet.
LEMMA LoopRunPingInTime ==
  ASSUME Sound, InStep, PingInTime, LoopRun
  PROVE  PingInTime'
<1> USE DEF Sound
<1>1. SUFFICES ASSUME Intact', state' = "CONNECTED", pingOutstanding' PROVE PingInTime'
  BY NoPingOut
<1>2. /\ call = "idle" /\ state = "CONNECTED" /\ Intact
      /\ UNCHANGED <<sock, open, cut, down, downAge, upAge, state>>
  BY <1>1 DEF LoopRun, Connected, Intact
<1>3. /\ Kept
      /\ Received' = Received
      /\ call' = "idle" => inbox = <<>>
  <2>1. CASE inbox # <<>>
    <3>1. ~Mid /\ Mid' /\ inbox' = Tail(inbox) /\ partial' = Head(inbox) /\ down' = down
            /\ call' = "loopBody"
      BY <1>2, <2>1 DEF LoopRun, Mid
    <3>2. Kept
      BY <2>1, <3>1, HeadRead
    <3>3. Received' = Received
      BY <2>1, <3>1, Unread DEF Received, Offset
    <3> QED BY <3>1, <3>2, <3>3
  <2>2. CASE inbox = <<>>
    <3>1. call' = "idle" /\ inbox' = inbox /\ down' = down /\ partial' = partial
      BY <1>2, <2>2 DEF LoopRun
    <3>2. Mid' = Mid
      BY <1>2, <3>1 DEF Mid
    <3>3. Kept
      BY <3>1, <3>2, Untouched
    <3> QED BY <2>2, <3>1, <3>2, <3>3 DEF Received, Offset
  <2> QED BY <2>1, <2>2
<1>4. StreamLen' = StreamLen /\ StreamLen \in Nat
  BY <1>3, Lens DEF Kept
<1>5. CASE PingDue
  <2>1. inAge' = 0 /\ outAge' = 0 /\ ~pingOutstanding
    BY <1>5 DEF LoopRun
  <2>2. NoneAnswered'
    BY <1>2, <1>3, <2>1, AnsweredKept DEF InStep, PingTruth, NoPing
  <2>3. upAge' \in Nat
    BY <1>2, Numbers
  <2> QED BY <2>1, <2>2, <2>3 DEF PingInTime, NoneAnswered
<1>6. CASE ~PingDue
  <2>1. UNCHANGED <<inAge, outAge, pingOutstanding, up>>
    BY <1>6 DEF LoopRun
  <2>2. inAge' \in Nat /\ outAge' \in Nat /\ upAge' \in Nat /\ inAge' <= inAge
        /\ outAge' <= outAge /\ upAge' = upAge
    BY <1>2, <2>1, Numbers
  <2>3. ASSUME NEW i \in 1..Len(up'), Asked(i)'
        PROVE  upAge <= upAge' /\ \E j \in 1..Len(up) : Asked(j)
    BY <2>1, <2>2, <2>3 DEF Asked
  <2>4. ASSUME NEW k \in 1..StreamLen', Answered(k)'
        PROVE  Due(k)' \in Int /\ \E l \in 1..StreamLen : Answered(l) /\ Due(l) <= Due(k)'
    <3>1. k \in 1..StreamLen /\ Answered(k) /\ k \in Nat /\ k >= 1
      BY <1>3, <2>4, Lens DEF Kept, Answered
    <3>2. call' = "idle" => k > Received
      BY <1>2, <1>3, <3>1, Lens DEF Received, Offset, Mid
    <3>3. Due(k)' \in Int /\ Due(k) <= Due(k)'
      BY <1>2, <1>3, <3>1, <3>2, DueSame
    <3> QED BY <3>1, <3>3
  <2>5. Intact /\ state = "CONNECTED" /\ pingOutstanding
    BY <1>1, <1>2, <2>1
  <2> QED BY <2>2, <2>3, <2>4, <2>5, PingGoesOn
<1>7. QED BY <1>5, <1>6

\* A call is made.
LEMMA CallerPingInTime ==
  ASSUME Sound, InStep, PingInTime, CallerStep
  PROVE  PingInTime'
<1> USE DEF Sound
<1>1. CASE CallConnect
  <2>1. CASE Connected
    BY <1>1, <2>1, PingStays DEF CallConnect, link
  <2>2. CASE ~Connected
    BY <1>1, <2>2, NoPingOut DEF CallConnect, Connected, TcpConnected, NoteLoss, CloseLink, Intact,
                                 SocketKept, InConnect
  <2> QED BY <2>1, <2>2
<1>2. CASE LoopNotConnected
  BY <1>2, NoPingOut DEF LoopNotConnected, Connected, TcpConnected, NoteLoss, CloseLink, Intact,
                         SocketKept, InConnect
<1>3. CASE LoopPingTimeout \/ CallDisconnect
  BY <1>3, NoPingOut DEF LoopPingTimeout, CallDisconnect, CloseLink, Intact
<1>4. CASE LoopRun
  BY <1>4, LoopRunPingInTime
<1>5. CASE CallPublish
  BY <1>5, WritePingInTime, Packets DEF CallPublish
<1>6. ASSUME NEW t \in Topics, NEW q \in QosLevels, CallSubscribe(t, q) PROVE PingInTime'
  <2> DEFINE p == [type |-> "SUBSCRIBE", topic |-> t, qos |-> q]
  <2>1. p \in ToBroker /\ p.type # "PINGREQ" /\ Write(p)
    BY <1>6 DEF ToBroker, CallSubscribe
  <2> HIDE DEF p
  <2> QED BY <2>1, WritePingInTime
<1>7. QED BY <1>1, <1>2, <1>3, <1>4, <1>5, <1>6 DEF CallerStep, CallLoop

\* A unit arrives: from here on an answer waits to be read.
LEMMA DeliverPingInTime ==
  ASSUME Sound, InStep, PingInTime, Deliver
  PROVE  PingInTime'
<1> USE DEF Sound
<1>1. SUFFICES ASSUME Intact', state' = "CONNECTED", pingOutstanding' PROVE PingInTime'
  BY NoPingOut
<1>2. /\ down # <<>> /\ Len(inbox) < MaxUnits
      /\ inbox' = Append(inbox, Head(down)) /\ down' = Tail(down)
      /\ downAge' = IF Len(down) = 1 THEN 0 ELSE downAge
      /\ UNCHANGED <<sock, open, cut, up, upAge, state, pingOutstanding, call, partial, ran, inAge,
                     outAge>>
  BY DEF Deliver, timers, lib
<1>3. Kept /\ Intact
  BY <1>1, <1>2, Delivered DEF Intact
<1>4. Received' = Received + 1
  <2>1. Len(inbox') = Len(inbox) + 1
    BY <1>2, Lens
  <2> QED BY <1>2, <2>1, Lens DEF Received, Offset, Mid
<1>5. call \in {"idle", "loopBody"}
  BY <1>1, <1>2, InNoConnect
<1>6. /\ inAge' \in Nat /\ outAge' \in Nat /\ upAge' \in Nat /\ inAge' <= inAge
      /\ outAge' <= outAge /\ upAge' = upAge
  BY <1>2, Numbers
<1>7. ASSUME NEW i \in 1..Len(up'), Asked(i)'
      PROVE  upAge <= upAge' /\ \E j \in 1..Len(up) : Asked(j)
  BY <1>2, <1>6, <1>7 DEF Asked
<1>8. ASSUME NEW k \in 1..StreamLen', Answered(k)'
      PROVE  Due(k)' \in Int /\ \E l \in 1..StreamLen : Answered(l) /\ Due(l) <= Due(k)'
  <2>1. k \in 1..StreamLen /\ Answered(k) /\ k \in Nat /\ k >= 1
    BY <1>3, <1>8, Lens DEF Kept, Answered
  <2>2. k > Received' => Len(down) # 1
    <3>1. Len(down) \in Nat /\ Received \in Nat /\ StreamLen = Received + Len(down)
      BY Lens DEF Received, StreamLen
    <3>2. k <= Received + Len(down) /\ k \in Nat
      BY <2>1, <3>1
    <3>3. PICK r, d \in Nat : r = Received /\ d = Len(down)
      BY ONLY <3>1
    <3>4. PICK t \in Nat : t = Received' /\ t = r + 1
      BY ONLY <1>4, <3>3
    <3>5. k > t => d # 1
      BY ONLY <3>2, <3>3, <3>4
    <3> QED BY ONLY <3>3, <3>4, <3>5
  <2>3. k > Received' => downAge' = downAge
    BY <1>2, <2>2
  <2>4. Due(k)' \in Int /\ Due(k) <= Due(k)'
    BY <1>2, <1>4, <1>5, <2>1, <2>3, DueArrived
  <2> QED BY <2>1, <2>4
<1>9. Intact /\ state = "CONNECTED" /\ pingOutstanding
  BY <1>1, <1>2, <1>3
<1>10. QED BY <1>6, <1>7, <1>8, <1>9, PingGoesOn

\* A packet sent goes behind what is under way.
LEMMA SentPingInTime ==
  ASSUME Sound, PingInTime, NEW p \in ToClient, Len(down) + 2 <= MaxUnits, down' = down \o Units(p),
         UNCHANGED <<sock, open, cut, inbox, downAge, inAge, outAge, state, pingOutstanding, call,
                     partial, ran>>,
         upAge' \in Int,
         p.type = "PINGRESP" => \E j \in 1..Len(up) : Asked(j),
         \A i \in 1..Len(up') : Asked(i)' => upAge <= upAge' /\ \E j \in 1..Len(up) : Asked(j)
  PROVE  PingInTime'
<1> USE DEF Sound
<1>1. Added(p) /\ (Intact' <=> Intact) /\ Received' = Received
  BY PairSent DEF Intact, Received, Offset, Mid
<1>2. inAge' \in Nat /\ outAge' \in Nat /\ inAge' <= inAge /\ outAge' <= outAge
  BY Numbers
<1>3. ASSUME NEW k \in 1..StreamLen', Answered(k)'
      PROVE  /\ Due(k)' \in Int
             /\ \/ \E l \in 1..StreamLen : Answered(l) /\ Due(l) <= Due(k)'
                \/ (\E j \in 1..Len(up) : Asked(j)) /\ upAge <= Due(k)'
  <2>1. StreamLen \in Nat /\ StreamLen' = StreamLen + 2 /\ k \in Nat
    BY <1>1, Lens DEF Added
  <2>2. Due(k)' \in Int /\ Due(k) <= Due(k)'
    BY <1>1, <2>1, DueSame
  <2>3. CASE k \in 1..StreamLen
    <3>1. Answered(k)
      BY <1>1, <1>3, <2>3 DEF Added, Answered
    <3> QED BY <2>2, <2>3, <3>1
  <2>4. CASE k \notin 1..StreamLen
    <3>1. k = StreamLen + 1 \/ k = StreamLen + 2
      BY <2>1, <2>4
    <3>2. At(k)' = [pkt |-> p, part |-> 1] \/ At(k)' = [pkt |-> p, part |-> 2]
      BY <1>1, <3>1 DEF Added
    <3>3. p.type = "PINGRESP"
      BY <1>3, <3>2 DEF Answered
    <3>4. k > Received'
      <4>1. Received' = Received /\ Received <= StreamLen /\ Received \in Nat
        BY <1>1, Lens DEF Received, StreamLen
      <4> QED BY ONLY <2>1, <3>1, <4>1
    <3>5. Due(k)' = Latency + downAge
      BY ONLY <3>4, UNCHANGED <<sock, open, cut, inbox, downAge, inAge, outAge, state,
                                pingOutstanding, call, partial, ran>> DEF Due
    <3>6. upAge <= Latency + downAge
      BY ONLY Sound, Numbers DEF Sound
    <3> QED BY <2>2, <3>3, <3>5, <3>6
  <2> QED BY <2>3, <2>4
<1>4. QED BY <1>1, <1>2, <1>3, PingGoesOn

\* The broker answers: the ping is as old as its request was on its way up.
LEMMA BrokerHandlePingInTime ==
  ASSUME Sound, InStep, PingInTime, BrokerHandle
  PROVE  PingInTime'
<1> USE DEF Sound
<1>1. /\ up # <<>> /\ up' = Tail(up) /\ Len(down) + 2 <= MaxUnits
      /\ down' = down \o Reply(Head(up)) /\ upAge' = IF Len(up) = 1 THEN 0 ELSE upAge
      /\ UNCHANGED <<sock, open, cut, inbox, downAge, inAge, outAge, state, pingOutstanding, call,
                     partial, ran>>
  BY DEF BrokerHandle, timers, lib
<1>2. /\ Len(up) \in Nat /\ Len(up') = Len(up) - 1 /\ Head(up) = up[1] /\ Head(up) \in ToBroker
      /\ \A i \in 1..Len(up') : up'[i] = up[i + 1]
  BY <1>1, Ups, Popped
<1>3. upAge' \in Int /\ upAge \in Nat
  BY <1>1, Numbers
<1>4. ASSUME NEW i \in 1..Len(up'), Asked(i)'
      PROVE  upAge <= upAge' /\ \E j \in 1..Len(up) : Asked(j)
  <2>1. i + 1 \in 1..Len(up) /\ Len(up) # 1
    BY <1>2
  <2>2. Asked(i + 1)
    BY <1>2, <1>4, <2>1 DEF Asked
  <2> QED BY <1>1, <1>3, <2>1, <2>2
<1>5. Head(up).type = "PINGREQ" => \E j \in 1..Len(up) : Asked(j)
  <2>1. 1 \in 1..Len(up)
    BY <1>1, Ups
  <2> QED BY <1>2, <2>1 DEF Asked
<1>6. CASE Reply(Head(up)) = <<>>
  <2>1. down' = down
    BY <1>1, <1>6, Lens
  <2>2. Kept /\ (Intact' <=> Intact) /\ Received' = Received
    BY <1>1, <2>1, Untouched DEF Mid, Intact, Received, Offset
  <2>3. inAge' \in Nat /\ outAge' \in Nat /\ inAge' <= inAge /\ outAge' <= outAge
    BY <1>1, Numbers
  <2>4. ASSUME NEW k \in 1..StreamLen', Answered(k)'
        PROVE  Due(k)' \in Int /\ \E l \in 1..StreamLen : Answered(l) /\ Due(l) <= Due(k)'
    <3>1. k \in 1..StreamLen /\ Answered(k) /\ k \in Nat
      BY <2>2, <2>4, Lens DEF Kept, Answered
    <3>2. Due(k)' \in Int /\ Due(k) <= Due(k)'
      BY <1>1, <2>2, <3>1, DueSame
    <3> QED BY <3>1, <3>2
  <2> QED BY <1>1, <1>3, <1>4, <2>2, <2>3, <2>4, PingGoesOn
<1>7. ASSUME NEW r \in ToClient, Reply(Head(up)) = Units(r),
             r.type = "PINGRESP" => Head(up).type = "PINGREQ"
      PROVE  PingInTime'
  <2>1. down' = down \o Units(r)
    BY <1>1, <1>7
  <2>2. r.type = "PINGRESP" => \E j \in 1..Len(up) : Asked(j)
    BY <1>5, <1>7
  <2> QED BY <1>1, <1>3, <1>4, <2>1, <2>2, SentPingInTime
<1>8. QED BY <1>2, <1>6, <1>7, ReplyIs, Packets

\* Broker and network.
LEMMA EnvironmentPingInTime ==
  ASSUME Sound, InStep, PingInTime, Environment
  PROVE  PingInTime'
<1> USE DEF Sound
<1>1. CASE Deliver
  BY <1>1, DeliverPingInTime
<1>2. CASE BrokerHandle
  BY <1>2, BrokerHandlePingInTime
<1>3. ASSUME NEW t \in Topics, NEW q \in QosLevels, NEW v \in Values, NEW s \in Sizes,
             BrokerPublish(t, q, v, s)
      PROVE  PingInTime'
  <2>1. PICK p \in ToClient : p.type = "PUBLISH" /\ down' = down \o Units(p)
    BY <1>3, PublicationType DEF BrokerPublish
  <2>2. /\ Len(down) + 2 <= MaxUnits /\ up' = up /\ upAge' = upAge
        /\ UNCHANGED <<sock, open, cut, inbox, downAge, inAge, outAge, state, pingOutstanding, call,
                       partial, ran>>
    BY <1>3 DEF BrokerPublish, timers, lib
  <2>3. upAge' \in Nat /\ upAge <= upAge'
    BY <2>2, Numbers
  <2>4. \A i \in 1..Len(up') : Asked(i)' => upAge <= upAge' /\ \E j \in 1..Len(up) : Asked(j)
    BY <2>2, <2>3 DEF Asked
  <2> QED BY <2>1, <2>2, <2>3, <2>4, SentPingInTime
<1>4. CASE BrokerRefuse
  <2>1. ~Intact' \/ state' # "CONNECTED"
    BY <1>4 DEF BrokerRefuse, InStep, Accepted, Intact, lib
  <2> QED BY <2>1, NoPingOut
<1>5. CASE BrokerCrash \/ BrokerExpire \/ LinkCut
  BY <1>5, NoPingOut DEF BrokerCrash, BrokerExpire, LinkCut, PeerGone, Intact
<1>6. CASE BrokerRestart
  BY <1>6, PingStays DEF BrokerRestart, link, timers, lib
<1>7. QED BY <1>1, <1>2, <1>3, <1>4, <1>5, <1>6 DEF Environment


\* Time passes: what is under way, or the reading it waits for, ages with the ping.
LEMMA PassesPingInTime ==
  ASSUME Sound, InStep, PingInTime, Passes
  PROVE  PingInTime'
<1> USE DEF Sound
<1>1. SUFFICES ASSUME Intact', state' = "CONNECTED", pingOutstanding' PROVE PingInTime'
  BY NoPingOut
<1>2. /\ UNCHANGED <<sock, open, cut, inbox, down, up, state, pingOutstanding, call, partial>>
      /\ ran' = FALSE
      /\ Blocked \/ (call = "idle" /\ ran)
      /\ down # <<>> => downAge' = downAge + 1
      /\ up # <<>> => upAge' = upAge + 1
      /\ inAge' = UpTo(AgeBound, inAge + 1) /\ outAge' = UpTo(AgeBound, outAge + 1)
  BY DEF Passes, Elapse
<1>3. Intact /\ state = "CONNECTED" /\ pingOutstanding /\ call \in {"idle", "loopBody"}
  BY <1>1, <1>2, InNoConnect DEF Intact
<1>4. Kept /\ Received' = Received
  BY <1>2, Untouched DEF Mid, Received, Offset
<1>5. /\ inAge \in Nat /\ outAge \in Nat /\ upAge \in Nat /\ downAge \in Nat /\ Latency \in Nat
      /\ AgeBound \in Nat
  BY Numbers
<1>6. /\ inAge' \in Nat /\ outAge' \in Nat /\ inAge' <= inAge + 1 /\ outAge' <= outAge + 1
  BY ONLY <1>2, <1>5 DEF UpTo
<1>7. ASSUME NEW i \in 1..Len(up'), Asked(i)' PROVE inAge' <= upAge' /\ outAge' <= upAge'
  <2>1. i \in 1..Len(up) /\ Asked(i) /\ up # <<>>
    BY <1>2, <1>7, Ups DEF Asked
  <2>2. inAge <= upAge /\ outAge <= upAge /\ upAge' = upAge + 1
    BY <1>2, <1>3, <2>1 DEF PingInTime
  <2> QED BY ONLY <1>5, <1>6, <2>2
<1>8. ASSUME NEW k \in 1..StreamLen', Answered(k)' PROVE inAge' <= Due(k)' /\ outAge' <= Due(k)'
  <2>1. k \in 1..StreamLen /\ Answered(k) /\ k \in Nat
    BY <1>4, <1>8, Lens DEF Kept, Answered
  <2>2. inAge <= Due(k) /\ outAge <= Due(k)
    BY <1>3, <2>1 DEF PingInTime
  <2>3. Due(k) \in Int
    BY <2>1, DueType
  <2>4. Due(k)' = Due(k) + 1
    <3>1. CASE k > Received
      <4>1. down # <<>>
        BY <2>1, <3>1, Lens DEF Received, StreamLen
      <4>2. downAge' = downAge + 1
        BY <1>2, <4>1
      <4>3. Due(k) = Latency + downAge /\ Due(k)' = Latency + downAge'
        BY ONLY <1>4, <3>1 DEF Due
      <4> QED BY ONLY <1>5, <4>2, <4>3
    <3>2. CASE ~(k > Received)
      <4>1. call = "idle" /\ ran
        <5>1. SUFFICES ASSUME Blocked PROVE FALSE
          BY <1>2
        <5>2. call = "loopBody" /\ inbox = <<>>
          BY <1>3, <5>1 DEF Blocked
        <5>3. Received = 1
          BY <5>2, Lens DEF Received, Offset, Mid
        <5>4. k = 1 /\ k % 2 = 0
          BY <2>1, <3>2, <5>3 DEF Answered
        <5> QED BY ONLY <5>4
      <4>2. ~(call' = "idle" /\ ran')
        <5>1. ran' = FALSE
          BY <1>2
        <5> QED BY ONLY <5>1
      <4>3. PICK h \in Nat : h = k \div 2
        BY ONLY <2>1
      <4>4. Due(k) = AnswerTime - h + 0
        BY ONLY <3>2, <4>1, <4>3 DEF Due
      <4>5. Due(k)' = AnswerTime - h + 1
        BY ONLY <1>4, <3>2, <4>2, <4>3 DEF Due
      <4>6. AnswerTime \in Nat
        BY <2>1, DueType
      <4> QED BY ONLY <4>3, <4>4, <4>5, <4>6
    <3> QED BY <3>1, <3>2
  <2> QED BY ONLY <1>5, <1>6, <2>2, <2>3, <2>4
<1>9. QED BY <1>7, <1>8 DEF PingInTime

\* The hypothesis of the ping: question, answer and what is read before it take no
\* longer than a keepalive interval.
PromptAnswers == AnswerTime <= KeepAlive

\* While its answer is under way a ping is not overdue.
LEMMA NotOverdue ==
  ASSUME PromptAnswers, Sound, InStep, PingInTime, Intact, state = "CONNECTED", pingOutstanding,
         call = "idle"
  PROVE  ~PingDue
<1> USE DEF Sound
<1>1. /\ inAge \in Nat /\ outAge \in Nat /\ upAge \in Nat /\ downAge \in Nat /\ Latency \in Nat
      /\ KeepAlive \in Nat /\ upAge <= Latency /\ downAge <= Latency /\ MaxUnits \in Nat
  BY Numbers
<1>2. MaxUnits \div 2 \in Nat
  BY ONLY <1>1
<1>3. AnswerTime = 2 * Latency + (MaxUnits \div 2) /\ AnswerTime <= KeepAlive
  BY DEF AnswerTime, PromptAnswers
<1>4. PICK h \in Nat : h = MaxUnits \div 2
  BY <1>2
<1>5. 2 * Latency + h <= KeepAlive
  BY ONLY <1>3, <1>4
<1>6. CASE \E i \in 1..Len(up) : Asked(i)
  <2>1. inAge <= upAge /\ outAge <= upAge
    BY <1>6 DEF PingInTime
  <2>2. inAge <= KeepAlive /\ outAge <= KeepAlive
    BY ONLY <1>1, <1>4, <1>5, <2>1
  <2> QED BY ONLY <1>1, <2>2 DEF PingDue
<1>7. CASE \E k \in 1..StreamLen : Answered(k)
  <2>1. PICK k \in 1..StreamLen : Answered(k)
    BY <1>7
  <2>2. k \in Nat /\ k >= 1 /\ k % 2 = 0 /\ inAge <= Due(k) /\ outAge <= Due(k)
    BY <2>1, Lens DEF PingInTime, Answered
  <2>3. Due(k) \in Int /\ Due(k) <= KeepAlive
    <3>1. CASE k > Received
      <4>1. Due(k) = Latency + downAge
        BY ONLY <3>1 DEF Due
      <4> QED BY ONLY <1>1, <1>4, <1>5, <4>1
    <3>2. CASE ~(k > Received)
      <4>1. PICK g \in Nat : g = k \div 2 /\ g >= 1
        BY ONLY <2>2
      <4>2. PICK d \in {0, 1} : d = IF call = "idle" /\ ran THEN 0 ELSE 1
        OBVIOUS
      <4>3. Due(k) = AnswerTime - g + d
        BY ONLY <3>2, <4>1, <4>2 DEF Due
      <4>4. PICK a \in Nat : a = AnswerTime /\ a <= KeepAlive
        BY <1>3, <2>2, DueType
      <4> QED BY ONLY <1>1, <4>1, <4>2, <4>3, <4>4
    <3> QED BY <3>1, <3>2
  <2> QED BY ONLY <1>1, <2>2, <2>3 DEF PingDue
<1>8. QED BY <1>6, <1>7 DEF InStep, PingTruth, OnePing, OnlyAsked, OnlyAnswered


\* Power-on.
LEMMA InitInTime ==
  ASSUME InitD
  PROVE  InTime
<1>1. /\ sock = FALSE /\ open = FALSE /\ cut = FALSE /\ inbox = <<>> /\ up = <<>> /\ down = <<>>
      /\ call = "idle" /\ ran = FALSE /\ session = FALSE /\ silence = 0 /\ deadAge = 0
      /\ state = "DISCONNECTED"
  BY DEF InitD, Init
<1>2. RanLately /\ PingInTime
  BY <1>1 DEF RanLately, Mid, PingInTime, Intact
<1>3. Heard /\ Dying
  BY <1>1 DEF Heard, Dying
<1>4. QED BY <1>2, <1>3 DEF InTime

\* Every step keeps the times of the client and of its ping.
LEMMA NextPinged ==
  ASSUME Prompt, Sound, InStep, RanLately, PingInTime, [NextD]_varsD
  PROVE  RanLately' /\ PingInTime'
<1>1. CASE UNCHANGED varsD
  <2>1. UNCHANGED <<link, timers, lib>>
    BY <1>1 DEF varsD, vars
  <2>2. RanLately'
    BY <2>1 DEF RanLately, Mid, Intact, link, timers, lib
  <2>3. PingInTime'
    BY <2>1, PingStays DEF Sound, link, timers, lib
  <2> QED BY <2>2, <2>3
<1>2. CASE LibraryStep
  BY <1>2, LibraryRanLately, LibraryPingInTime
<1>3. CASE CallerStep
  BY <1>3, CallerRanLately, CallerPingInTime
<1>4. CASE Environment
  BY <1>4, EnvironmentRanLately, EnvironmentPingInTime
<1>5. CASE Passes
  <2>1. (call = "idle" /\ ran) \in BOOLEAN
    OBVIOUS
  <2>2. RanLately'
    BY <1>5, <2>1, ElapseRanLately DEF Passes
  <2> QED BY <1>5, <2>2, PassesPingInTime
<1>6. QED BY <1>1, <1>2, <1>3, <1>4, <1>5 DEF NextD

\* Every step keeps the broker's count.
LEMMA NextHeard ==
  ASSUME Prompt, PromptPings, Sound, InStep, RanLately, Heard, [NextD]_varsD
  PROVE  Heard'
<1>1. CASE UNCHANGED varsD
  BY <1>1 DEF Heard, varsD, vars, link, peer, timers, lib
<1>2. QED BY <1>1, LibraryHeard, CallerHeard, EnvironmentHeard, PassesHeard DEF NextD

\* Every step keeps what a dead connection has left.
LEMMA NextDying ==
  ASSUME Prompt, Sound, InStep, RanLately, Dying, [NextD]_varsD
  PROVE  Dying'
<1>1. CASE UNCHANGED varsD
  BY <1>1 DEF Dying, varsD, vars, link, timers, lib
<1>2. CASE NextD /\ ~cut'
  BY <1>2 DEF NextD, Dying
<1>3. CASE NextD /\ cut'
  BY <1>3, LibraryDying, CallerDying, EnvironmentDying, PassesDying DEF NextD
<1>4. QED BY <1>1, <1>2, <1>3

\* The broker has heard of the client within one and a half keepalive intervals.
LEMMA BrokerHears ==
  ASSUME PromptPings, Sound, RanLately, Heard
  PROVE  BrokerHearsInTime
<1> USE DEF Sound
<1>1. /\ silence \in Nat /\ KeepAlive \in Nat /\ Latency \in Nat
      /\ Carry \in Nat /\ Carry >= Latency
      /\ upAge \in Nat /\ upAge <= Latency /\ waitAge \in Nat /\ ExpireTime \in Nat
      /\ Carry + Latency <= KeepAlive /\ KeepAlive + Carry + Latency <= ExpireTime
  BY Numbers, Halves, Zeroes
<1>2. CASE ~session
  BY <1>1, <1>2 DEF Heard, BrokerHearsInTime
<1>3. CASE session
  <2>1. Intact
    BY <1>3 DEF LinkKept
  <2>2. Mid => waitAge <= Latency
    BY <2>1 DEF RanLately
  <2>3. CASE up # <<>>
    <3>1. silence <= KeepAlive + Carry + upAge
      BY <1>3, <2>3 DEF Heard
    <3> QED BY ONLY <1>1, <3>1 DEF BrokerHearsInTime
  <2>4. CASE up = <<>> /\ call = "idle"
    <3>1. silence <= KeepAlive + IF ran THEN 0 ELSE Carry
      BY <1>3, <2>4 DEF Heard
    <3> QED BY ONLY <1>1, <3>1 DEF BrokerHearsInTime
  <2>5. CASE up = <<>> /\ call = "loopBody"
    <3>1. silence <= KeepAlive + waitAge /\ waitAge <= Latency
      BY <1>3, <2>2, <2>5 DEF Heard, Mid
    <3> QED BY ONLY <1>1, <3>1 DEF BrokerHearsInTime
  <2>6. CASE call = "connack"
    <3>1. silence <= Latency
      BY <1>3, <2>6 DEF Heard
    <3> QED BY ONLY <1>1, <3>1 DEF BrokerHearsInTime
  <2>7. CASE call = "connackBody"
    <3>1. silence <= Latency + waitAge /\ waitAge <= Latency
      BY <1>3, <2>2, <2>7 DEF Heard, Mid
    <3> QED BY ONLY <1>1, <3>1 DEF BrokerHearsInTime
  <2>8. call # "tcp"
    BY <2>1 DEF SocketKept, Intact
  <2> QED BY <2>3, <2>4, <2>5, <2>6, <2>7, <2>8 DEF TypeOK, Modes, Calls
<1>4. QED BY <1>2, <1>3

\* loop() called once per time unit does both things keepalive is for.  The broker of an
\* intact connection hears something within one and a half keepalive intervals, whatever
\* the sketch sends and however long packets make loop() wait; and a connection that died
\* without a word is given up within DetectTime, whatever was unread.  The hypotheses are
\* on the network and the constants, and each is needed: outside it TLC finds a session
\* that expires, or a dead connection that is kept.
THEOREM KeepaliveKept ==
  ASSUME Prompt, PromptPings, ShortBacklog
  PROVE  SpecD => []KeepaliveHolds
<1> DEFINE Inv == Sound /\ InStep /\ InTime
<1>1. InitD => Inv
  BY InitSound, InitInStep, InitInTime DEF InitD
<1>2. Inv /\ [NextD]_varsD => Inv'
  BY NextSound, NextInStep, NextPinged, NextHeard, NextDying DEF InTime
<1>3. Inv => KeepaliveHolds
  BY BrokerHears, DeadIsFound DEF InTime, KeepaliveHolds
<1>4. QED BY <1>1, <1>2, <1>3, PTL DEF SpecD

\* loop() gives up a connection for a missing PINGRESP only when it is dead: question,
\* answer and the packets read before it are always over first.  With a keepalive interval
\* one time unit shorter than PromptAnswers asks for, TLC finds a false timeout.
THEOREM TimeoutsAreTrue ==
  ASSUME Prompt, PromptAnswers
  PROVE  SpecD => NoFalseTimeout
<1> DEFINE Inv == Sound /\ InStep /\ RanLately /\ PingInTime
           Told == state = "CONNECTED" /\ state' = "CONNECTION_TIMEOUT" => cut \/ ~open
<1>1. InitD => Inv
  BY InitSound, InitInStep, InitInTime DEF InitD, InTime
<1>2. Inv /\ [NextD]_varsD => Inv'
  BY NextSound, NextInStep, NextPinged
<1>3. Inv /\ [NextD]_varsD => [Told]_varsD
  <2>1. SUFFICES ASSUME Inv, NextD, state = "CONNECTED", state' = "CONNECTION_TIMEOUT", ~cut, open
                 PROVE  FALSE
    OBVIOUS
  <2>2. call \in {"idle", "loopBody"}
    BY <2>1, InNoConnect
  <2>3. CASE LibraryStep
    BY <2>1, <2>2, <2>3 DEF LibraryStep, TcpUp, TcpFail, ConnackHead, ConnackTimeout, ConnackBody,
       ConnackBodyTimeout, LoopBody, LoopBodyTimeout, GarbageRead, ReturnConnected, NoteLoss
  <2>4. CASE Environment \/ Passes
    <3>1. state' = state
      BY <2>4 DEF Environment, Deliver, BrokerHandle, BrokerPublish, BrokerRefuse, BrokerCrash,
                  BrokerRestart, BrokerExpire, LinkCut, Passes, Elapse, lib
    <3> QED BY <2>1, <3>1
  <2>5. CASE CallerStep
    <3>1. LoopPingTimeout
      BY <2>1, <2>5 DEF CallerStep, CallLoop, CallConnect, LoopNotConnected, LoopRun, CallPublish,
         CallSubscribe, CallDisconnect, Write, NoteLoss, link
    <3>2. Intact /\ PingDue /\ pingOutstanding /\ call = "idle"
      BY <2>1, <3>1 DEF LoopPingTimeout, Connected, TcpConnected, Intact
    <3> QED BY <2>1, <3>2, NotOverdue
  <2> QED BY <2>1, <2>3, <2>4, <2>5 DEF NextD
<1>4. QED BY <1>1, <1>2, <1>3, PTL DEF SpecD, NoFalseTimeout



-----------------------------------------------------------------------------
(* The actuator sketch keeps to its types                                  *)
-----------------------------------------------------------------------------
\* The thresholds of motor and LED, in tenths.
LEMMA OutputsOf ==
  ASSUME NEW v \in Values
  PROVE  /\ Motor(Atoi(v)) <=> v >= 270
         /\ Motor(Atoi(v)) \in BOOLEAN
         /\ v >= 610 => LED(Atoi(v)) = "red"
         /\ v < 500 => LED(Atoi(v)) = "blue"
         /\ v < 610 /\ v >= 500 => LED(Atoi(v)) = "green"
<1>1. v \in Nat
  BY ActuatorAssumption
<1>2. PICK d \in Nat : d = v \div 10 /\ (d > 26 <=> v >= 270) /\ (d > 60 <=> v >= 610)
        /\ (d < 50 <=> v < 500)
  BY <1>1
<1>3. (Motor(Atoi(v)) <=> v >= 270) /\ Motor(Atoi(v)) \in BOOLEAN
  BY <1>2 DEF Motor, Atoi
<1>4. LED(Atoi(v)) = LED(d)
  BY <1>2 DEF Atoi
<1>5. CASE v >= 610
  BY <1>1, <1>2, <1>3, <1>4, <1>5 DEF LED
<1>6. CASE v < 500
  BY <1>1, <1>2, <1>3, <1>4, <1>6 DEF LED
<1>7. CASE v < 610 /\ v >= 500
  BY <1>1, <1>2, <1>3, <1>4, <1>7 DEF LED
<1>8. QED BY <1>1, <1>3, <1>5, <1>6, <1>7

\* What Forget leaves is typed.
LEMMA ForgetType ==
  ASSUME routed \in [Topics -> Values \cup {NoReading}], Forget
  PROVE  routed' \in [Topics -> Values \cup {NoReading}]
BY DEF Forget, NothingRouted

\* What callback() sets is typed.
LEMMA CallbackType ==
  ASSUME NEW p \in Publication, Callback(p), motor \in BOOLEAN,
         rgb \in {"off", "red", "green", "blue"}
  PROVE  motor' \in BOOLEAN /\ rgb' \in {"off", "red", "green", "blue"}
<1>1. p.value \in Values
  BY DEF Publication
<1>2. motor' \in BOOLEAN
  <2>1. Motor(Atoi(p.value)) \in BOOLEAN
    BY <1>1, OutputsOf
  <2> QED BY Zenon, <2>1 DEF Callback
<1>3. rgb' \in {"off", "red", "green", "blue"}
  <2>1. LED(Atoi(p.value)) \in {"red", "green", "blue"}
    <3>1. p.value \in Nat
      BY <1>1, ActuatorAssumption
    <3>2. p.value >= 610 \/ p.value < 500 \/ (p.value < 610 /\ p.value >= 500)
      BY <3>1
    <3> QED BY <1>1, <3>2, OutputsOf
  <2> QED BY <2>1 DEF Callback
<1>4. QED BY <1>2, <1>3

\* What loop() hands over is a message.
LEMMA HandedIs ==
  ASSUME TypeOK, Handed
  PROVE  partial.pkt \in Publication
BY DEF TypeOK, Streams, Handed, Unit, ToClient, Connack

\* Every step of the sketch keeps its variables to their sets.
LEMMA NextTypes ==
  ASSUME TypeOKA, TypeOK', NextA
  PROVE  TypeOKA'
<1>1. ASSUME Forget \/ routed' = routed PROVE routed' \in [Topics -> Values \cup {NoReading}]
  BY <1>1, ForgetType DEF TypeOKA
<1>2. CASE Sketch
  <2>1. CASE WifiReady
    BY <2>1 DEF WifiReady, TypeOKA, Places, outputs
  <2>2. CASE AlreadyConnected
    BY <2>2 DEF AlreadyConnected, TypeOKA, Places, outputs
  <2>3. CASE TryConnect
    BY <1>1, <2>3 DEF TryConnect, TypeOKA, outputs, sketch
  <2>4. CASE SubscribeNext
    <3>1. todo' \in Seq(Topics)
      BY <2>4 DEF SubscribeNext, TypeOKA
    <3>2. pc' \in Places
      BY <2>4 DEF SubscribeNext, TypeOKA, Places
    <3> QED BY <1>1, <2>4, <3>1, <3>2 DEF SubscribeNext, TypeOKA, outputs
  <2>5. CASE RunLibrary
    <3>2. pc' \in Places
      BY <2>5 DEF RunLibrary, TypeOKA, Places
    <3> QED BY <1>1, <2>5, <3>2 DEF RunLibrary, TypeOKA, outputs
  <2>6. CASE GoOn
    <3>1. motor' \in BOOLEAN /\ rgb' \in {"off", "red", "green", "blue"}
      <4>1. CASE Handed
        BY <2>6, <4>1, HandedIs, CallbackType DEF GoOn, TypeOKA
      <4>2. CASE ~Handed
        BY <2>6, <4>2 DEF GoOn, TypeOKA, outputs
      <4> QED BY <4>1, <4>2
    <3>2. pc' \in Places
      BY <2>6 DEF GoOn, TypeOKA, Places
    <3>3. pause' \in BOOLEAN
      BY <2>6 DEF GoOn
    <3> QED BY <1>1, <2>6, <3>1, <3>2, <3>3 DEF GoOn, TypeOKA
  <2> QED BY <1>2, <2>1, <2>2, <2>3, <2>4, <2>5, <2>6 DEF Sketch
<1>3. CASE WifiUp
  BY <1>3 DEF WifiUp, TypeOKA, outputs, sketch
<1>4. CASE WifiDrop
  BY <1>1, <1>4 DEF WifiDrop, TypeOKA, outputs, sketch
<1>5. CASE Surroundings
  BY <1>1, <1>5 DEF Surroundings, TypeOKA, outputs, sketch
<1>6. CASE TimePasses
  BY <1>1, <1>6 DEF TimePasses, TypeOKA, outputs
<1>7. ASSUME NEW t \in Topics, NEW v \in Values, Reading(t, v) PROVE TypeOKA'
  BY <1>7 DEF Reading, TypeOKA, outputs, sketch
<1>8. QED BY <1>2, <1>3, <1>4, <1>5, <1>6, <1>7 DEF NextA

-----------------------------------------------------------------------------
(* The library keeps Sound and InStep under the sketch                     *)
-----------------------------------------------------------------------------
\* Every step keeps the types, the link and the socket.
LEMMA ActuatorSound ==
  ASSUME Sound, TypeOKA, NextA
  PROVE  Sound'
<1> USE DEF Sound
<1>1. ASSUME UNCHANGED vars PROVE Sound'
  BY <1>1, StutterSound
<1>2. CASE Sketch
  <2>1. CASE WifiReady \/ AlreadyConnected
    BY <1>1, <2>1 DEF WifiReady, AlreadyConnected
  <2>2. CASE TryConnect
    BY <2>2, CallConnectSound DEF TryConnect
  <2>3. CASE SubscribeNext
    <3>1. Head(todo) \in Topics /\ 0 \in QosLevels
      BY <2>3, ActuatorAssumption DEF SubscribeNext, TypeOKA
    <3> QED BY <2>3, <3>1, CallSubscribeSound DEF SubscribeNext
  <2>4. CASE RunLibrary
    BY <2>4, LoopNotConnectedSound, LoopPingTimeoutSound, LoopRunSound DEF RunLibrary, CallLoop
  <2>5. CASE GoOn
    BY <2>5, LibrarySound DEF GoOn
  <2> QED BY <1>2, <2>1, <2>2, <2>3, <2>4, <2>5 DEF Sketch
<1>3. CASE WifiUp
  <2>1. UNCHANGED <<link, peer, timers, lib, failures>> /\ brokerUp' = TRUE
    BY <1>3 DEF WifiUp
  <2>2. TypeOK'
    BY <2>1 DEF TypeOK, Flags, Streams, Modes, Times, link, peer, timers, lib
  <2>3. LinkKept' /\ SocketKept'
    BY <2>1 DEF LinkKept, Intact, SocketKept, InConnect, link, peer, lib
  <2> QED BY <2>2, <2>3
<1>4. CASE WifiDrop
  <2>1. Flags'
    BY <1>4 DEF WifiDrop, TypeOK, Flags, lib, timers
  <2>2. Streams' /\ Modes'
    BY <1>4, Empty, Zeroes DEF WifiDrop, TypeOK, Streams, Modes, lib
  <2>3. Times'
    BY <1>4, Zeroes DEF WifiDrop, Fault, TypeOK, Times, timers
  <2>4. LinkKept' /\ SocketKept'
    BY <1>4 DEF WifiDrop, LinkKept, Intact, SocketKept, InConnect, lib
  <2> QED BY <2>1, <2>2, <2>3, <2>4 DEF TypeOK
<1>5. CASE Surroundings
  BY <1>5, DeliverSound, BrokerHandleSound, BrokerRefuseSound, BrokerCrashSound, LinkCutSound,
     BrokerRestartSound DEF Surroundings
<1>6. CASE TimePasses
  <2>1. (call = "idle" /\ (ran \/ pause \/ (pc \in {"setupWifi", "loopWifi"} /\ ~wifi))) \in BOOLEAN
    OBVIOUS
  <2> QED BY <1>6, <2>1, ElapseSound DEF TimePasses
<1>7. ASSUME NEW t \in Topics, NEW v \in Values, Reading(t, v) PROVE Sound'
  BY <1>7, ActuatorAssumption, BrokerPublishSound DEF Reading
<1>8. QED BY <1>2, <1>3, <1>4, <1>5, <1>6, <1>7 DEF NextA

\* With a prompt network every step keeps client and broker in step.
LEMMA ActuatorInStep ==
  ASSUME Prompt, Sound, Sound', InStep, TypeOKA, NextA
  PROVE  InStep'
<1> USE DEF Sound
<1>1. ASSUME UNCHANGED vars PROVE InStep'
  BY <1>1, StutterInStep
<1>2. CASE Sketch
  <2>1. CASE WifiReady \/ AlreadyConnected
    BY <1>1, <2>1 DEF WifiReady, AlreadyConnected
  <2>2. CASE TryConnect
    BY <2>2, CallConnectInStep DEF TryConnect
  <2>3. CASE SubscribeNext
    <3>1. Head(todo) \in Topics /\ 0 \in QosLevels
      BY <2>3, ActuatorAssumption DEF SubscribeNext, TypeOKA
    <3> QED BY <2>3, <3>1, CallSubscribeInStep DEF SubscribeNext
  <2>4. CASE RunLibrary
    BY <2>4, LoopNotConnectedInStep, LoopPingTimeoutInStep, LoopRunInStep DEF RunLibrary, CallLoop
  <2>5. CASE GoOn
    BY <2>5, LibraryInStep DEF GoOn
  <2> QED BY <1>2, <2>1, <2>2, <2>3, <2>4, <2>5 DEF Sketch
<1>3. CASE WifiUp
  BY <1>3, SameInStep DEF WifiUp, link, peer, timers, lib, InStep, WaitedFor, Mid
<1>4. CASE WifiDrop
  BY <1>4, CutInStep DEF WifiDrop, Intact, lib
<1>5. CASE Surroundings
  BY <1>5, DeliverInStep, BrokerHandleInStep, BrokerRefuseInStep, BrokerCrashInStep,
     LinkCutInStep, BrokerRestartInStep DEF Surroundings
<1>6. CASE TimePasses
  <2>1. (call = "idle" /\ (ran \/ pause \/ (pc \in {"setupWifi", "loopWifi"} /\ ~wifi))) \in BOOLEAN
    OBVIOUS
  <2> QED BY <1>6, <2>1, ElapseInStep DEF TimePasses
<1>7. ASSUME NEW t \in Topics, NEW v \in Values, Reading(t, v) PROVE InStep'
  BY <1>7, ActuatorAssumption, BrokerPublishInStep DEF Reading
<1>8. QED BY <1>2, <1>3, <1>4, <1>5, <1>6, <1>7 DEF NextA

-----------------------------------------------------------------------------
(* What a step can do to the readings under way                            *)
-----------------------------------------------------------------------------
\* The packet at the head of the stream is obeyed if it is a reading, and otherwise
\* the outputs stand.
ObeysIfRead ==
  /\ \A t \in Topics, v \in Values :
       Obeyed(t, v) /\ ~(At(1).pkt.type = "PUBLISH" /\ At(1).pkt.topic = t)
         => Obeyed(t, v)'
  /\ \A t \in Topics, v \in Values :
       At(1).pkt.type = "PUBLISH" /\ At(1).pkt.topic = t /\ At(1).pkt.value = v
         => Obeyed(t, v)'

\* A session that ends takes its readings along.
LEMMA NoSession ==
  ASSUME ReadingsKept, Forget, ~session'
  PROVE  ReadingsKept'
BY DEF ReadingsKept, Forget

\* The topics with outputs are among those published.
LEMMA WatchedTopics == Watched \subseteq Topics
BY ActuatorAssumption DEF Watched

\* A stream left alone keeps the readings.
LEMMA StreamKept ==
  ASSUME TypeOK, ReadingsKept, session, session', Kept, routed' = routed, UNCHANGED outputs
  PROVE  ReadingsKept'
<1>1. StreamLen' = StreamLen /\ \A k \in 1..StreamLen : At(k)' = At(k)
  BY DEF Kept
<1>2. ASSUME NEW t \in Watched, routed[t] # NoReading PROVE LastReading(t)'
  <2>1. LastReading(t)
    BY <1>2 DEF ReadingsKept
  <2>2. \A k \in 1..StreamLen : Carries(t, k)' <=> Carries(t, k)
    BY <1>1 DEF Carries
  <2>3. Obeyed(t, routed[t]) => Obeyed(t, routed[t])'
    BY DEF Obeyed, outputs
  <2> QED BY <1>1, <2>1, <2>2, <2>3 DEF LastReading
<1>3. QED BY <1>1, <1>2 DEF ReadingsKept

\* A packet is read, and obeyed if it is a reading of the topic.
LEMMA StreamTaken ==
  ASSUME TypeOK, InPairs, ReadingsKept, session, session', Taken, routed' = routed, ObeysIfRead,
         routed \in [Topics -> Values \cup {NoReading}]
  PROVE  ReadingsKept'
<1> USE DEF ObeysIfRead
<1>1. StreamLen \in Nat /\ StreamLen >= 2 /\ StreamLen' = StreamLen - 2
  BY Lens DEF Taken
<1>2. ASSUME NEW k \in 1..StreamLen'
      PROVE  k \in Int /\ k + 2 \in 1..StreamLen /\ At(k)' = At(k + 2) /\ (k + 2) % 2 = k % 2
  BY <1>1 DEF Taken
<1>3. 1 \in 1..StreamLen /\ 2 \in 1..StreamLen /\ At(2).pkt = At(1).pkt
  <2>1. 1 \in 1..StreamLen /\ 2 \in 1..StreamLen /\ 1 % 2 = 1 /\ 1 < StreamLen /\ 1 + 1 = 2
    BY <1>1
  <2> QED BY <2>1 DEF InPairs
<1>4. ASSUME NEW k \in 1..StreamLen', At(k)'.pkt.type = "PUBLISH" PROVE At(k)'.pkt.size = "fits"
  BY <1>2, <1>4 DEF ReadingsKept
<1>5. ASSUME NEW t \in Watched, routed[t] # NoReading PROVE LastReading(t)'
  <2>1. \A k \in 1..StreamLen' : Carries(t, k)' <=> Carries(t, k + 2)
    BY <1>2 DEF Carries
  <2>2. Carries(t, 2) <=> At(1).pkt.type = "PUBLISH" /\ At(1).pkt.topic = t
    BY <1>3 DEF Carries
  <2>3. routed[t] \in Values /\ LastReading(t) /\ t \in Topics
    BY <1>5, WatchedTopics DEF ReadingsKept
  <2>4. CASE (\A k \in 1..StreamLen : ~Carries(t, k)) /\ Obeyed(t, routed[t])
    <3>1. Obeyed(t, routed[t])'
      <4>2. PICK v \in Values : v = routed[t]
        BY <2>3
      <4>3. Obeyed(t, v)'
        BY <1>3, <2>2, <2>3, <2>4, <4>2
      <4> QED BY <4>2, <4>3 DEF Obeyed
    <3>2. \A k \in 1..StreamLen' : ~Carries(t, k)'
      BY <1>2, <2>1, <2>4
    <3> QED BY <3>1, <3>2 DEF LastReading
  <2>5. ASSUME NEW k \in 1..StreamLen, Carries(t, k), At(k).pkt.value = routed[t],
               \A l \in 1..StreamLen : Carries(t, l) => l <= k
        PROVE  LastReading(t)'
    <3>1. k # 1 /\ k \in Int
      BY <1>3, <2>5 DEF Carries
    <3>2. CASE k = 2
      <4>1. PICK v \in Values : v = routed[t] /\ Obeyed(t, v)'
        BY <1>3, <2>2, <2>3, <2>5, <3>2
      <4>2. \A j \in 1..StreamLen' : ~Carries(t, j)'
        BY <1>2, <2>1, <2>5, <3>2
      <4>3. Obeyed(t, routed[t])'
        BY <4>1 DEF Obeyed
      <4> QED BY <4>2, <4>3 DEF LastReading
    <3>3. CASE k # 2
      <4>1. PICK j \in 1..StreamLen' : j + 2 = k /\ j \in Int
        BY <1>1, <3>1, <3>3
      <4>2. Carries(t, j)' /\ At(j)'.pkt.value = routed'[t]
        BY <1>2, <2>1, <2>5, <4>1
      <4>3. \A l \in 1..StreamLen' : Carries(t, l)' => l <= j
        BY <1>2, <2>1, <2>5, <4>1
      <4> QED BY <4>2, <4>3 DEF LastReading
    <3> QED BY <3>2, <3>3
  <2> QED BY <2>3, <2>4, <2>5 DEF LastReading
<1>6. QED BY <1>4, <1>5 DEF ReadingsKept

\* A packet that is no message behind the readings.
LEMMA StreamAdded ==
  ASSUME TypeOK, ReadingsKept, session, session', NEW p \in ToClient, p.type # "PUBLISH",
         Added(p), routed' = routed, UNCHANGED outputs
  PROVE  ReadingsKept'
<1>1. StreamLen \in Nat /\ StreamLen' = StreamLen + 2
  BY Lens DEF Added
<1>2. ASSUME NEW k \in 1..StreamLen PROVE k \in 1..StreamLen' /\ At(k)' = At(k)
  BY <1>1 DEF Added
<1>3. ASSUME NEW k \in 1..StreamLen', At(k)'.pkt.type = "PUBLISH" PROVE k \in 1..StreamLen
  <2>1. k \in 1..StreamLen \/ k = StreamLen + 1 \/ k = StreamLen + 2
    BY <1>1
  <2>2. k \in 1..StreamLen \/ At(k)'.pkt = p
    BY <2>1 DEF Added
  <2> QED BY <1>3, <2>2
<1>4. ASSUME NEW t \in Watched, routed[t] # NoReading PROVE LastReading(t)'
  <2>1. LastReading(t)
    BY <1>4 DEF ReadingsKept
  <2>2. \A k \in 1..StreamLen : Carries(t, k)' <=> Carries(t, k)
    BY <1>2 DEF Carries
  <2>3. \A k \in 1..StreamLen' : Carries(t, k)' => k \in 1..StreamLen
    BY <1>3 DEF Carries
  <2>4. Obeyed(t, routed[t]) => Obeyed(t, routed[t])'
    BY DEF Obeyed, outputs
  <2>5. CASE (\A k \in 1..StreamLen : ~Carries(t, k)) /\ Obeyed(t, routed[t])
    BY <2>2, <2>3, <2>4, <2>5 DEF LastReading
  <2>6. ASSUME NEW k \in 1..StreamLen, Carries(t, k), At(k).pkt.value = routed[t],
               \A l \in 1..StreamLen : Carries(t, l) => l <= k
        PROVE  LastReading(t)'
    BY <1>2, <2>2, <2>3, <2>6 DEF LastReading
  <2> QED BY <2>1, <2>5, <2>6 DEF LastReading
<1>5. QED BY <1>2, <1>3, <1>4 DEF ReadingsKept

\* A reading behind the others of its topic is the last.
LEMMA ReadingAdded ==
  ASSUME TypeOK, InPairs, Intact, ReadingsKept, session, session', NEW t \in Topics,
         NEW v \in Values, NEW p \in ToClient, p.type = "PUBLISH", p.topic = t, p.value = v,
         p.size = "fits", Added(p), routed \in [Topics -> Values \cup {NoReading}],
         routed' = (IF t \in Watched THEN [routed EXCEPT ![t] = v] ELSE routed),
         UNCHANGED outputs
  PROVE  ReadingsKept'
<1>1. StreamLen \in Nat /\ StreamLen' = StreamLen + 2 /\ StreamLen % 2 = 0
  BY Lens DEF Added, InPairs
<1>2. ASSUME NEW k \in 1..StreamLen PROVE k \in 1..StreamLen' /\ At(k)' = At(k)
  BY <1>1 DEF Added
<1>3. ASSUME NEW k \in 1..StreamLen' PROVE k \in 1..StreamLen \/ (k > StreamLen /\ At(k)'.pkt = p)
  <2>1. k \in 1..StreamLen \/ k = StreamLen + 1 \/ k = StreamLen + 2
    BY <1>1
  <2> QED BY <1>1, <2>1 DEF Added
<1>4. ASSUME NEW k \in 1..StreamLen', At(k)'.pkt.type = "PUBLISH" PROVE At(k)'.pkt.size = "fits"
  BY <1>2, <1>3, <1>4 DEF ReadingsKept
<1>5. t \in Watched => LastReading(t)'
  <2> SUFFICES ASSUME t \in Watched PROVE LastReading(t)'
    OBVIOUS
  <2>1. PICK k \in 1..StreamLen' : k = StreamLen + 2 /\ k % 2 = 0
    BY <1>1
  <2>2. At(k)'.pkt = p
    BY <1>1, <1>3, <2>1
  <2>3. Carries(t, k)' /\ At(k)'.pkt.value = routed'[t]
    BY <2>1, <2>2 DEF Carries
  <2>4. \A l \in 1..StreamLen' : l <= k
    BY <1>1, <2>1
  <2> QED BY <2>3, <2>4 DEF LastReading
<1>6. ASSUME NEW s \in Watched, s # t, routed'[s] # NoReading PROVE LastReading(s)'
  <2>1. LastReading(s) /\ routed'[s] = routed[s]
    BY <1>6 DEF ReadingsKept
  <2>2. \A k \in 1..StreamLen : Carries(s, k)' <=> Carries(s, k)
    BY <1>2 DEF Carries
  <2>3. \A k \in 1..StreamLen' : Carries(s, k)' => k \in 1..StreamLen
    BY <1>3, <1>6 DEF Carries
  <2>4. Obeyed(s, routed[s]) => Obeyed(s, routed[s])'
    BY <2>1 DEF Obeyed, outputs
  <2>5. CASE (\A k \in 1..StreamLen : ~Carries(s, k)) /\ Obeyed(s, routed[s])
    BY <2>2, <2>3, <2>4, <2>5 DEF LastReading
  <2>6. ASSUME NEW k \in 1..StreamLen, Carries(s, k), At(k).pkt.value = routed[s],
               \A l \in 1..StreamLen : Carries(s, l) => l <= k
        PROVE  LastReading(s)'
    BY <1>2, <2>1, <2>2, <2>3, <2>6 DEF LastReading
  <2> QED BY <2>1, <2>5, <2>6 DEF LastReading
<1>7. QED BY <1>4, <1>5, <1>6 DEF ReadingsKept

-----------------------------------------------------------------------------
(* The readings, step by step                                              *)
-----------------------------------------------------------------------------
\* callback() obeys the reading, and the other topic keeps its outputs.
LEMMA CallbackObeys ==
  ASSUME NEW p \in Publication, Callback(p), motor \in BOOLEAN
  PROVE  /\ \A t \in Topics, v \in Values : Obeyed(t, v) /\ p.topic # t => Obeyed(t, v)'
         /\ \A v \in Values : p.value = v => Obeyed(p.topic, v)'
<1>1. p.value \in Values
  BY DEF Publication
<1>2. ASSUME NEW t \in Topics, NEW v \in Values, Obeyed(t, v), p.topic # t PROVE Obeyed(t, v)'
  BY <1>2 DEF Callback, Obeyed
<1>3. ASSUME NEW v \in Values, p.value = v PROVE Obeyed(p.topic, v)'
  <2>1. v \in Nat
    BY ActuatorAssumption
  <2>2. CASE p.topic = "temperature"
    <3>1. motor' = Motor(Atoi(v))
      BY <1>3, <2>2 DEF Callback
    <3>2. motor' <=> v >= 270
      BY <3>1, OutputsOf
    <3>3. motor' \in BOOLEAN
      BY <3>1, OutputsOf
    <3>4. motor' = (v >= 270)
      BY <2>1, <3>2, <3>3
    <3> QED BY <2>2, <3>4 DEF Obeyed
  <2>3. CASE p.topic = "humidity"
    <3>1. rgb' = LED(Atoi(v))
      BY <1>3, <2>3 DEF Callback
    <3>2. rgb' = IF v >= 610 THEN "red" ELSE IF v < 500 THEN "blue" ELSE "green"
      BY <2>1, <3>1, OutputsOf
    <3> QED BY <2>3, <3>2 DEF Obeyed
  <2>4. CASE p.topic \notin {"temperature", "humidity"}
    BY <2>4 DEF Obeyed
  <2> QED BY <2>2, <2>3, <2>4
<1>4. QED BY <1>2, <1>3

\* A call goes on: the packet read leaves the stream and is obeyed.
LEMMA GoOnReadings ==
  ASSUME Prompt, Sound, InStep, TypeOKA, ReadingsKept, GoOn
  PROVE  ReadingsKept'
<1> USE DEF Sound
<1>1. CASE ~session'
  BY <1>1, NoSession DEF GoOn
<1>2. CASE session'
  <2>1. ASSUME session PROVE routed' = routed
    BY <1>2, <2>1 DEF GoOn, Forget
  <2>2. ASSUME ~session, session' = session PROVE FALSE
    BY <1>2, <2>2
  <2>3. CASE TcpUp \/ TcpFail
    <3>1. ~sock /\ session' = session
      BY <2>3 DEF TcpUp, TcpFail, SocketKept, peer
    <3> QED BY <1>2, <3>1 DEF LinkKept, Intact
  <2>4. CASE ConnackHead
    <3>1. Kept /\ session' = session /\ ~Handed
      BY <2>4, HeadRead DEF ConnackHead, Mid, peer, Handed, Finishes
    <3> QED BY <1>2, <2>1, <3>1, StreamKept DEF GoOn
  <2>5. CASE ConnackTimeout \/ ConnackBodyTimeout
    BY <1>2, <2>5 DEF ConnackTimeout, ConnackBodyTimeout, CloseLink
  <2>6. CASE ConnackBody
    <3>1. ~CloseLink
      BY <1>2 DEF CloseLink
    <3>2. partial.pkt.type = "CONNACK" /\ inbox # <<>> /\ inbox' = Tail(inbox) /\ down' = down
            /\ Mid /\ ~Mid' /\ session' = session /\ ~Handed
      BY <2>6, <3>1 DEF ConnackBody, Mid, Return, peer, Handed, Finishes
    <3>3. Taken /\ At(1).pkt.type # "PUBLISH"
      BY <3>2, BodyRead, FirstIsPartial
    <3>4. UNCHANGED outputs
      BY <3>2 DEF GoOn
    <3>5. \A t \in Topics, v \in Values : Obeyed(t, v) => Obeyed(t, v)'
      BY <3>4 DEF Obeyed, outputs
    <3> QED BY <1>2, <2>1, <3>2, <3>3, <3>5, StreamTaken DEF InStep, TypeOKA, ObeysIfRead
  <2>7. CASE LoopBody
    <3>1. ~CloseLink
      BY <1>2 DEF CloseLink
    <3>2. inbox # <<>> /\ inbox' = Tail(inbox) /\ down' = down /\ Mid /\ ~Mid'
            /\ session' = session /\ Finishes
      BY <2>7, <3>1 DEF LoopBody, Finishes, ReturnConnected, NoteLoss, Mid, Return, peer
    <3>3. Taken /\ At(1) = partial /\ 1 \in 1..StreamLen
      BY <3>2, BodyRead, FirstIsPartial
    <3>4. CASE partial.pkt.type = "PUBLISH"
      <4>1. Handed /\ partial.pkt \in Publication
        BY <1>2, <3>2, <3>3, <3>4, HandedIs DEF ReadingsKept, Handed
      <4>2. Callback(partial.pkt) /\ motor \in BOOLEAN
        BY <4>1 DEF GoOn, TypeOKA
      <4>3. PICK p \in Publication : p = partial.pkt /\ Callback(p)
        BY <4>1, <4>2
      <4>4. /\ \A t \in Topics, v \in Values : Obeyed(t, v) /\ p.topic # t => Obeyed(t, v)'
            /\ \A v \in Values : p.value = v => Obeyed(p.topic, v)'
        BY <4>2, <4>3, CallbackObeys
      <4>5. At(1).pkt = p
        BY <3>3, <4>3
      <4>6. \A t \in Topics, v \in Values :
              Obeyed(t, v) /\ ~(At(1).pkt.type = "PUBLISH" /\ At(1).pkt.topic = t)
                => Obeyed(t, v)'
        BY <3>3, <3>4, <4>4, <4>5
      <4>7. \A t \in Topics, v \in Values :
              At(1).pkt.type = "PUBLISH" /\ At(1).pkt.topic = t /\ At(1).pkt.value = v
                => Obeyed(t, v)'
        BY <4>4, <4>5
      <4> QED BY <1>2, <2>1, <3>2, <3>3, <4>6, <4>7, StreamTaken DEF InStep, TypeOKA, ObeysIfRead
    <3>5. CASE partial.pkt.type # "PUBLISH"
      <4>1. UNCHANGED outputs
        BY <3>5 DEF GoOn, Handed
      <4>2. \A t \in Topics, v \in Values : Obeyed(t, v) => Obeyed(t, v)'
        BY <4>1 DEF Obeyed, outputs
      <4> QED BY <1>2, <2>1, <3>2, <3>3, <3>5, <4>2, StreamTaken DEF InStep, TypeOKA, ObeysIfRead
    <3> QED BY <3>4, <3>5
  <2>8. CASE LoopBodyTimeout
    <3>1. Mid /\ GivesUp /\ ~CloseLink
      BY <1>2, <2>8 DEF LoopBodyTimeout, Mid, CloseLink
    <3>2. ~Intact /\ session' = session
      BY <2>8, <3>1, Patient DEF LoopBodyTimeout, ReturnConnected, NoteLoss, peer
    <3> QED BY <1>2, <3>2 DEF LinkKept
  <2>9. CASE GarbageRead
    BY <2>9, NoGarbage DEF GarbageRead, Mid
  <2> QED BY <2>3, <2>4, <2>5, <2>6, <2>7, <2>8, <2>9 DEF GoOn, LibraryStep
<1>3. QED BY <1>1, <1>2

\* connect(), loop() and the writes leave the readings where they are.
LEMMA CallReadings ==
  ASSUME Sound, InStep, ReadingsKept, Forget, UNCHANGED outputs,
         CallConnect \/ CallLoop \/ \E p \in ToBroker : Write(p)
  PROVE  ReadingsKept'
<1> USE DEF Sound
<1>1. CASE ~session'
  BY <1>1, NoSession
<1>2. CASE session'
  <2>1. ~CloseLink
    BY <1>2 DEF CloseLink
  <2>2. CASE CallConnect
    <3>1. UNCHANGED <<inbox, down, partial, call, session>>
      BY <2>1, <2>2 DEF CallConnect, SocketKept, InConnect, Connected, TcpConnected, NoteLoss,
         link, peer
    <3>2. Kept
      BY <3>1, Untouched DEF Mid
    <3> QED BY <1>2, <3>1, <3>2, StreamKept DEF Forget
  <2>3. CASE LoopNotConnected
    BY <2>1, <2>3 DEF LoopNotConnected, Connected, TcpConnected, NoteLoss, SocketKept, InConnect
  <2>4. CASE LoopPingTimeout
    BY <2>1, <2>4 DEF LoopPingTimeout
  <2>5. CASE LoopRun
    <3>1. ~Mid /\ session' = session /\ down' = down
      BY <2>5 DEF LoopRun, Mid, peer
    <3>2. CASE inbox # <<>>
      <4>1. inbox' = Tail(inbox) /\ partial' = Head(inbox) /\ Mid'
        BY <2>5, <3>2 DEF LoopRun, Mid
      <4>2. Kept
        BY <3>1, <3>2, <4>1, HeadRead
      <4> QED BY <1>2, <3>1, <4>2, StreamKept DEF Forget
    <3>3. CASE inbox = <<>>
      <4>1. UNCHANGED <<inbox, partial, call>>
        BY <2>5, <3>3 DEF LoopRun
      <4>2. Kept
        BY <3>1, <4>1, Untouched DEF Mid
      <4> QED BY <1>2, <3>1, <4>2, StreamKept DEF Forget
    <3> QED BY <3>2, <3>3
  <2>6. ASSUME NEW p \in ToBroker, Write(p) PROVE ReadingsKept'
    <3>1. UNCHANGED <<inbox, down, partial, call, session>>
      BY <2>1, <2>6 DEF Write, NoteLoss, link, peer
    <3>2. Kept
      BY <3>1, Untouched DEF Mid
    <3> QED BY <1>2, <3>1, <3>2, StreamKept DEF Forget
  <2> QED BY <2>2, <2>3, <2>4, <2>5, <2>6 DEF CallLoop
<1>3. QED BY <1>1, <1>2

\* The answer of the broker goes behind the readings.
LEMMA HandleReadings ==
  ASSUME Sound, InStep, ReadingsKept, Forget, UNCHANGED outputs, BrokerHandle
  PROVE  ReadingsKept'
<1> USE DEF Sound
<1>1. /\ up # <<>> /\ session' = TRUE /\ Len(down) + 2 <= MaxUnits
        /\ down' = down \o Reply(Head(up))
      /\ UNCHANGED <<inbox, call, partial>> /\ Head(up) \in ToBroker
  BY TailOf, Ups DEF BrokerHandle, lib
<1>2. routed' = routed
  BY <1>1 DEF Forget
<1>3. CASE session
  <2>1. CASE Reply(Head(up)) = <<>>
    <3>1. down' = down
      BY <1>1, <2>1, Lens
    <3>2. Kept
      BY <1>1, <3>1, Untouched DEF Mid
    <3> QED BY <1>1, <1>2, <1>3, <3>2, StreamKept
  <2>2. ASSUME NEW r \in ToClient, Reply(Head(up)) = Units(r), r.type # "PUBLISH"
        PROVE  ReadingsKept'
    <3>1. Added(r)
      BY <1>1, <2>2, PairSent
    <3> QED BY <1>1, <1>2, <1>3, <2>2, <3>1, StreamAdded
  <2> QED BY <1>1, <2>1, <2>2, ReplyIs, Packets
<1>4. CASE ~session
  <2>1. Intact
    BY <1>1 DEF LinkKept
  <2>2. \A k \in 1..StreamLen : At(k).pkt.type = "CONNACK"
    BY <1>4, <2>1 DEF InStep, Accepted, Refusal
  <2>3. \A t \in Topics : routed'[t] = NoReading
    BY <1>2, <1>4 DEF ReadingsKept, NothingRouted
  <2>4. ASSUME NEW k \in 1..StreamLen' PROVE At(k)'.pkt.type # "PUBLISH"
    <3>1. CASE Reply(Head(up)) = <<>>
      <4>1. down' = down
        BY <1>1, <3>1, Lens
      <4>2. Kept
        BY <1>1, <4>1, Untouched DEF Mid
      <4> QED BY <2>2, <4>2 DEF Kept
    <3>2. ASSUME NEW r \in ToClient, Reply(Head(up)) = Units(r), r.type # "PUBLISH"
          PROVE  At(k)'.pkt.type # "PUBLISH"
      <4>1. Added(r) /\ StreamLen \in Nat
        BY <1>1, <3>2, PairSent, Lens
      <4>2. k \in 1..StreamLen \/ k = StreamLen + 1 \/ k = StreamLen + 2
        BY <4>1 DEF Added
      <4>3. k \in 1..StreamLen \/ At(k)'.pkt = r
        BY <4>1, <4>2 DEF Added
      <4> QED BY <2>2, <3>2, <4>1, <4>3 DEF Added
    <3> QED BY <1>1, <3>1, <3>2, ReplyIs, Packets
  <2> QED BY <1>1, <2>3, <2>4, WatchedTopics DEF ReadingsKept
<1>5. QED BY <1>3, <1>4

\* Every step of the sketch and around it keeps the readings.
LEMMA NextReadings ==
  ASSUME Prompt, Sound, InStep, TypeOKA, ReadingsKept, [NextA]_varsA
  PROVE  ReadingsKept'
<1> USE DEF Sound
<1>1. ASSUME UNCHANGED <<inbox, down, call, partial, session>>, Forget \/ routed' = routed,
             UNCHANGED outputs
      PROVE  ReadingsKept'
  <2>1. Kept
    BY <1>1, Untouched DEF Mid
  <2>2. routed' = routed
    BY <1>1 DEF Forget
  <2>3. CASE session
    BY <1>1, <2>1, <2>2, <2>3, StreamKept
  <2>4. CASE ~session
    BY <1>1, <2>2, <2>4 DEF ReadingsKept
  <2> QED BY <2>3, <2>4
<1>2. CASE Sketch
  <2>1. CASE WifiReady \/ AlreadyConnected
    BY <1>1, <2>1 DEF WifiReady, AlreadyConnected, vars, link, peer, lib
  <2>2. CASE TryConnect
    BY <2>2, CallReadings DEF TryConnect
  <2>3. CASE SubscribeNext
    <3>1. Head(todo) \in Topics /\ 0 \in QosLevels
      BY <2>3, ActuatorAssumption DEF SubscribeNext, TypeOKA
    <3>2. [type |-> "SUBSCRIBE", topic |-> Head(todo), qos |-> 0] \in ToBroker
      BY <3>1 DEF ToBroker
    <3> QED BY <2>3, <3>2, CallReadings DEF SubscribeNext, CallSubscribe
  <2>4. CASE RunLibrary
    BY <2>4, CallReadings DEF RunLibrary
  <2>5. CASE GoOn
    BY <2>5, GoOnReadings
  <2> QED BY <1>2, <2>1, <2>2, <2>3, <2>4, <2>5 DEF Sketch
<1>3. CASE WifiUp
  BY <1>1, <1>3 DEF WifiUp, link, peer, lib
<1>4. CASE WifiDrop
  BY <1>4, NoSession DEF WifiDrop
<1>5. CASE Surroundings
  <2>1. CASE Deliver
    <3>1. Kept /\ session' = session
      BY <2>1, Delivered DEF Deliver, lib, peer
    <3>2. CASE session
      BY <1>5, <3>1, <3>2, StreamKept DEF Surroundings, Forget
    <3>3. CASE ~session
      BY <1>5, <3>1, <3>3, NoSession DEF Surroundings
    <3> QED BY <3>2, <3>3
  <2>2. CASE BrokerHandle
    BY <1>5, <2>2, HandleReadings DEF Surroundings
  <2>3. CASE BrokerRefuse \/ BrokerCrash \/ LinkCut
    <3>1. ~session'
      BY <2>3 DEF BrokerRefuse, BrokerCrash, PeerGone, LinkCut, peer
    <3> QED BY <1>5, <3>1, NoSession DEF Surroundings
  <2>4. CASE BrokerRestart
    BY <1>1, <1>5, <2>4 DEF Surroundings, BrokerRestart, link, peer, lib
  <2> QED BY <1>5, <2>1, <2>2, <2>3, <2>4 DEF Surroundings
<1>6. CASE TimePasses
  BY <1>1, <1>6 DEF TimePasses, Elapse
<1>7. ASSUME NEW t \in Topics, NEW v \in Values, Reading(t, v) PROVE ReadingsKept'
  <2> DEFINE p == [type |-> "PUBLISH", topic |-> t, value |-> v, size |-> "fits", qos |-> 0]
  <2>1. p \in ToClient
    BY ActuatorAssumption, PublicationType
  <2>2. /\ session /\ session' = session /\ Len(down) + 2 <= MaxUnits /\ down' = down \o Units(p)
        /\ UNCHANGED <<inbox, call, partial>>
    BY <1>7 DEF Reading, BrokerPublish, peer, lib
  <2>3. p.type = "PUBLISH" /\ p.topic = t /\ p.value = v /\ p.size = "fits"
    OBVIOUS
  <2> HIDE DEF p
  <2>4. Added(p) /\ Intact
    BY <2>1, <2>2, PairSent DEF LinkKept
  <2> QED BY <1>7, <2>1, <2>2, <2>3, <2>4, ReadingAdded DEF Reading, InStep, TypeOKA
<1>8. CASE UNCHANGED varsA
  BY <1>1, <1>8 DEF varsA, vars, link, peer, lib
<1>9. QED BY <1>2, <1>3, <1>4, <1>5, <1>6, <1>7, <1>8 DEF NextA

\* Once nothing is under way on a live connection, motor and LED stand as the last
\* readings demand, for all readings, queues, times and faults, if the network
\* delivers within the socket timeout: no reading is lost or overtaken, and none is
\* taken for a reading of another topic.
THEOREM ActuatorSafe ==
  ASSUME Prompt
  PROVE  SpecA => []ActuatorInv
<1> DEFINE Inv == TypeOKA /\ Sound /\ InStep /\ ReadingsKept
<1>1. InitA => Inv
  <2> SUFFICES ASSUME InitA PROVE Inv
    OBVIOUS
  <2>1. Sound /\ InStep
    BY InitSound, InitInStep DEF InitA, Sound
  <2>2. TypeOKA
    <3>1. Subscriptions \in Seq(Topics)
      BY ActuatorAssumption DEF Subscriptions
    <3> QED BY <2>1, <3>1 DEF InitA, TypeOKA, Sound, Places, NothingRouted
  <2>3. ReadingsKept
    BY DEF InitA, Init, ReadingsKept
  <2> QED BY <2>1, <2>2, <2>3
<1>2. Inv /\ [NextA]_varsA => Inv'
  <2> SUFFICES ASSUME Inv, [NextA]_varsA PROVE Inv'
    OBVIOUS
  <2>1. CASE NextA
    <3>1. Sound'
      BY <2>1, ActuatorSound
    <3>2. InStep'
      BY <2>1, <3>1, ActuatorInStep
    <3>3. TypeOKA'
      BY <2>1, <3>1, NextTypes DEF Sound
    <3> QED BY <3>1, <3>2, <3>3, NextReadings
  <2>2. CASE UNCHANGED varsA
    <3>1. Sound' /\ InStep'
      BY <2>2, StutterSound, StutterInStep DEF varsA, Sound
    <3>2. TypeOKA'
      BY <2>2, <3>1 DEF varsA, TypeOKA, sketch, outputs, Sound
    <3> QED BY <3>1, <3>2, NextReadings
  <2> QED BY <2>1, <2>2
<1>3. Inv => ActuatorInv
  <2> SUFFICES ASSUME Inv, session, call = "idle", down = <<>>, inbox = <<>>,
                      NEW t \in Watched, routed[t] # NoReading
               PROVE  Obeyed(t, routed[t])
    BY DEF ActuatorInv, OutputsFollow, Sound
  <2>1. StreamLen = 0
    BY DEF StreamLen, Offset, Mid
  <2>2. LastReading(t)
    BY ActuatorAssumption DEF ReadingsKept
  <2> QED BY <2>1, <2>2 DEF LastReading
<1>4. QED BY <1>1, <1>2, <1>3, PTL DEF SpecA

=============================================================================

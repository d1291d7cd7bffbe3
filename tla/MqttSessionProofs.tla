------------------------- MODULE MqttSessionProofs --------------------------
(***************************************************************************)
(* The calls and the keepalive of ArduinoMqttClient, for every keepalive   *)
(* interval, timeout, number of packet ids, calls and faults: streamed     *)
(* messages stay whole, the broker hears the client, no living connection  *)
(* is given up, and what a call reports as done the broker did.            *)
(***************************************************************************)
EXTENDS MqttSession, FiniteSetTheorems, SequenceTheorems, TLAPS

-----------------------------------------------------------------------------
(* The invariant of the streams                                            *)
-----------------------------------------------------------------------------
Dark == cut \/ ~ sock
Codes == {-1, 0, 1, 5, 128}

Requests == {"subscribe", "unsubscribe", "publish1", "publish2", "header1", "header2", "pubrel"}
Sent == [type : Requests, id : 1 .. MaxId, n : 1 .. MaxCalls]
   \cup [type : {"connect", "publish", "header", "payload"}, id : {0}, n : 1 .. MaxCalls]
   \cup [type : {"pingreq"}, id : {0}, n : {0}]
Received == [type : Acks, id : 1 .. MaxId, n : {0, 1, 128}]
       \cup [type : {"connack"}, id : {0}, n : {0, 5}]
       \cup [type : {"pingresp"}, id : {0}, n : {0}]

Types ==
    /\ setting \in Settings
    /\ sock \in BOOLEAN /\ connected \in BOOLEAN /\ cut \in BOOLEAN /\ polled \in BOOLEAN
    /\ txPacketId \in 0 .. MaxId /\ returnCode \in Codes
    /\ call \in [for : Waits \cup {"nothing"}, n : 0 .. MaxCalls, qos : 0 .. 2]
    /\ stream \in [open : BOOLEAN, qos : 0 .. 2]
    /\ in \in Seq(Received) /\ out \in Seq(Sent)
    /\ sincePing \in Nat /\ sinceRx \in Nat /\ silent \in Nat
    /\ waited \in 0 .. ConnectionTimeout
    /\ calls \in 0 .. MaxCalls /\ taken \subseteq 1 .. MaxCalls

\* A call with a packet id is under way.
Busy == call.for \notin {"nothing", "connack"} \/ (stream.open /\ stream.qos > 0)

Together(s) ==
    \A i, j \in DOMAIN s :
        /\ i < j /\ s[i].type \in Headers
        /\ \A k \in i + 1 .. j - 1 : s[k].type = "pingreq"
        => s[j].type \in {"payload", "pingreq"}
\* Nothing but pings stands behind a header.
Ends(s) == \E i \in DOMAIN s : /\ s[i].type \in Headers
                               /\ \A k \in i + 1 .. Len(s) : s[k].type = "pingreq"
Framed ==
    /\ Together(out)
    /\ Ends(out) => stream.open
    /\ Dark => out = <<>>
Calling ==
    /\ stream.open => call.for = "nothing" /\ calls > 0
    /\ Busy => txPacketId > 0
    /\ call.for = "nothing" => call = NoCall /\ waited = 0
    /\ call.for # "nothing" => call.n = calls /\ calls > 0 /\ returnCode = NoCode
SInv == Types /\ Calling /\ Framed

-----------------------------------------------------------------------------
(* Sequences                                                               *)
-----------------------------------------------------------------------------
\* A packet behind a sequence.
LEMMA Behind1 ==
  ASSUME NEW S, NEW s \in Seq(S), NEW p \in S
  PROVE  /\ s \o <<p>> \in Seq(S) /\ Len(s \o <<p>>) = Len(s) + 1
         /\ \A i \in 1 .. Len(s) : (s \o <<p>>)[i] = s[i]
         /\ (s \o <<p>>)[Len(s) + 1] = p
         /\ DOMAIN (s \o <<p>>) = 1 .. Len(s) + 1
         /\ s \o <<p>> # <<>>
<1>1. <<p>> \in Seq(S) /\ Len(<<p>>) = 1 /\ <<p>>[1] = p
  OBVIOUS
<1>2. /\ s \o <<p>> \in Seq(S) /\ Len(s \o <<p>>) = Len(s) + 1
      /\ \A i \in 1 .. Len(s) + 1 : (s \o <<p>>)[i] = IF i <= Len(s) THEN s[i] ELSE <<p>>[i - Len(s)]
  BY <1>1, ConcatProperties
<1>3. Len(s) \in Nat
  OBVIOUS
<1>4. DOMAIN (s \o <<p>>) = 1 .. Len(s) + 1
  BY <1>2
<1>5. s \o <<p>> # <<>>
  BY <1>2, <1>3
<1> QED BY <1>1, <1>2, <1>3, <1>4, <1>5

\* Two packets behind a sequence.
LEMMA Behind2 ==
  ASSUME NEW S, NEW s \in Seq(S), NEW p \in S, NEW q \in S
  PROVE  s \o (<<p>> \o <<q>>) = (s \o <<p>>) \o <<q>>
BY ConcatAssociative

\* What is left without the first packets.
LEMMA Rest ==
  ASSUME NEW S, NEW s \in Seq(S), NEW k \in Nat, k <= Len(s)
  PROVE  LET r == SubSeq(s, k + 1, Len(s))
         IN  /\ r \in Seq(S) /\ Len(r) = Len(s) - k /\ DOMAIN r = 1 .. Len(s) - k
             /\ \A i \in 1 .. Len(s) - k : r[i] = s[i + k]
<1>1. Len(s) \in Nat /\ \A i \in k + 1 .. Len(s) : s[i] \in S
  OBVIOUS
<1>2. /\ SubSeq(s, k + 1, Len(s)) \in Seq(S)
      /\ Len(SubSeq(s, k + 1, Len(s))) = IF k + 1 <= Len(s) THEN Len(s) - (k + 1) + 1 ELSE 0
      /\ \A i \in 1 .. Len(s) - (k + 1) + 1 : SubSeq(s, k + 1, Len(s))[i] = s[(k + 1) + i - 1]
  BY <1>1, SubSeqProperties
<1> QED BY <1>1, <1>2

\* A packet behind a stream that is together.
LEMMA TogetherGrows ==
  ASSUME NEW S, NEW s \in Seq(S), NEW p \in S, Together(s),
         p.type \in {"payload", "pingreq"} \/ ~ Ends(s)
  PROVE  /\ Together(s \o <<p>>)
         /\ Ends(s \o <<p>>) => p.type \in Headers \/ (p.type = "pingreq" /\ Ends(s))
<1> DEFINE t == s \o <<p>>
<1>1. /\ Len(t) = Len(s) + 1 /\ DOMAIN t = 1 .. Len(s) + 1 /\ Len(s) \in Nat
      /\ \A i \in 1 .. Len(s) : t[i] = s[i]
      /\ t[Len(s) + 1] = p /\ DOMAIN s = 1 .. Len(s)
  BY Behind1
<1> HIDE DEF t
<1>2. Together(t)
  <2> SUFFICES ASSUME NEW i \in DOMAIN t, NEW j \in DOMAIN t, i < j, t[i].type \in Headers,
                      \A k \in i + 1 .. j - 1 : t[k].type = "pingreq"
               PROVE  t[j].type \in {"payload", "pingreq"}
    BY DEF Together
  <2>1. CASE j <= Len(s)
    <3>1. i \in DOMAIN s /\ j \in DOMAIN s /\ t[i] = s[i] /\ t[j] = s[j]
      BY <1>1, <2>1
    <3>2. \A k \in i + 1 .. j - 1 : s[k].type = "pingreq"
      BY <1>1, <2>1
    <3> QED BY <3>1, <3>2 DEF Together
  <2>2. CASE j = Len(s) + 1
    <3>1. i \in DOMAIN s /\ t[i] = s[i] /\ t[j] = p
      BY <1>1, <2>2
    <3>2. \A k \in i + 1 .. Len(s) : s[k].type = "pingreq"
      BY <1>1, <2>2
    <3>3. Ends(s)
      BY <3>1, <3>2 DEF Ends
    <3> QED BY <3>1, <3>3
  <2> QED BY <1>1, <2>1, <2>2
<1>3. ASSUME Ends(t) PROVE p.type \in Headers \/ (p.type = "pingreq" /\ Ends(s))
  <2>1. PICK i \in DOMAIN t : t[i].type \in Headers /\ \A k \in i + 1 .. Len(t) : t[k].type = "pingreq"
    BY <1>3 DEF Ends
  <2>2. CASE i = Len(s) + 1
    BY <1>1, <2>1, <2>2
  <2>3. CASE i <= Len(s)
    <3>1. p.type = "pingreq"
      BY <1>1, <2>1, <2>3
    <3>2. i \in DOMAIN s /\ s[i].type \in Headers /\ \A k \in i + 1 .. Len(s) : s[k].type = "pingreq"
      BY <1>1, <2>1, <2>3
    <3> QED BY <3>1, <3>2 DEF Ends
  <2> QED BY <1>1, <2>2, <2>3
<1> QED BY <1>2, <1>3 DEF t

\* The rest of a stream that is together.
LEMMA TogetherRest ==
  ASSUME NEW S, NEW s \in Seq(S), NEW k \in Nat, k <= Len(s), Together(s)
  PROVE  /\ Together(SubSeq(s, k + 1, Len(s)))
         /\ Ends(SubSeq(s, k + 1, Len(s))) => Ends(s)
<1> DEFINE r == SubSeq(s, k + 1, Len(s))
<1>1. /\ Len(r) = Len(s) - k /\ DOMAIN r = 1 .. Len(s) - k /\ Len(s) \in Nat
      /\ DOMAIN s = 1 .. Len(s)
      /\ \A i \in 1 .. Len(s) - k : r[i] = s[i + k]
  BY Rest
<1> HIDE DEF r
<1>2. Together(r)
  <2> SUFFICES ASSUME NEW i \in DOMAIN r, NEW j \in DOMAIN r, i < j, r[i].type \in Headers,
                      \A m \in i + 1 .. j - 1 : r[m].type = "pingreq"
               PROVE  r[j].type \in {"payload", "pingreq"}
    BY DEF Together
  <2>1. i + k \in DOMAIN s /\ j + k \in DOMAIN s /\ i + k < j + k /\ s[i + k].type \in Headers
    BY <1>1
  <2>2. ASSUME NEW m \in (i + k) + 1 .. (j + k) - 1 PROVE s[m].type = "pingreq"
    <3>1. m - k \in i + 1 .. j - 1 /\ m - k \in 1 .. Len(s) - k /\ (m - k) + k = m
      BY <1>1
    <3>2. r[m - k] = s[(m - k) + k]
      BY <1>1, <3>1
    <3> QED BY <3>1, <3>2
  <2>3. s[j + k].type \in {"payload", "pingreq"}
    <3>1. \A a, b \in DOMAIN s :
            /\ a < b /\ s[a].type \in Headers
            /\ \A m \in a + 1 .. b - 1 : s[m].type = "pingreq"
            => s[b].type \in {"payload", "pingreq"}
      BY DEF Together
    <3> HIDE DEF Headers
    <3>2. \A m \in (i + k) + 1 .. (j + k) - 1 : s[m].type = "pingreq"
      BY <2>2
    <3> QED BY ONLY <2>1, <3>1, <3>2
  <2>4. j \in 1 .. Len(s) - k
    BY <1>1
  <2>5. r[j] = s[j + k]
    BY <1>1, <2>4
  <2> QED BY <2>3, <2>5
<1>3. ASSUME Ends(r) PROVE Ends(s)
  <2>1. PICK i \in DOMAIN r : r[i].type \in Headers /\ \A m \in i + 1 .. Len(r) : r[m].type = "pingreq"
    BY <1>3 DEF Ends
  <2>2. i + k \in DOMAIN s /\ s[i + k].type \in Headers
    BY <1>1, <2>1
  <2>3. ASSUME NEW m \in i + k + 1 .. Len(s) PROVE s[m].type = "pingreq"
    <3>1. m - k \in i + 1 .. Len(r) /\ m - k \in 1 .. Len(s) - k /\ (m - k) + k = m
      BY <1>1
    <3> QED BY <1>1, <2>1, <3>1
  <2> QED BY <2>2, <2>3 DEF Ends
<1> QED BY <1>2, <1>3 DEF r

\* A set of natural numbers has a least one.
LEMMA LeastExists ==
  ASSUME NEW T, T \subseteq Nat, T # {}
  PROVE  \E x \in T : \A y \in T : x <= y
<1> DEFINE R == OpToRel(<, Nat)
<1>1. IsWellFoundedOn(R, Nat)
  BY NatLessThanWellFounded
<1> HIDE DEF R
<1>2. PICK x \in T : \A y \in T : ~ (<<y, x>> \in R)
  BY <1>1, WFMin
<1>3. ASSUME NEW y \in T PROVE ~ (y < x)
  <2>1. <<y, x>> \in Nat \X Nat
    OBVIOUS
  <2>2. ~ (<<y, x>> \in {ss \in Nat \X Nat : ss[1] < ss[2]})
    BY <1>2 DEF R, OpToRel
  <2> QED BY <2>1, <2>2
<1> QED BY <1>3

\* A set of positions has a last one.
LEMMA LastExists ==
  ASSUME NEW n \in Nat, NEW T, T \subseteq 1 .. n, T # {}
  PROVE  Max(T) \in T
<1> DEFINE U == {n - y : y \in T}
<1>1. U \subseteq Nat
  OBVIOUS
<1>2. U # {}
  <2>1. PICK y : y \in T
    OBVIOUS
  <2>2. n - y \in U
    BY <2>1
  <2> QED BY <2>2
<1>3. PICK u \in U : \A v \in U : u <= v
  BY <1>1, <1>2, LeastExists
<1>4. PICK x \in T : u = n - x
  BY <1>3
<1>5. ASSUME NEW y \in T PROVE x >= y
  <2>1. u <= n - y /\ x \in Int /\ y \in Int
    BY <1>3
  <2> QED BY ONLY <2>1, <1>4, n \in Nat
<1> QED BY <1>5 DEF Max

-----------------------------------------------------------------------------
(* What the steps do                                                       *)
-----------------------------------------------------------------------------
\* The bounds of the setting.
LEMMA Limits ==
  ASSUME setting \in Settings
  PROVE  /\ MaxId \in Nat /\ MaxId >= 1 /\ MaxCalls \in Nat /\ MaxLate \in Nat
         /\ Timely \in BOOLEAN
BY SessionAssumption DEF MaxId, MaxCalls, MaxLate, Timely

\* The setting of a behaviour stays.
LEMMA LimitsStay ==
  ASSUME setting' = setting
  PROVE  /\ MaxId' = MaxId /\ MaxCalls' = MaxCalls /\ MaxLate' = MaxLate /\ Timely' = Timely
         /\ Sent' = Sent /\ Received' = Received
BY DEF MaxId, MaxCalls, MaxLate, Timely, Sent, Received, Acks

\* The packets the client sends and gets.
LEMMA PacketKinds ==
  ASSUME NEW type, NEW id, NEW n
  PROVE  /\ Packet(type, id, n).type = type /\ Packet(type, id, n).id = id
         /\ Packet(type, id, n).n = n
         /\ type \in Requests /\ id \in 1 .. MaxId /\ n \in 1 .. MaxCalls => Packet(type, id, n) \in Sent
         /\ type \in {"connect", "publish", "header", "payload"} /\ id = 0 /\ n \in 1 .. MaxCalls
              => Packet(type, id, n) \in Sent
         /\ type = "pingreq" /\ id = 0 /\ n = 0 => Packet(type, id, n) \in Sent
         /\ type \in Acks /\ id \in 1 .. MaxId /\ n \in {0, 1, 128} => Packet(type, id, n) \in Received
         /\ type = "connack" /\ id = 0 /\ n \in {0, 5} => Packet(type, id, n) \in Received
         /\ type = "pingresp" /\ id = 0 /\ n = 0 => Packet(type, id, n) \in Received
BY DEF Packet, Sent, Received

\* What is sent on a connection arrives at its end; on one that is lost it does not.
Sends(ps) == IF Dark THEN out' = <<>> /\ (sock' => sock) /\ sock' \in BOOLEAN
             ELSE sock' = TRUE /\ out' = out \o ps

\* What Send() does to the packets under way.
LEMMA SendIs ==
  ASSUME Types, Dark => out = <<>>, NEW ps, Send(ps)
  PROVE  Sends(ps)
<1>1. CASE ps = <<>>
  <2>1. sock' = sock /\ out' = out
    BY <1>1 DEF Send
  <2>2. out \o <<>> = out
    BY ConcatEmptySeq DEF Types
  <2> QED BY <1>1, <2>1, <2>2 DEF Sends, Dark, Types
<1>2. CASE ps # <<>>
  <2>1. PICK w \in Writes(ps) : sock' = w.sock /\ out' = w.out
    BY <1>2 DEF Send
  <2>2. CASE ~ sock
    <3>1. w = Refused
      BY <2>1, <2>2 DEF Writes
    <3>2. sock' = FALSE /\ out' = <<>>
      BY <2>1, <3>1 DEF Refused
    <3> QED BY <2>2, <3>2 DEF Sends, Dark
  <2>3. CASE sock /\ cut
    <3>1. w = Refused \/ w = Written(ps)
      BY <2>1, <2>3 DEF Writes
    <3>2. (sock' = FALSE /\ out' = <<>>) \/ (sock' = TRUE /\ out' = out)
      BY <2>1, <2>3, <3>1 DEF Refused, Written
    <3> QED BY <2>3, <3>2 DEF Sends, Dark
  <2>4. CASE sock /\ ~ cut
    BY <2>1, <2>4 DEF Writes, Written, Sends, Dark
  <2> QED BY <2>2, <2>3, <2>4
<1> QED BY <1>1, <1>2

\* One run of poll(): everything that has come is read; then a ping, the end of a
\* connection that was silent for too long, or neither.
Age == IF in # <<>> THEN 0 ELSE sinceRx
Ping == Packet("pingreq", 0, 0)
Polls(more) ==
  /\ polled' = TRUE /\ silent' = silent /\ cut' = cut /\ in' = <<>> /\ sinceRx' = Age
  /\ connected' \in BOOLEAN /\ (connected' => connected)
  /\ \/ /\ connected /\ sincePing < KeepAlive /\ Age >= 2 * KeepAlive
        /\ sincePing' = sincePing /\ connected' = FALSE /\ sock' = FALSE /\ out' = <<>>
     \/ connected /\ sincePing >= KeepAlive /\ sincePing' = 0 /\ Sends(<<Ping>> \o more)
     \/ /\ sincePing' = sincePing /\ Sends(more)
        /\ connected' => sincePing < KeepAlive /\ Age < 2 * KeepAlive

\* poll() is one of the three: the connection given up, a ping, or neither.
LEMMA PollStepIs ==
  ASSUME Types, Dark => out = <<>>, NEW more, PollStep(more)
  PROVE  Polls(more)
<1> DEFINE still == connected /\ clientConnected
<1>0. KeepAlive \in Nat /\ sincePing \in Nat /\ Age \in Nat /\ connected \in BOOLEAN
  BY SessionAssumption DEF Types, Age
<1>1. polled' = TRUE /\ sinceRx' = Age /\ silent' = silent
  BY DEF PollStep, Age
<1>2. \/ /\ still /\ PingDue
         /\ sincePing' = 0 /\ in' = <<>> /\ connected' = TRUE
         /\ Send(<<Ping>> \o more) /\ cut' = cut
      \/ still /\ ~ PingDue /\ Dead(Age) /\ Closed /\ sincePing' = sincePing
      \/ /\ still => ~ PingDue /\ ~ Dead(Age)
         /\ in' = <<>> /\ connected' = still
         /\ Send(more) /\ cut' = cut /\ sincePing' = sincePing
  BY DEF PollStep, Age, Ping
<1>3. CASE /\ still /\ PingDue
           /\ sincePing' = 0 /\ in' = <<>> /\ connected' = TRUE
           /\ Send(<<Ping>> \o more) /\ cut' = cut
  <2>1. Sends(<<Ping>> \o more)
    BY <1>3, SendIs
  <2>2. sincePing >= KeepAlive
    BY <1>3 DEF PingDue
  <2> QED BY <1>1, <1>3, <2>1, <2>2 DEF Polls
<1>4. CASE still /\ ~ PingDue /\ Dead(Age) /\ Closed /\ sincePing' = sincePing
  <2>1. sincePing < KeepAlive /\ Age >= 2 * KeepAlive
    BY <1>0, <1>4 DEF PingDue, Dead
  <2> QED BY <1>0, <1>1, <1>4, <2>1 DEF Polls, Closed
<1>5. CASE /\ still => ~ PingDue /\ ~ Dead(Age)
           /\ in' = <<>> /\ connected' = still
           /\ Send(more) /\ cut' = cut /\ sincePing' = sincePing
  <2>1. Sends(more)
    BY <1>5, SendIs
  <2>2. connected' => ~ PingDue /\ ~ Dead(Age)
    BY <1>5
  <2>3. ~ PingDue /\ ~ Dead(Age) => sincePing < KeepAlive /\ Age < 2 * KeepAlive
    BY <1>0 DEF PingDue, Dead
  <2>4. connected' \in BOOLEAN /\ (connected' => connected)
    BY <1>5, Zenon
  <2> QED BY <1>1, <1>5, <2>1, <2>2, <2>3, <2>4 DEF Polls
<1> QED BY <1>2, <1>3, <1>4, <1>5

\* A call that sends: the packet is written, or the connection given up.
SendsAndWaits(c, id, p) ==
  /\ calls' = c.n /\ txPacketId' = (IF id = 0 THEN txPacketId ELSE id) /\ waited' = 0
  /\ \/ /\ Sends(<<p>>) /\ sock' = TRUE /\ in' = in /\ cut' = cut /\ connected' = connected
        /\ IF c.for = "nothing"
           THEN call' = NoCall /\ result' = [call |-> c, ok |-> TRUE] /\ returnCode' = returnCode
           ELSE call' = c /\ result' = result /\ returnCode' = NoCode
     \/ /\ sock' = FALSE /\ in' = <<>> /\ out' = <<>> /\ cut' = cut /\ connected' = FALSE
        /\ call' = NoCall /\ result' = [call |-> c, ok |-> FALSE] /\ returnCode' = returnCode
  /\ UNCHANGED <<sincePing, sinceRx, polled, silent, taken, faults>>

\* A packet is sent and its answer waited for, or the connection is given up.
LEMMA SendAndWaitIs ==
  ASSUME Types, Dark => out = <<>>, NEW c, NEW id, NEW p, SendAndWait(c, id, <<p>>)
  PROVE  SendsAndWaits(c, id, p)
<1>1. PICK w \in Writes(<<p>>) :
         IF ~ w.ok
         THEN Closed /\ Return(c, FALSE) /\ UNCHANGED returnCode
         ELSE /\ sock' = w.sock /\ out' = w.out /\ waited' = 0
              /\ IF c.for = "nothing"
                 THEN Return(c, TRUE) /\ UNCHANGED returnCode
                 ELSE call' = c /\ returnCode' = NoCode /\ UNCHANGED result
              /\ UNCHANGED <<in, cut, connected>>
  BY DEF SendAndWait
<1>2. /\ calls' = c.n /\ txPacketId' = (IF id = 0 THEN txPacketId ELSE id)
      /\ UNCHANGED <<sincePing, sinceRx, polled, silent, taken, faults>>
  BY DEF SendAndWait
<1>3. CASE ~ w.ok
  BY <1>1, <1>2, <1>3 DEF SendsAndWaits, Closed, Return
<1>4. CASE w.ok
  <2>1. sock /\ w = Written(<<p>>)
    BY <1>1, <1>4 DEF Writes, Refused, Written
  <2>2. sock' = TRUE /\ Sends(<<p>>)
    BY <1>1, <1>4, <2>1 DEF Written, Sends, Dark, Types
  <2> QED BY <1>1, <1>2, <1>4, <2>2 DEF SendsAndWaits, Return
<1> QED BY <1>3, <1>4

-----------------------------------------------------------------------------
(* Streams stay together                                                   *)
-----------------------------------------------------------------------------
\* Nothing under way is nothing torn.
LEMMA NothingOut ==
  ASSUME setting' = setting, out' = <<>>
  PROVE  out' \in Seq(Sent') /\ Framed'
<1>1. Together(out') /\ ~ Ends(out')
  BY DEF Together, Ends
<1> QED BY <1>1 DEF Framed

\* What was under way stays.
LEMMA SameOut ==
  ASSUME Types, Framed, setting' = setting, out' = out, stream.open => stream'.open,
         Dark' => Dark
  PROVE  out' \in Seq(Sent') /\ Framed'
<1>1. Sent' = Sent
  BY LimitsStay
<1> QED BY <1>1 DEF Framed, Types

\* One packet is sent.
LEMMA OneOut ==
  ASSUME Types, Framed, setting' = setting, cut' = cut, NEW p \in Sent, Sends(<<p>>),
         p.type \in {"payload", "pingreq"} \/ ~ stream.open,
         p.type \in Headers => stream'.open,
         p.type = "pingreq" /\ stream.open => stream'.open
  PROVE  out' \in Seq(Sent') /\ Framed'
<1>1. Sent' = Sent
  BY LimitsStay
<1>2. CASE Dark
  BY <1>2, NothingOut DEF Sends
<1>3. CASE ~ Dark
  <2>1. sock' = TRUE /\ out' = out \o <<p>> /\ ~ Dark'
    BY <1>3 DEF Sends, Dark
  <2>2. out' \in Seq(Sent)
    BY <2>1, Behind1 DEF Types
  <2>3. Together(out') /\ (Ends(out') => p.type \in Headers \/ (p.type = "pingreq" /\ Ends(out)))
    <3>1. out \in Seq(Sent) /\ Together(out) /\ (Ends(out) => stream.open)
      BY DEF Types, Framed
    <3> QED BY <2>1, <3>1, TogetherGrows
  <2>4. Ends(out') => stream'.open
    BY <2>3 DEF Framed
  <2> QED BY <1>1, <2>1, <2>2, <2>3, <2>4 DEF Framed
<1> QED BY <1>2, <1>3

\* A ping and an answer are sent.
LEMMA TwoOut ==
  ASSUME Types, Framed, setting' = setting, cut' = cut, NEW q \in Sent, Sends(<<Ping>> \o <<q>>),
         q.type = "pubrel", ~ stream.open
  PROVE  out' \in Seq(Sent') /\ Framed'
<1>1. Sent' = Sent /\ Ping \in Sent /\ Ping.type = "pingreq"
  BY LimitsStay, PacketKinds DEF Ping
<1>2. CASE Dark
  BY <1>2, NothingOut DEF Sends
<1>3. CASE ~ Dark
  <2>1. sock' = TRUE /\ out' = (out \o <<Ping>>) \o <<q>> /\ ~ Dark'
    <3>1. sock' = TRUE /\ out' = out \o (<<Ping>> \o <<q>>) /\ ~ Dark'
      BY <1>3 DEF Sends, Dark
    <3>2. out \in Seq(Sent)
      BY DEF Types
    <3> QED BY <1>1, <3>1, <3>2, Behind2
  <2>2. PICK s : s = out \o <<Ping>>
    OBVIOUS
  <2>3. out \in Seq(Sent) /\ Together(out) /\ ~ Ends(out)
    BY DEF Types, Framed
  <2>4. s \in Seq(Sent) /\ Together(s) /\ ~ Ends(s)
    <3>1. Ping.type \notin Headers
      BY <1>1 DEF Headers
    <3> QED BY <1>1, <2>2, <2>3, <3>1, Behind1, TogetherGrows
  <2>5. out' \in Seq(Sent) /\ Together(out') /\ ~ Ends(out')
    <3>1. q.type \notin Headers /\ q.type # "pingreq"
      BY DEF Headers
    <3> QED BY <2>1, <2>2, <2>4, <3>1, Behind1, TogetherGrows
  <2> QED BY <1>1, <2>1, <2>5 DEF Framed
<1> QED BY <1>2, <1>3

\* What one run of poll() leaves.
LEMMA PolledTypes ==
  ASSUME Types, Framed, setting' = setting, stream' = stream, NEW more, Polls(more),
         more = <<>> \/ \E q \in Sent : more = <<q>> /\ q.type = "pubrel" /\ ~ stream.open
  PROVE  /\ sock' \in BOOLEAN /\ connected' \in BOOLEAN /\ cut' \in BOOLEAN /\ polled' \in BOOLEAN
         /\ in' \in Seq(Received') /\ out' \in Seq(Sent') /\ Framed'
         /\ sincePing' \in Nat /\ sinceRx' \in Nat /\ silent' \in Nat
<1>1. Ping \in Sent /\ Ping.type = "pingreq" /\ Ping.type \notin Headers
  BY PacketKinds DEF Ping, Headers
<1>2. ASSUME NEW ps, Sends(ps) PROVE sock' \in BOOLEAN
  BY <1>2 DEF Sends
<1>3. /\ sock' \in BOOLEAN /\ connected' \in BOOLEAN /\ cut' \in BOOLEAN /\ polled' \in BOOLEAN
      /\ in' \in Seq(Received') /\ sincePing' \in Nat /\ sinceRx' \in Nat /\ silent' \in Nat
  <2>1. sock' \in BOOLEAN /\ sincePing' \in Nat
    <3>1. sock' = FALSE \/ Sends(<<Ping>> \o more) \/ Sends(more)
      BY DEF Polls
    <3>2. sincePing' = sincePing \/ sincePing' = 0
      BY DEF Polls
    <3>3. sock' \in BOOLEAN
      BY ONLY <1>2, <3>1
    <3>4. sincePing' \in Nat
      BY <3>2 DEF Types
    <3> QED BY <3>3, <3>4
  <2>2. sinceRx' \in Nat
    BY DEF Polls, Types, Age
  <2>3. cut' \in BOOLEAN /\ polled' \in BOOLEAN /\ silent' \in Nat /\ connected' \in BOOLEAN
    BY DEF Polls, Types
  <2>4. in' \in Seq(Received')
    BY DEF Polls
  <2> QED BY <2>1, <2>2, <2>3, <2>4
<1>4. ASSUME Sends(more) PROVE out' \in Seq(Sent') /\ Framed'
  <2>1. CASE more = <<>>
    <3>1. CASE Dark
      BY <1>4, <3>1, NothingOut DEF Sends
    <3>2. CASE ~ Dark
      <4>1. out' = out /\ ~ Dark'
        BY <1>4, <2>1, <3>2, ConcatEmptySeq DEF Sends, Types, Dark, Polls
      <4> QED BY <4>1, SameOut
    <3> QED BY <3>1, <3>2
  <2>2. ASSUME NEW q \in Sent, more = <<q>>, q.type = "pubrel", ~ stream.open
        PROVE  out' \in Seq(Sent') /\ Framed'
    <3>1. q.type \notin Headers /\ q.type # "pingreq" /\ cut' = cut
      BY <2>2 DEF Headers, Polls
    <3> QED BY <1>4, <2>2, <3>1, OneOut
  <2> QED BY <2>1, <2>2
<1>5. ASSUME Sends(<<Ping>> \o more) PROVE out' \in Seq(Sent') /\ Framed'
  <2>0. cut' = cut
    BY DEF Polls
  <2>1. CASE more = <<>>
    <3>1. Sends(<<Ping>>)
      <4>1. <<Ping>> \o <<>> = <<Ping>>
        BY <1>1, ConcatEmptySeq
      <4> QED BY <1>5, <2>1, <4>1
    <3> QED BY <1>1, <2>0, <3>1, OneOut
  <2>2. ASSUME NEW q \in Sent, more = <<q>>, q.type = "pubrel", ~ stream.open
        PROVE  out' \in Seq(Sent') /\ Framed'
    BY <1>5, <2>0, <2>2, TwoOut
  <2> QED BY <2>1, <2>2
<1>6. out' \in Seq(Sent') /\ Framed'
  BY <1>4, <1>5, NothingOut DEF Polls
<1> QED BY <1>3, <1>6

\* The packet sent last is a valid one.
LEMMA IdsAreValid ==
  ASSUME Types
  PROVE  NextId \in 1 .. MaxId /\ MaxId \in Nat /\ MaxCalls \in Nat
BY Limits DEF Types, NextId

\* What _returnCode becomes when what has come is read.
LEMMA CodeAfterIs ==
  ASSUME Types
  PROVE  /\ CodeAfter \in Codes
         /\ CodeAfter = returnCode
              \/ \E i \in DOMAIN in : SetsCode(in[i]) /\ CodeAfter = Code(in[i])
         /\ (\E i \in DOMAIN in : SetsCode(in[i])) => CodeAfter # NoCode
<1> DEFINE said == {i \in DOMAIN in : SetsCode(in[i])}
<1>1. ASSUME NEW i \in DOMAIN in, SetsCode(in[i])
      PROVE  Code(in[i]) \in Codes \ {NoCode}
  <2>1. in[i] \in Received
    BY <1>1 DEF Types
  <2> QED BY <1>1, <2>1 DEF Received, SetsCode, Code, Codes, NoCode
<1>2. CASE said = {}
  BY <1>2 DEF CodeAfter, Types
<1>3. CASE said # {}
  <2>1. said \subseteq 1 .. Len(in) /\ Len(in) \in Nat
    BY DEF Types
  <2>2. Max(said) \in said
    BY <1>3, <2>1, LastExists
  <2>3. CodeAfter = Code(in[Max(said)])
    BY <1>3 DEF CodeAfter
  <2> QED BY <1>1, <2>2, <2>3
<1> QED BY <1>2, <1>3

-----------------------------------------------------------------------------
(* The steps of the client and of the sketch keep the streams              *)
-----------------------------------------------------------------------------
\* The sketch polls.
LEMMA SPoll ==
  ASSUME SInv, setting' = setting, Poll
  PROVE  SInv'
<1>1. Types /\ Calling /\ Framed /\ (Dark => out = <<>>)
  BY DEF SInv, Framed
<1>2. /\ call = NoCall /\ Polls(<<>>) /\ returnCode' = CodeAfter
      /\ UNCHANGED <<waited, txPacketId, call, stream, taken, calls>>
  BY <1>1, PollStepIs DEF Poll
<1>3. /\ sock' \in BOOLEAN /\ connected' \in BOOLEAN /\ cut' \in BOOLEAN /\ polled' \in BOOLEAN
      /\ in' \in Seq(Received') /\ out' \in Seq(Sent') /\ Framed'
      /\ sincePing' \in Nat /\ sinceRx' \in Nat /\ silent' \in Nat
  BY <1>1, <1>2, PolledTypes
<1>4. returnCode' \in Codes
  BY <1>1, <1>2, CodeAfterIs
<1>5. Types'
  BY <1>1, <1>2, <1>3, <1>4, LimitsStay DEF Types
<1>6. Calling'
  BY <1>1, <1>2 DEF Calling, Busy, NoCall
<1> QED BY <1>3, <1>5, <1>6 DEF SInv

\* A turn of a loop that waits.
LEMMA SWaitOn ==
  ASSUME SInv, setting' = setting, WaitOn
  PROVE  SInv'
<1>1. Types /\ Calling /\ Framed /\ (Dark => out = <<>>)
  BY DEF SInv, Framed
<1>2. /\ Polls(<<>>) /\ returnCode' = NoCode
      /\ UNCHANGED <<waited, txPacketId, call, stream, taken, calls>>
  BY <1>1, PollStepIs DEF WaitOn
<1>3. /\ sock' \in BOOLEAN /\ connected' \in BOOLEAN /\ cut' \in BOOLEAN /\ polled' \in BOOLEAN
      /\ in' \in Seq(Received') /\ out' \in Seq(Sent') /\ Framed'
      /\ sincePing' \in Nat /\ sinceRx' \in Nat /\ silent' \in Nat
  BY <1>1, <1>2, PolledTypes
<1>4. returnCode' \in Codes
  BY <1>2 DEF Codes, NoCode
<1>5. Types'
  BY <1>1, <1>2, <1>3, <1>4, LimitsStay DEF Types
<1>6. Calling'
  BY <1>1, <1>2 DEF Calling, Busy, NoCall
<1> QED BY <1>3, <1>5, <1>6 DEF SInv

\* PUBREL, the second packet of a message of quality 2.
Pubrel == Packet("pubrel", txPacketId, call.n)
ToPubcomp == [call EXCEPT !.for = "pubcomp"]

\* PUBREL has the packet id of the message and the number of its call.
LEMMA PubrelIsSent ==
  ASSUME Types, Calling, call.for = "pubrec"
  PROVE  /\ Pubrel \in Sent /\ Pubrel.type = "pubrel" /\ Pubrel.id = txPacketId /\ txPacketId > 0
         /\ Pubrel.n = calls /\ ~ stream.open
         /\ ToPubcomp.for = "pubcomp" /\ ToPubcomp.n = call.n
         /\ ToPubcomp \in [for : Waits \cup {"nothing"}, n : 0 .. MaxCalls, qos : 0 .. 2]
<1>1. txPacketId \in 1 .. MaxId /\ call.n \in 1 .. MaxCalls /\ call.n = calls /\ ~ stream.open
  <2>1. Busy
    BY DEF Busy
  <2>2. txPacketId > 0 /\ call.n = calls /\ calls > 0 /\ ~ stream.open
    BY <2>1 DEF Calling
  <2>3. MaxId \in Nat /\ MaxCalls \in Nat
    BY IdsAreValid
  <2> QED BY <2>2, <2>3 DEF Types
<1>2. "pubrel" \in Requests
  BY DEF Requests
<1>3. /\ Pubrel \in Sent /\ Pubrel.type = "pubrel" /\ Pubrel.id = txPacketId /\ Pubrel.n = call.n
  BY <1>1, <1>2, PacketKinds DEF Pubrel
<1>4. call \in [for : Waits \cup {"nothing"}, n : 0 .. MaxCalls, qos : 0 .. 2]
  BY DEF Types
<1>5. /\ ToPubcomp.for = "pubcomp" /\ ToPubcomp.n = call.n
      /\ ToPubcomp \in [for : Waits \cup {"nothing"}, n : 0 .. MaxCalls, qos : 0 .. 2]
  BY <1>4 DEF ToPubcomp, Waits
<1>6. txPacketId > 0
  BY <1>1, IdsAreValid
<1> QED BY <1>1, <1>3, <1>5, <1>6

\* A turn of a loop that finds its answer.
AnsweredConnect ==
  /\ call.for = "connack" /\ sinceRx' = 0 /\ polled' = TRUE
  /\ IF CodeAfter = 0
     THEN connected' = TRUE /\ in' = <<>> /\ UNCHANGED <<sock, out, cut>>
     ELSE Closed
  /\ call' = NoCall /\ result' = [call |-> call, ok |-> CodeAfter = 0] /\ waited' = 0
  /\ returnCode' = CodeAfter /\ UNCHANGED <<sincePing, silent>>
AnsweredPubrec ==
  /\ call.for = "pubrec" /\ CodeAfter = 0 /\ Polls(<<Pubrel>>) /\ returnCode' = NoCode
  /\ call' = ToPubcomp /\ waited' = 0 /\ result' = result
AnsweredLast ==
  /\ call.for # "connack" /\ Polls(<<>>) /\ returnCode' = CodeAfter
  /\ call' = NoCall /\ waited' = 0
  /\ result' = [call |-> call, ok |-> CodeAfter = 0 \/ (call.for = "suback" /\ CodeAfter \in 0 .. 2)]

\* A loop that finds its answer is done, or goes on to PUBCOMP.
LEMMA AnsweredIs ==
  ASSUME Types, Dark => out = <<>>, Answered
  PROVE  /\ call # NoCall /\ CodeAfter # NoCode /\ waited < ConnectionTimeout
         /\ UNCHANGED <<txPacketId, stream, taken, calls, faults>>
         /\ AnsweredConnect \/ AnsweredPubrec \/ AnsweredLast
<1>1. /\ call # NoCall /\ CodeAfter # NoCode /\ waited < ConnectionTimeout
      /\ UNCHANGED <<txPacketId, stream, taken, calls, faults>>
  BY DEF Answered, InTime
<1>2. CASE call.for = "connack"
  <2>1. AnsweredConnect
    BY <1>2 DEF Answered, AnsweredConnect, Return
  <2> QED BY <1>1, <2>1
<1>3. CASE call.for = "pubrec" /\ CodeAfter = 0
  <2>1. /\ PollStep(<<Pubrel>>) /\ returnCode' = NoCode
        /\ call' = ToPubcomp /\ waited' = 0 /\ result' = result
    BY <1>3 DEF Answered, Pubrel, ToPubcomp
  <2>2. AnsweredPubrec
    BY <1>3, <2>1, PollStepIs DEF AnsweredPubrec
  <2> QED BY <1>1, <2>2
<1>4. CASE call.for # "connack" /\ ~ (call.for = "pubrec" /\ CodeAfter = 0)
  <2>1. /\ PollStep(<<>>) /\ returnCode' = CodeAfter
        /\ Return(call, CodeAfter = 0 \/ (call.for = "suback" /\ CodeAfter \in 0 .. 2))
    BY <1>4 DEF Answered
  <2>2. AnsweredLast
    BY <1>4, <2>1, PollStepIs DEF AnsweredLast, Return
  <2> QED BY <1>1, <2>2
<1> QED BY <1>2, <1>3, <1>4

\* A loop that finds its answer keeps the types and the streams.
LEMMA SAnswered ==
  ASSUME SInv, setting' = setting, Answered
  PROVE  SInv'
<1>1. Types /\ Calling /\ Framed /\ (Dark => out = <<>>)
  BY DEF SInv, Framed
<1>2. /\ call # NoCall /\ UNCHANGED <<txPacketId, stream, taken, calls>>
      /\ AnsweredConnect \/ AnsweredPubrec \/ AnsweredLast
  BY <1>1, AnsweredIs
<1>3. CodeAfter \in Codes /\ ~ stream.open /\ call.for # "nothing"
  BY <1>1, <1>2, CodeAfterIs DEF Calling
<1>0. NoCall \in [for : Waits \cup {"nothing"}, n : 0 .. MaxCalls, qos : 0 .. 2]
      /\ NoCall.for = "nothing" /\ NoCode \in Codes /\ 0 \in 0 .. ConnectionTimeout
  BY <1>1, IdsAreValid, SessionAssumption DEF NoCall, NoCode, Codes
<1>4. CASE AnsweredConnect
  <2>1. CASE CodeAfter = 0
    <3>1. /\ connected' = TRUE /\ in' = <<>> /\ UNCHANGED <<sock, out, cut>>
          /\ call' = NoCall /\ waited' = 0 /\ returnCode' = CodeAfter /\ sinceRx' = 0
          /\ polled' = TRUE /\ UNCHANGED <<sincePing, silent>>
      BY <1>4, <2>1 DEF AnsweredConnect
    <3>2. out' \in Seq(Sent') /\ Framed'
      BY <1>1, <1>2, <3>1, SameOut DEF Dark
    <3>3. Types'
      <4>1. in' \in Seq(Received')
        BY <3>1
      <4> QED BY <1>0, <1>1, <1>2, <1>3, <3>1, <3>2, <4>1, LimitsStay DEF Types
    <3>4. Calling'
      BY <1>0, <1>1, <1>2, <1>3, <3>1 DEF Calling, Busy
    <3> QED BY <3>2, <3>3, <3>4 DEF SInv
  <2>2. CASE CodeAfter # 0
    <3>1. /\ connected' = FALSE /\ sock' = FALSE /\ in' = <<>> /\ out' = <<>> /\ cut' = cut
          /\ call' = NoCall /\ waited' = 0 /\ returnCode' = CodeAfter /\ sinceRx' = 0
          /\ polled' = TRUE /\ UNCHANGED <<sincePing, silent>>
      BY <1>4, <2>2 DEF AnsweredConnect, Closed
    <3>2. out' \in Seq(Sent') /\ Framed'
      BY <3>1, NothingOut
    <3>3. Types'
      <4>1. in' \in Seq(Received')
        BY <3>1
      <4> QED BY <1>0, <1>1, <1>2, <1>3, <3>1, <3>2, <4>1, LimitsStay DEF Types
    <3>4. Calling'
      BY <1>0, <1>1, <1>2, <1>3, <3>1 DEF Calling, Busy
    <3> QED BY <3>2, <3>3, <3>4 DEF SInv
  <2> QED BY <2>1, <2>2
<1>5. CASE AnsweredPubrec
  <2>1. /\ call.for = "pubrec" /\ Polls(<<Pubrel>>) /\ returnCode' = NoCode
        /\ call' = ToPubcomp /\ waited' = 0
    BY <1>5 DEF AnsweredPubrec
  <2>2. /\ Pubrel \in Sent /\ Pubrel.type = "pubrel" /\ ToPubcomp.for = "pubcomp" /\ txPacketId > 0
        /\ ToPubcomp.n = call.n
        /\ ToPubcomp \in [for : Waits \cup {"nothing"}, n : 0 .. MaxCalls, qos : 0 .. 2]
    BY <1>1, <2>1, PubrelIsSent
  <2>3. /\ sock' \in BOOLEAN /\ connected' \in BOOLEAN /\ cut' \in BOOLEAN /\ polled' \in BOOLEAN
        /\ in' \in Seq(Received') /\ out' \in Seq(Sent') /\ Framed'
        /\ sincePing' \in Nat /\ sinceRx' \in Nat /\ silent' \in Nat
    BY <1>1, <1>2, <1>3, <2>1, <2>2, PolledTypes
  <2>4. Types'
    BY <1>0, <1>1, <1>2, <2>1, <2>2, <2>3, LimitsStay DEF Types
  <2>5. Calling'
    BY <1>1, <1>2, <1>3, <2>1, <2>2 DEF Calling, Busy
  <2> QED BY <2>3, <2>4, <2>5 DEF SInv
<1>6. CASE AnsweredLast
  <2>1. Polls(<<>>) /\ returnCode' = CodeAfter /\ call' = NoCall /\ waited' = 0
    BY <1>6 DEF AnsweredLast
  <2>3. /\ sock' \in BOOLEAN /\ connected' \in BOOLEAN /\ cut' \in BOOLEAN /\ polled' \in BOOLEAN
        /\ in' \in Seq(Received') /\ out' \in Seq(Sent') /\ Framed'
        /\ sincePing' \in Nat /\ sinceRx' \in Nat /\ silent' \in Nat
    BY <1>1, <1>2, <2>1, PolledTypes
  <2>4. Types'
    BY <1>0, <1>1, <1>2, <1>3, <2>1, <2>3, LimitsStay DEF Types
  <2>5. Calling'
    BY <1>0, <1>1, <1>2, <1>3, <2>1 DEF Calling, Busy
  <2> QED BY <2>3, <2>4, <2>5 DEF SInv
<1> QED BY <1>2, <1>4, <1>5, <1>6

\* A loop that gives up.
GivesUpPubrec ==
  /\ call.for = "pubrec" /\ Sends(<<Pubrel>>) /\ call' = ToPubcomp /\ returnCode' = NoCode
  /\ waited' = 0 /\ UNCHANGED <<in, cut, connected, result>>
GivesUpLast ==
  /\ call.for \in {"puback", "pubcomp"} /\ call' = NoCall /\ waited' = 0
  /\ result' = [call |-> call, ok |-> FALSE]
  /\ UNCHANGED <<sock, in, out, cut, connected, returnCode>>
GivesUpAll ==
  /\ connected' = FALSE /\ sock' = FALSE /\ in' = <<>> /\ out' = <<>> /\ cut' = cut
  /\ call' = NoCall /\ waited' = 0 /\ result' = [call |-> call, ok |-> FALSE]
  /\ returnCode' = returnCode

\* A loop that gives up goes on to PUBCOMP, returns, or closes.
LEMMA GivesUpIs ==
  ASSUME Types, Dark => out = <<>>, GivesUp
  PROVE  /\ call # NoCall /\ (waited >= ConnectionTimeout \/ (~ sock /\ in = <<>>))
         /\ UNCHANGED <<txPacketId, stream, sincePing, sinceRx, polled, silent, taken, calls, faults>>
         /\ GivesUpPubrec \/ GivesUpLast \/ GivesUpAll
<1>0. waited \in Nat /\ ConnectionTimeout \in Nat
  BY SessionAssumption DEF Types
<1>1. /\ call # NoCall /\ (waited >= ConnectionTimeout \/ (~ sock /\ in = <<>>))
      /\ UNCHANGED <<txPacketId, stream, sincePing, sinceRx, polled, silent, taken, calls, faults>>
  BY <1>0 DEF GivesUp, InTime, clientConnected
<1>2. CASE call.for = "pubrec"
  <2>1. /\ Send(<<Pubrel>>) /\ call' = ToPubcomp /\ returnCode' = NoCode
        /\ waited' = 0 /\ UNCHANGED <<in, cut, connected, result>>
    BY <1>2 DEF GivesUp, Pubrel, ToPubcomp
  <2>2. GivesUpPubrec
    BY <1>2, <2>1, SendIs DEF GivesUpPubrec
  <2> QED BY <1>1, <2>2
<1>3. CASE call.for \in {"puback", "pubcomp"}
  <2>1. GivesUpLast
    BY <1>3 DEF GivesUp, GivesUpLast, Return, link
  <2> QED BY <1>1, <2>1
<1>4. CASE call.for \notin {"pubrec", "puback", "pubcomp"}
  <2>1. GivesUpAll
    BY <1>4 DEF GivesUp, GivesUpAll, Return, Closed
  <2> QED BY <1>1, <2>1
<1> QED BY <1>2, <1>3, <1>4

\* A loop that gives up keeps the types and the streams.
LEMMA SGivesUp ==
  ASSUME SInv, setting' = setting, GivesUp
  PROVE  SInv'
<1>1. Types /\ Calling /\ Framed /\ (Dark => out = <<>>)
  BY DEF SInv, Framed
<1>2. /\ call # NoCall
      /\ UNCHANGED <<txPacketId, stream, sincePing, sinceRx, polled, silent, taken, calls>>
      /\ GivesUpPubrec \/ GivesUpLast \/ GivesUpAll
  BY <1>1, GivesUpIs
<1>3. ~ stream.open /\ call.for # "nothing"
  BY <1>1, <1>2 DEF Calling
<1>0. NoCall \in [for : Waits \cup {"nothing"}, n : 0 .. MaxCalls, qos : 0 .. 2]
      /\ NoCall.for = "nothing" /\ NoCode \in Codes /\ 0 \in 0 .. ConnectionTimeout
  BY <1>1, IdsAreValid, SessionAssumption DEF NoCall, NoCode, Codes
<1>4. CASE GivesUpPubrec
  <2>1. /\ call.for = "pubrec" /\ Sends(<<Pubrel>>) /\ call' = ToPubcomp /\ returnCode' = NoCode
        /\ waited' = 0 /\ UNCHANGED <<in, cut, connected>>
    BY <1>4 DEF GivesUpPubrec
  <2>2. /\ Pubrel \in Sent /\ Pubrel.type = "pubrel" /\ ToPubcomp.for = "pubcomp" /\ txPacketId > 0
        /\ ToPubcomp.n = call.n
        /\ ToPubcomp \in [for : Waits \cup {"nothing"}, n : 0 .. MaxCalls, qos : 0 .. 2]
    BY <1>1, <2>1, PubrelIsSent
  <2>3. out' \in Seq(Sent') /\ Framed'
    <3>1. Pubrel.type \notin Headers /\ Pubrel.type # "pingreq"
      BY <2>2 DEF Headers
    <3> QED BY <1>1, <1>3, <2>1, <2>2, <3>1, OneOut
  <2>4. sock' \in BOOLEAN
    BY <2>1 DEF Sends
  <2>5. Types'
    BY <1>0, <1>1, <1>2, <2>1, <2>2, <2>3, <2>4, LimitsStay DEF Types
  <2>6. Calling'
    BY <1>1, <1>2, <1>3, <2>1, <2>2 DEF Calling, Busy
  <2> QED BY <2>3, <2>5, <2>6 DEF SInv
<1>5. CASE GivesUpLast
  <2>1. call' = NoCall /\ waited' = 0 /\ UNCHANGED <<sock, in, out, cut, connected, returnCode>>
    BY <1>5 DEF GivesUpLast
  <2>2. out' \in Seq(Sent') /\ Framed'
    BY <1>1, <1>2, <2>1, SameOut DEF Dark
  <2>3. Types'
    BY <1>0, <1>1, <1>2, <2>1, <2>2, LimitsStay DEF Types
  <2>4. Calling'
    BY <1>0, <1>1, <1>2, <1>3, <2>1 DEF Calling, Busy
  <2> QED BY <2>2, <2>3, <2>4 DEF SInv
<1>6. CASE GivesUpAll
  <2>1. /\ connected' = FALSE /\ sock' = FALSE /\ in' = <<>> /\ out' = <<>> /\ cut' = cut
        /\ call' = NoCall /\ waited' = 0 /\ returnCode' = returnCode
    BY <1>6 DEF GivesUpAll
  <2>2. out' \in Seq(Sent') /\ Framed' /\ in' \in Seq(Received')
    BY <2>1, NothingOut
  <2>3. Types'
    BY <1>0, <1>1, <1>2, <2>1, <2>2, LimitsStay DEF Types
  <2>4. Calling'
    BY <1>0, <1>1, <1>2, <1>3, <2>1 DEF Calling, Busy
  <2> QED BY <2>2, <2>3, <2>4 DEF SInv
<1> QED BY <1>2, <1>4, <1>5, <1>6

\* A call that begins with a packet of its own, numbered unless it is a message of
\* quality 0.
NewCall(c, id, p) ==
  /\ call = NoCall /\ ~ stream.open /\ calls < MaxCalls
  /\ SendsAndWaits(c, id, p)
  /\ c \in [for : {"nothing", "suback", "unsuback", "puback", "pubrec"}, n : {calls + 1}, qos : 0 .. 2]
  /\ p.id = id /\ p.n = calls + 1
  /\ \/ id = 0 /\ c.for = "nothing" /\ p.type \in {"publish", "header"}
     \/ id = NextId /\ p.type \in Requests \ {"pubrel"}
  /\ p \in Sent /\ stream' \in [open : BOOLEAN, qos : 0 .. 2]
  /\ \/ stream' = stream /\ p.type \notin Headers /\ (c.for = "nothing" <=> id = 0)
     \/ c.for = "nothing" /\ stream'.open /\ p.type \in Headers /\ (stream'.qos = 0 <=> id = 0)
  /\ c.for = "pubrec" \/ (stream'.open /\ stream'.qos = 2) => p.type \in {"publish2", "header2"}

\* Subscriptions, messages and headers are one step: a packet with its call.
LEMMA NewCallIs ==
  ASSUME Types, Dark => out = <<>>,
         Subscribe \/ Unsubscribe \/ \E qos \in 0 .. 2 : Publish(qos) \/ BeginStream(qos)
  PROVE  \E c, id, p : NewCall(c, id, p)
<1>1. calls < MaxCalls => calls + 1 \in 1 .. MaxCalls /\ NextId \in 1 .. MaxId /\ NextId # 0
  BY IdsAreValid DEF Types
<1>2. CASE Subscribe
  <2> DEFINE c == [for |-> "suback", n |-> calls + 1, qos |-> 0]
             p == Packet("subscribe", NextId, calls + 1)
  <2>1. call = NoCall /\ ~ stream.open /\ calls < MaxCalls /\ stream' = stream
        /\ SendsAndWaits(c, NextId, p)
    BY <1>2, SendAndWaitIs DEF Subscribe, Free
  <2>2. p.id = NextId /\ p.n = calls + 1 /\ p.type = "subscribe" /\ p \in Sent
    BY <1>1, <2>1, PacketKinds DEF Requests
  <2>3. NewCall(c, NextId, p)
    BY <1>1, <2>1, <2>2 DEF NewCall, Requests, Headers, Types
  <2> QED BY <2>3
<1>3. CASE Unsubscribe
  <2> DEFINE c == [for |-> "unsuback", n |-> calls + 1, qos |-> 0]
             p == Packet("unsubscribe", NextId, calls + 1)
  <2>1. call = NoCall /\ ~ stream.open /\ calls < MaxCalls /\ stream' = stream
        /\ SendsAndWaits(c, NextId, p)
    BY <1>3, SendAndWaitIs DEF Unsubscribe, Free
  <2>2. p.id = NextId /\ p.n = calls + 1 /\ p.type = "unsubscribe" /\ p \in Sent
    BY <1>1, <2>1, PacketKinds DEF Requests
  <2>3. NewCall(c, NextId, p)
    BY <1>1, <2>1, <2>2 DEF NewCall, Requests, Headers, Types
  <2> QED BY <2>3
<1>4. ASSUME NEW qos \in 0 .. 2, Publish(qos) PROVE \E c, id, p : NewCall(c, id, p)
  <2> DEFINE c == [for |-> FirstWait(qos), n |-> calls + 1, qos |-> qos]
             p == Packet(Whole(qos), MessageId(qos), calls + 1)
  <2>1. call = NoCall /\ ~ stream.open /\ calls < MaxCalls /\ stream' = stream
        /\ SendsAndWaits(c, MessageId(qos), p)
    BY <1>4, SendAndWaitIs DEF Publish, Free
  <2>2. \/ qos = 0 /\ MessageId(qos) = 0 /\ Whole(qos) = "publish" /\ FirstWait(qos) = "nothing"
        \/ qos = 1 /\ MessageId(qos) = NextId /\ Whole(qos) = "publish1" /\ FirstWait(qos) = "puback"
        \/ qos = 2 /\ MessageId(qos) = NextId /\ Whole(qos) = "publish2" /\ FirstWait(qos) = "pubrec"
    BY DEF MessageId, Whole, FirstWait
  <2>3. p.id = MessageId(qos) /\ p.n = calls + 1 /\ p.type = Whole(qos) /\ p \in Sent
    BY <1>1, <2>1, <2>2, PacketKinds DEF Requests
  <2>4. NewCall(c, MessageId(qos), p)
    BY <1>1, <2>1, <2>2, <2>3 DEF NewCall, Requests, Headers, Types
  <2> QED BY <2>4
<1>5. ASSUME NEW qos \in 0 .. 2, BeginStream(qos) PROVE \E c, id, p : NewCall(c, id, p)
  <2> DEFINE c == [for |-> "nothing", n |-> calls + 1, qos |-> 0]
             p == Packet(Header(qos), MessageId(qos), calls + 1)
  <2>1. call = NoCall /\ ~ stream.open /\ calls < MaxCalls /\ stream' = [open |-> TRUE, qos |-> qos]
        /\ SendsAndWaits(c, MessageId(qos), p)
    BY <1>5, SendAndWaitIs DEF BeginStream, Free
  <2>2. \/ qos = 0 /\ MessageId(qos) = 0 /\ Header(qos) = "header"
        \/ qos = 1 /\ MessageId(qos) = NextId /\ Header(qos) = "header1"
        \/ qos = 2 /\ MessageId(qos) = NextId /\ Header(qos) = "header2"
    BY DEF MessageId, Header
  <2>3. p.id = MessageId(qos) /\ p.n = calls + 1 /\ p.type = Header(qos) /\ p \in Sent
    BY <1>1, <2>1, <2>2, PacketKinds DEF Requests
  <2>4. stream'.open /\ stream'.qos = qos /\ stream' \in [open : BOOLEAN, qos : 0 .. 2]
    BY <2>1
  <2>5. NewCall(c, MessageId(qos), p)
    BY <1>1, <2>1, <2>2, <2>3, <2>4 DEF NewCall, Requests, Headers
  <2> QED BY <2>5
<1> QED BY <1>2, <1>3, <1>4, <1>5

\* A call that sends a packet keeps the types and the streams: none is begun within one.
LEMMA SNewCall ==
  ASSUME SInv, setting' = setting, NEW c, NEW id, NEW p, NewCall(c, id, p)
  PROVE  SInv'
<1>1. Types /\ Calling /\ Framed
  BY DEF SInv
<1>2. /\ call = NoCall /\ ~ stream.open /\ calls < MaxCalls
      /\ c \in [for : {"nothing", "suback", "unsuback", "puback", "pubrec"}, n : {calls + 1}, qos : 0 .. 2]
      /\ p.id = id /\ p \in Sent /\ stream' \in [open : BOOLEAN, qos : 0 .. 2]
      /\ p.type \in Requests \cup {"publish", "header"}
      /\ p.type \in Headers => stream'.open
      /\ stream'.open => c.for = "nothing"
      /\ id = 0 \/ id = NextId
      /\ c.for # "nothing" \/ (stream'.open /\ stream'.qos > 0) => id = NextId
  BY <1>1 DEF NewCall, Types
<1>3. /\ calls' = calls + 1 /\ txPacketId' = (IF id = 0 THEN txPacketId ELSE id) /\ waited' = 0
      /\ UNCHANGED <<sincePing, sinceRx, polled, silent, taken, cut>>
  BY <1>2 DEF NewCall, SendsAndWaits
<1>4. NextId \in 1 .. MaxId /\ MaxId \in Nat /\ MaxCalls \in Nat
  BY <1>1, IdsAreValid
<1>5. txPacketId' \in 0 .. MaxId /\ (id # 0 => txPacketId' > 0) /\ calls' \in 1 .. MaxCalls
  BY <1>1, <1>2, <1>3, <1>4 DEF Types
<1>6. c \in [for : Waits \cup {"nothing"}, n : 0 .. MaxCalls, qos : 0 .. 2] /\ c.n = calls'
  BY <1>1, <1>2, <1>3, <1>5 DEF Waits, Types
<1>7. /\ NoCall \in [for : Waits \cup {"nothing"}, n : 0 .. MaxCalls, qos : 0 .. 2]
      /\ NoCall.for = "nothing" /\ NoCode \in Codes /\ 0 \in 0 .. ConnectionTimeout
  BY <1>4, SessionAssumption DEF NoCall, NoCode, Codes
<1>8. CASE /\ Sends(<<p>>) /\ sock' = TRUE /\ in' = in /\ connected' = connected
           /\ IF c.for = "nothing"
              THEN call' = NoCall /\ returnCode' = returnCode
              ELSE call' = c /\ returnCode' = NoCode
  <2>1. out' \in Seq(Sent') /\ Framed'
    <3>1. p.type # "pingreq" /\ p.type # "payload"
      BY <1>2 DEF Requests
    <3> QED BY <1>1, <1>2, <1>3, <1>8, <3>1, OneOut
  <2>2. Types'
    BY <1>1, <1>2, <1>3, <1>5, <1>6, <1>7, <1>8, <2>1, LimitsStay DEF Types
  <2>3. Calling'
    BY <1>1, <1>2, <1>3, <1>4, <1>5, <1>6, <1>7, <1>8 DEF Calling, Busy
  <2> QED BY <2>1, <2>2, <2>3 DEF SInv
<1>9. CASE /\ sock' = FALSE /\ in' = <<>> /\ out' = <<>> /\ connected' = FALSE
           /\ call' = NoCall /\ returnCode' = returnCode
  <2>1. out' \in Seq(Sent') /\ Framed' /\ in' \in Seq(Received')
    BY <1>9, NothingOut
  <2>2. Types'
    <3>1. /\ sock' \in BOOLEAN /\ connected' \in BOOLEAN /\ cut' \in BOOLEAN /\ polled' \in BOOLEAN
          /\ returnCode' \in Codes /\ sincePing' \in Nat /\ sinceRx' \in Nat /\ silent' \in Nat
          /\ waited' \in 0 .. ConnectionTimeout /\ stream' \in [open : BOOLEAN, qos : 0 .. 2]
          /\ setting' \in Settings
      BY <1>1, <1>2, <1>3, <1>5, <1>7, <1>9, <2>1, LimitsStay DEF Types
    <3>2. /\ calls' \in 0 .. MaxCalls /\ txPacketId' \in 0 .. MaxId
          /\ taken' \subseteq 1 .. MaxCalls
          /\ call' \in [for : Waits \cup {"nothing"}, n : 0 .. MaxCalls, qos : 0 .. 2]
      BY <1>1, <1>2, <1>3, <1>5, <1>7, <1>9, <2>1, LimitsStay DEF Types
    <3> QED BY <1>4, <2>1, <1>2, <3>1, <3>2, LimitsStay DEF Types
  <2>3. Calling'
    BY <1>1, <1>2, <1>3, <1>4, <1>5, <1>7, <1>9 DEF Calling, Busy
  <2> QED BY <2>1, <2>2, <2>3 DEF SInv
<1> QED BY <1>8, <1>9 DEF NewCall, SendsAndWaits

\* connect(): without a socket, or with CONNECT on its way.
ConnectCall == [for |-> "connack", n |-> calls + 1, qos |-> 0]
ConnectFails ==
  /\ sock' = FALSE /\ out' = <<>> /\ call' = NoCall /\ waited' = 0
  /\ result' = [call |-> ConnectCall, ok |-> FALSE] /\ UNCHANGED <<returnCode, sinceRx, cut>>
ConnectGoes ==
  /\ sock' = TRUE /\ out' = <<Packet("connect", 0, calls + 1)>> /\ cut' = FALSE
  /\ sinceRx' = 0 /\ waited' = 0 /\ returnCode' = NoCode /\ call' = ConnectCall
  /\ result' = result

\* connect() fails at once or sends CONNECT.
LEMMA ConnectIs ==
  ASSUME Connect
  PROVE  /\ call = NoCall /\ ~ stream.open /\ calls < MaxCalls
         /\ calls' = calls + 1 /\ txPacketId' = 0 /\ connected' = FALSE /\ in' = <<>> /\ silent' = 0
         /\ UNCHANGED <<sincePing, polled, stream, taken, faults>>
         /\ ConnectFails \/ ConnectGoes
BY DEF Connect, Free, ConnectFails, ConnectGoes, ConnectCall, Return

\* connect() keeps the types and the streams.
LEMMA SConnect ==
  ASSUME SInv, setting' = setting, Connect
  PROVE  SInv'
<1>1. Types /\ Calling /\ Framed
  BY DEF SInv
<1>2. /\ call = NoCall /\ ~ stream.open /\ calls < MaxCalls
      /\ calls' = calls + 1 /\ txPacketId' = 0 /\ connected' = FALSE /\ in' = <<>> /\ silent' = 0
      /\ UNCHANGED <<sincePing, polled, stream, taken>>
      /\ ConnectFails \/ ConnectGoes
  BY ConnectIs
<1>3. /\ NoCall \in [for : Waits \cup {"nothing"}, n : 0 .. MaxCalls, qos : 0 .. 2]
      /\ NoCall.for = "nothing" /\ NoCode \in Codes /\ 0 \in 0 .. ConnectionTimeout
  BY <1>1, IdsAreValid, SessionAssumption DEF NoCall, NoCode, Codes
<1>4. calls' \in 1 .. MaxCalls /\ MaxId \in Nat /\ in' \in Seq(Received')
  BY <1>1, <1>2, IdsAreValid DEF Types
<1>5. CASE ConnectFails
  <2>1. /\ sock' = FALSE /\ out' = <<>> /\ call' = NoCall /\ waited' = 0
        /\ UNCHANGED <<returnCode, sinceRx, cut>>
    BY <1>5 DEF ConnectFails
  <2>2. out' \in Seq(Sent') /\ Framed'
    BY <2>1, NothingOut
  <2>3. Types'
    <3>1. /\ sock' \in BOOLEAN /\ connected' \in BOOLEAN /\ cut' \in BOOLEAN /\ polled' \in BOOLEAN
          /\ returnCode' \in Codes /\ sincePing' \in Nat /\ sinceRx' \in Nat /\ silent' \in Nat
          /\ waited' \in 0 .. ConnectionTimeout /\ stream' \in [open : BOOLEAN, qos : 0 .. 2]
          /\ setting' \in Settings
      BY <1>1, <1>2, <1>3, <1>4, <2>1, <2>2, LimitsStay DEF Types
    <3>2. /\ calls' \in 0 .. MaxCalls /\ txPacketId' \in 0 .. MaxId
          /\ taken' \subseteq 1 .. MaxCalls
          /\ call' \in [for : Waits \cup {"nothing"}, n : 0 .. MaxCalls, qos : 0 .. 2]
      BY <1>1, <1>2, <1>3, <1>4, <2>1, <2>2, LimitsStay DEF Types
    <3> QED BY <1>4, <2>1, <2>2, <3>1, <3>2, LimitsStay DEF Types
  <2>4. Calling'
    BY <1>1, <1>2, <1>3, <2>1 DEF Calling, Busy
  <2> QED BY <2>2, <2>3, <2>4 DEF SInv
<1>6. CASE ConnectGoes
  <2> DEFINE p == Packet("connect", 0, calls + 1)
  <2>1. /\ sock' = TRUE /\ out' = <<p>> /\ cut' = FALSE
        /\ sinceRx' = 0 /\ waited' = 0 /\ returnCode' = NoCode /\ call' = ConnectCall
    BY <1>6 DEF ConnectGoes
  <2>2. p \in Sent /\ p.type = "connect"
    BY <1>2, <1>4, PacketKinds
  <2>3. out' \in Seq(Sent') /\ Framed'
    <3>1. Len(out') = 1 /\ out'[1].type = "connect" /\ DOMAIN out' = 1 .. 1
      BY <2>1, <2>2
    <3>2. ~ Ends(out')
      BY <3>1 DEF Ends, Headers
    <3>3. Together(out')
      BY <3>1 DEF Together, Headers
    <3>4. ~ Dark'
      BY <2>1 DEF Dark
    <3>5. out' \in Seq(Sent')
      BY <2>1, <2>2, LimitsStay
    <3> QED BY <3>2, <3>3, <3>4, <3>5 DEF Framed
  <2>4. /\ ConnectCall \in [for : Waits \cup {"nothing"}, n : 0 .. MaxCalls, qos : 0 .. 2]
        /\ ConnectCall.for = "connack" /\ ConnectCall.n = calls'
    BY <1>2, <1>4, IdsAreValid DEF ConnectCall, Waits
  <2>5. Types'
    <3>1. /\ sock' \in BOOLEAN /\ connected' \in BOOLEAN /\ cut' \in BOOLEAN /\ polled' \in BOOLEAN
          /\ returnCode' \in Codes /\ sincePing' \in Nat /\ sinceRx' \in Nat /\ silent' \in Nat
          /\ waited' \in 0 .. ConnectionTimeout /\ stream' \in [open : BOOLEAN, qos : 0 .. 2]
          /\ setting' \in Settings
      BY <1>1, <1>2, <1>3, <1>4, <2>1, <2>3, <2>4, LimitsStay DEF Types
    <3>2. /\ calls' \in 0 .. MaxCalls /\ txPacketId' \in 0 .. MaxId
          /\ taken' \subseteq 1 .. MaxCalls
          /\ call' \in [for : Waits \cup {"nothing"}, n : 0 .. MaxCalls, qos : 0 .. 2]
      BY <1>1, <1>2, <1>3, <1>4, <2>1, <2>3, <2>4, LimitsStay DEF Types
    <3> QED BY <1>4, <2>1, <2>3, <3>1, <3>2, LimitsStay DEF Types
  <2>6. Calling'
    BY <1>1, <1>2, <1>3, <1>4, <2>1, <2>4 DEF Calling, Busy
  <2> QED BY <2>3, <2>5, <2>6 DEF SInv
<1> QED BY <1>2, <1>5, <1>6

\* The end of a streamed message.
StreamCall == [for |-> FirstWait(stream.qos), n |-> calls, qos |-> stream.qos]
Payload == Packet("payload", 0, calls)

\* endMessage() of a stream sends the payload and returns or waits.
LEMMA EndStreamIs ==
  ASSUME Types, Calling, Dark => out = <<>>, EndStream
  PROVE  /\ call = NoCall /\ stream.open /\ stream' = NoStream /\ Sends(<<Payload>>)
         /\ Payload \in Sent /\ Payload.type = "payload" /\ Payload.id = 0
         /\ StreamCall \in [for : {"nothing", "puback", "pubrec"}, n : {calls}, qos : 0 .. 2]
         /\ StreamCall.for = "nothing" <=> stream.qos = 0
         /\ StreamCall.for = "pubrec" <=> stream.qos = 2
         /\ IF StreamCall.for = "nothing"
            THEN call' = NoCall /\ returnCode' = returnCode /\ result' = [call |-> StreamCall, ok |-> TRUE]
            ELSE call' = StreamCall /\ returnCode' = NoCode /\ result' = result
         /\ waited' = 0
         /\ UNCHANGED <<connected, txPacketId, in, cut, sincePing, sinceRx, polled, silent,
                        taken, calls, faults>>
<1>1. /\ call = NoCall /\ stream.open /\ stream' = NoStream /\ Sends(<<Payload>>) /\ waited' = 0
      /\ IF StreamCall.for = "nothing"
         THEN call' = NoCall /\ returnCode' = returnCode /\ result' = [call |-> StreamCall, ok |-> TRUE]
         ELSE call' = StreamCall /\ returnCode' = NoCode /\ result' = result
      /\ UNCHANGED <<connected, txPacketId, in, cut, sincePing, sinceRx, polled, silent,
                     taken, calls, faults>>
  BY SendIs DEF EndStream, StreamCall, Payload, Return
<1>2. calls \in 1 .. MaxCalls
  BY <1>1, IdsAreValid DEF Types, Calling
<1>3. Payload \in Sent /\ Payload.type = "payload" /\ Payload.id = 0
  BY <1>2, PacketKinds DEF Payload
<1>4. stream.qos \in 0 .. 2
  BY DEF Types
<1>5. /\ StreamCall \in [for : {"nothing", "puback", "pubrec"}, n : {calls}, qos : 0 .. 2]
      /\ StreamCall.for = "nothing" <=> stream.qos = 0
      /\ StreamCall.for = "pubrec" <=> stream.qos = 2
  <2>1. \/ stream.qos = 0 /\ FirstWait(stream.qos) = "nothing"
        \/ stream.qos = 1 /\ FirstWait(stream.qos) = "puback"
        \/ stream.qos = 2 /\ FirstWait(stream.qos) = "pubrec"
    BY <1>4 DEF FirstWait
  <2> QED BY <1>4, <2>1 DEF StreamCall
<1> QED BY <1>1, <1>3, <1>5

\* endMessage() of a stream keeps the types: the payload stands behind its header.
LEMMA SEndStream ==
  ASSUME SInv, setting' = setting, EndStream
  PROVE  SInv'
<1>1. Types /\ Calling /\ Framed /\ (Dark => out = <<>>)
  BY DEF SInv, Framed
<1>2. /\ call = NoCall /\ stream.open /\ stream' = NoStream /\ Sends(<<Payload>>)
      /\ Payload \in Sent /\ Payload.type = "payload"
      /\ StreamCall \in [for : {"nothing", "puback", "pubrec"}, n : {calls}, qos : 0 .. 2]
      /\ StreamCall.for = "nothing" <=> stream.qos = 0
      /\ IF StreamCall.for = "nothing"
         THEN call' = NoCall /\ returnCode' = returnCode
         ELSE call' = StreamCall /\ returnCode' = NoCode
      /\ waited' = 0
      /\ UNCHANGED <<connected, txPacketId, in, cut, sincePing, sinceRx, polled, silent, taken, calls>>
  BY <1>1, EndStreamIs
<1>3. out' \in Seq(Sent') /\ Framed'
  <2>1. Payload.type \notin Headers
    BY <1>2 DEF Headers
  <2> QED BY <1>1, <1>2, <2>1, OneOut
<1>4. sock' \in BOOLEAN
  BY <1>2 DEF Sends
<1>5. /\ NoCall \in [for : Waits \cup {"nothing"}, n : 0 .. MaxCalls, qos : 0 .. 2]
      /\ NoCall.for = "nothing" /\ NoCode \in Codes /\ 0 \in 0 .. ConnectionTimeout
      /\ NoStream \in [open : BOOLEAN, qos : 0 .. 2] /\ ~ NoStream.open
  BY <1>1, IdsAreValid, SessionAssumption DEF NoCall, NoCode, Codes, NoStream
<1>6. /\ StreamCall \in [for : Waits \cup {"nothing"}, n : 0 .. MaxCalls, qos : 0 .. 2]
      /\ StreamCall.n = calls
  BY <1>1, <1>2 DEF Waits, Types
<1>7. Types'
  BY <1>1, <1>2, <1>3, <1>4, <1>5, <1>6, LimitsStay DEF Types
<1>8. Calling'
  <2>1. calls > 0 /\ (stream.qos > 0 => txPacketId > 0) /\ stream.qos \in 0 .. 2
    BY <1>1, <1>2 DEF Calling, Busy, Types
  <2> QED BY <1>2, <1>5, <1>6, <2>1 DEF Calling, Busy
<1> QED BY <1>3, <1>7, <1>8 DEF SInv

\* The sketch disconnects.
LEMMA SDisconnect ==
  ASSUME SInv, setting' = setting, Disconnect
  PROVE  SInv'
<1>1. Types /\ Calling /\ Framed
  BY DEF SInv
<1>2. /\ call = NoCall /\ connected' = FALSE /\ sock' = FALSE /\ in' = <<>> /\ out' = <<>>
      /\ cut' = cut /\ silent' = 0
      /\ UNCHANGED <<sincePing, sinceRx, waited, polled, txPacketId, returnCode, call, stream,
                     taken, calls>>
  BY DEF Disconnect, Closed
<1>3. out' \in Seq(Sent') /\ Framed' /\ in' \in Seq(Received')
  BY <1>2, NothingOut
<1>4. Types'
  BY <1>1, <1>2, <1>3, LimitsStay DEF Types
<1>5. Calling'
  BY <1>1, <1>2 DEF Calling, Busy
<1> QED BY <1>3, <1>4, <1>5 DEF SInv

-----------------------------------------------------------------------------
(* The broker and the network keep the streams                             *)
-----------------------------------------------------------------------------
\* The broker takes the first packet (of a streamed message with its payload) and
\* answers it with q, or does not answer; ns are the calls it has carried out.
Answer(p, q, ns) ==
  /\ q \in Received
  /\ \/ p.type = "connect" /\ q.type = "connack" /\ (q.n = 0 => ns = {p.n})
     \/ p.type = "pingreq" /\ q.type = "pingresp" /\ ns = {}
     \/ /\ p.type \in Requests /\ q.type \in Acks /\ q.id = p.id
        /\ \/ p.type = "subscribe" /\ q.type = "suback" /\ q.n = 128
           \/ p.type = "pubrel" \/ ns = {p.n}
Handled(k, ps, ns) ==
  /\ sock /\ ~ cut /\ k <= Len(out) /\ k \in 1 .. 2
  /\ k = 2 => out[2].type = "payload"
  /\ k = 2 <=> out[1].type \in Headers
  /\ \/ ps = <<>> /\ out[1].type \in {"publish", "header"}
     \/ \E q : ps = <<q>> /\ Answer(out[1], q, ns)
  /\ ns \subseteq 1 .. MaxCalls
  /\ out' = SubSeq(out, k + 1, Len(out)) /\ in' = in \o ps /\ taken' = taken \cup ns /\ silent' = 0
  /\ UNCHANGED <<sock, cut, sincePing, sinceRx, waited, polled, connected, txPacketId,
                 returnCode, call, stream, calls, result, faults>>

\* The broker takes a packet, or a header with its payload, and answers it or not.
LEMMA HandleIs ==
  ASSUME Types, BrokerHandle
  PROVE  \E k, ps, ns : Handled(k, ps, ns)
<1> DEFINE p == out[1]
<1>1. /\ sock /\ ~ cut /\ Len(out) >= 1 /\ p = Head(out)
      /\ UNCHANGED <<sock, cut, sincePing, sinceRx, waited, polled, connected, txPacketId,
                     returnCode, call, stream, calls, result, faults>>
  BY DEF BrokerHandle, Handles, Types
<1>2. p \in Sent /\ Len(out) \in Nat
  BY <1>1 DEF Types
<1>3. /\ p.type \in Requests => p.id \in 1 .. MaxId /\ p.n \in 1 .. MaxCalls
      /\ p.type \in {"connect", "publish", "header", "payload"} => p.id = 0 /\ p.n \in 1 .. MaxCalls
  BY <1>2 DEF Sent, Requests
<1> HIDE DEF p
<1>4. ASSUME NEW ps, NEW ns, Answers(1, ps, ns), ns \subseteq 1 .. MaxCalls, p.type \notin Headers,
             \/ ps = <<>> /\ p.type \in {"publish", "header"}
             \/ \E q : ps = <<q>> /\ Answer(p, q, ns)
      PROVE  \E k, xs, ms : Handled(k, xs, ms)
  <2>1. /\ out' = SubSeq(out, 1 + 1, Len(out)) /\ in' = in \o ps
        /\ taken' = taken \cup ns /\ silent' = 0
    BY <1>4 DEF Answers
  <2>2. /\ out[1].type \notin Headers
        /\ \/ ps = <<>> /\ out[1].type \in {"publish", "header"}
           \/ \E q : ps = <<q>> /\ Answer(out[1], q, ns)
    BY <1>4 DEF p
  <2>3. sock /\ ~ cut /\ 1 <= Len(out) /\ 1 \in 1 .. 2 /\ 1 # 2
    BY <1>1, <1>2
  <2>4. Handled(1, ps, ns)
    BY <1>1, <1>4, <2>1, <2>2, <2>3, Zenon DEF Handled
  <2> QED BY <2>4
<1>5. CASE p.type = "connect" /\ Answers(1, <<Packet("connack", 0, 0)>>, {p.n})
  <2>1. Answer(p, Packet("connack", 0, 0), {p.n})
    BY <1>5, PacketKinds DEF Answer
  <2> QED BY <1>3, <1>4, <1>5, <2>1 DEF Headers
<1>6. CASE p.type = "connect" /\ Answers(1, <<Packet("connack", 0, 5)>>, {})
  <2>1. Answer(p, Packet("connack", 0, 5), {})
    BY <1>6, PacketKinds DEF Answer
  <2> QED BY <1>3, <1>4, <1>6, <2>1 DEF Headers
<1>7. CASE p.type = "subscribe" /\ Answers(1, <<Packet("suback", p.id, 1)>>, {p.n})
  <2>1. Answer(p, Packet("suback", p.id, 1), {p.n})
    BY <1>3, <1>7, PacketKinds DEF Answer, Requests, Acks
  <2> QED BY <1>3, <1>4, <1>7, <2>1 DEF Requests, Headers
<1>8. CASE p.type = "subscribe" /\ Answers(1, <<Packet("suback", p.id, 128)>>, {})
  <2>1. Answer(p, Packet("suback", p.id, 128), {})
    BY <1>3, <1>8, PacketKinds DEF Answer, Requests, Acks
  <2> QED BY <1>3, <1>4, <1>8, <2>1 DEF Headers
<1>9. ASSUME NEW type, NEW t, <<type, t>> \in {<<"unsubscribe", "unsuback">>, <<"publish1", "puback">>,
                                              <<"publish2", "pubrec">>},
             p.type = type, Answers(1, <<Reply(t, p)>>, {p.n})
      PROVE  \E k, xs, ms : Handled(k, xs, ms)
  <2>1. type \in Requests /\ t \in Acks
    BY <1>9 DEF Requests, Acks
  <2>2. Answer(p, Reply(t, p), {p.n})
    BY <1>3, <1>9, <2>1, PacketKinds DEF Answer, Reply
  <2> QED BY <1>3, <1>4, <1>9, <2>1, <2>2 DEF Headers
<1>10. CASE p.type = "publish" /\ Answers(1, <<>>, {p.n})
  BY <1>3, <1>4, <1>10 DEF Headers
<1>11. CASE p.type = "pubrel" /\ Answers(1, <<Reply("pubcomp", p)>>, {})
  <2>1. Answer(p, Reply("pubcomp", p), {})
    BY <1>3, <1>11, PacketKinds DEF Answer, Reply, Requests, Acks
  <2> QED BY <1>3, <1>4, <1>11, <2>1 DEF Headers
<1>12. CASE p.type = "pingreq" /\ Answers(1, <<Packet("pingresp", 0, 0)>>, {})
  <2>1. Answer(p, Packet("pingresp", 0, 0), {})
    BY <1>12, PacketKinds DEF Answer
  <2> QED BY <1>3, <1>4, <1>12, <2>1 DEF Headers
<1>13. CASE /\ p.type \in Headers /\ Handles(2) /\ out[2].type = "payload"
            /\ Answers(2, CASE p.type = "header" -> <<>>
                            [] p.type = "header1" -> <<Reply("puback", p)>>
                            [] p.type = "header2" -> <<Reply("pubrec", p)>>, {p.n})
  <2>1. Len(out) >= 2
    BY <1>13 DEF Handles
  <2>2. ASSUME NEW ps, Answers(2, ps, {p.n}), {p.n} \subseteq 1 .. MaxCalls,
               \/ ps = <<>> /\ p.type \in {"publish", "header"}
               \/ \E q : ps = <<q>> /\ Answer(p, q, {p.n})
        PROVE  \E k, xs, ms : Handled(k, xs, ms)
    <3>1. Handled(2, ps, {p.n})
      <4>1. out[1].type \in Headers /\ out[2].type = "payload"
        BY <1>13 DEF p
      <4>2. /\ out' = SubSeq(out, 2 + 1, Len(out)) /\ in' = in \o ps
            /\ taken' = taken \cup {p.n} /\ silent' = 0
        BY <2>2 DEF Answers
      <4>3. \/ ps = <<>> /\ out[1].type \in {"publish", "header"}
            \/ \E q : ps = <<q>> /\ Answer(out[1], q, {p.n})
        BY <2>2 DEF p
      <4>4. sock /\ ~ cut /\ 2 <= Len(out) /\ 2 \in 1 .. 2
        BY <1>1, <1>2, <2>1
      <4> QED BY <1>1, <2>2, <4>1, <4>2, <4>3, <4>4, Zenon DEF Handled
    <3> QED BY <3>1
  <2>3. CASE p.type = "header"
    BY <1>3, <1>13, <2>2, <2>3
  <2>4. ASSUME NEW t \in {"puback", "pubrec"}, Answers(2, <<Reply(t, p)>>, {p.n}),
               p.type \in {"header1", "header2"}
        PROVE  \E k, xs, ms : Handled(k, xs, ms)
    <3>1. p.type \in Requests /\ t \in Acks
      BY <2>4 DEF Requests, Acks
    <3>2. Answer(p, Reply(t, p), {p.n})
      BY <1>3, <3>1, PacketKinds DEF Answer, Reply
    <3> QED BY <1>3, <2>2, <2>4, <3>1, <3>2
  <2>5. CASE p.type = "header1"
    <3>1. Answers(2, <<Reply("puback", p)>>, {p.n})
      BY <1>13, <2>5
    <3> QED BY <2>4, <2>5, <3>1
  <2>6. CASE p.type = "header2"
    <3>1. Answers(2, <<Reply("pubrec", p)>>, {p.n})
      BY <1>13, <2>6
    <3> QED BY <2>4, <2>6, <3>1
  <2> QED BY <1>13, <2>3, <2>5, <2>6 DEF Headers
<1>14. CASE p.type = "unsubscribe" /\ Answers(1, <<Reply("unsuback", p)>>, {p.n})
  BY <1>9, <1>14
<1>15. CASE p.type = "publish1" /\ Answers(1, <<Reply("puback", p)>>, {p.n})
  BY <1>9, <1>15
<1>16. CASE p.type = "publish2" /\ Answers(1, <<Reply("pubrec", p)>>, {p.n})
  BY <1>9, <1>16
<1> QED
  BY <1>1, <1>5, <1>6, <1>7, <1>8, <1>10, <1>11, <1>12, <1>13, <1>14, <1>15, <1>16 DEF BrokerHandle

\* The broker takes a header only with its payload: streams stay together.
LEMMA SBrokerHandle ==
  ASSUME SInv, setting' = setting, NEW k, NEW ps, NEW ns, Handled(k, ps, ns)
  PROVE  SInv'
<1>1. Types /\ Calling /\ Framed
  BY DEF SInv
<1>2. /\ k \in Nat /\ k <= Len(out) /\ out' = SubSeq(out, k + 1, Len(out)) /\ in' = in \o ps
      /\ taken' = taken \cup ns /\ ns \subseteq 1 .. MaxCalls /\ silent' = 0
      /\ UNCHANGED <<sock, cut, sincePing, sinceRx, waited, polled, connected, txPacketId,
                     returnCode, call, stream, calls>>
      /\ ~ Dark /\ ~ Dark'
  BY DEF Handled, Dark
<1>3. ps = <<>> \/ \E q \in Received : ps = <<q>>
  BY DEF Handled, Answer
<1>4. in' \in Seq(Received)
  <2>1. CASE ps = <<>>
    BY <1>1, <1>2, <2>1, ConcatEmptySeq DEF Types
  <2>2. ASSUME NEW q \in Received, ps = <<q>> PROVE in' \in Seq(Received)
    BY <1>1, <1>2, <2>2, Behind1 DEF Types
  <2> QED BY <1>3, <2>1, <2>2
<1>5. out' \in Seq(Sent)
  BY <1>1, <1>2, Rest DEF Types
<1>6. Framed'
  <2>1. out \in Seq(Sent) /\ Together(out) /\ (Ends(out) => stream.open)
    BY <1>1 DEF Types, Framed
  <2>2. Together(out') /\ (Ends(out') => Ends(out))
    BY <1>2, <2>1, TogetherRest
  <2> QED BY <1>2, <2>1, <2>2 DEF Framed
<1>7. Types'
  BY <1>1, <1>2, <1>4, <1>5, LimitsStay DEF Types
<1>8. Calling'
  BY <1>1, <1>2 DEF Calling, Busy
<1> QED BY <1>6, <1>7, <1>8 DEF SInv

\* The broker closes; the path is cut; time passes.
LEMMA SBrokerCloses ==
  ASSUME SInv, setting' = setting, BrokerCloses \/ Cut
  PROVE  SInv'
<1>1. Types /\ Calling /\ Framed
  BY DEF SInv
<1>2. /\ out' = <<>> /\ (in' = in \/ in' = <<>>) /\ sock' \in BOOLEAN /\ cut' \in BOOLEAN
      /\ UNCHANGED <<connected, txPacketId, returnCode, call, stream, taken, calls>>
      /\ UNCHANGED <<sincePing, sinceRx, waited, polled, silent>>
  BY <1>1 DEF BrokerCloses, Cut, times, Types
<1>3. out' \in Seq(Sent') /\ Framed'
  BY <1>2, NothingOut
<1>4. in' \in Seq(Received')
  <2>1. in \in Seq(Received) /\ Received' = Received
    BY <1>1, LimitsStay DEF Types
  <2>2. CASE in' = in
    BY <2>1, <2>2
  <2>3. CASE in' = <<>>
    BY <2>3
  <2> QED BY <1>2, <2>2, <2>3
<1>5. Types'
  BY <1>1, <1>2, <1>3, <1>4, LimitsStay DEF Types
<1>6. Calling'
  BY <1>1, <1>2 DEF Calling, Busy
<1> QED BY <1>3, <1>5, <1>6 DEF SInv

\* Ages grow up to a limit.
LEMMA OlderIs ==
  ASSUME NEW age \in Nat, NEW limit \in Nat
  PROVE  /\ Older(age, limit) \in Nat /\ Older(age, limit) >= age /\ Older(age, limit) <= age + 1
         /\ age <= limit => Older(age, limit) <= limit
         /\ age < limit => Older(age, limit) = age + 1
BY DEF Older

\* Time keeps the types and the streams.
LEMMA STick ==
  ASSUME SInv, setting' = setting, Tick
  PROVE  SInv'
<1>1. Types /\ Calling /\ Framed
  BY DEF SInv
<1>2. /\ polled' = FALSE /\ sincePing' = Older(sincePing, 2 * KeepAlive)
      /\ sinceRx' = Older(sinceRx, 2 * KeepAlive + 2) /\ silent' = Older(silent, 2 * KeepAlive + 2)
      /\ waited' = (IF call = NoCall THEN 0 ELSE Older(waited, ConnectionTimeout))
      /\ UNCHANGED <<sock, in, out, cut>>
      /\ UNCHANGED <<connected, txPacketId, returnCode, call, stream, taken, calls>>
  BY DEF Tick, link
<1>3. /\ KeepAlive \in Nat /\ 2 * KeepAlive \in Nat /\ 2 * KeepAlive + 2 \in Nat
      /\ ConnectionTimeout \in Nat
  BY SessionAssumption
<1>4. sincePing' \in Nat /\ sinceRx' \in Nat /\ silent' \in Nat /\ waited' \in 0 .. ConnectionTimeout
  <2>1. sincePing \in Nat /\ sinceRx \in Nat /\ silent \in Nat /\ waited \in 0 .. ConnectionTimeout
    BY <1>1 DEF Types
  <2>2. sincePing' \in Nat /\ sinceRx' \in Nat /\ silent' \in Nat
    BY <1>2, <1>3, <2>1, OlderIs
  <2>3. waited \in Nat /\ waited <= ConnectionTimeout
    BY <1>3, <2>1
  <2>4. /\ Older(waited, ConnectionTimeout) \in Nat
        /\ Older(waited, ConnectionTimeout) <= ConnectionTimeout
    BY <1>3, <2>3, OlderIs
  <2>5. waited' = 0 \/ waited' = Older(waited, ConnectionTimeout)
    BY <1>2
  <2>6. waited' \in 0 .. ConnectionTimeout
    BY ONLY <1>3, <2>4, <2>5
  <2> QED BY <2>2, <2>6
<1>5. out' \in Seq(Sent') /\ Framed'
  BY <1>1, <1>2, SameOut DEF Dark
<1>6. Types'
  BY <1>1, <1>2, <1>4, <1>5, LimitsStay DEF Types
<1>7. Calling'
  BY <1>1, <1>2 DEF Calling, Busy, NoCall
<1> QED BY <1>5, <1>6, <1>7 DEF SInv

\* At the start.
LEMMA SInit ==
  ASSUME Init
  PROVE  SInv
<1>1. setting \in Settings
  BY DEF Init
<1>2. MaxId \in Nat /\ MaxCalls \in Nat /\ KeepAlive \in Nat /\ ConnectionTimeout \in Nat
  BY <1>1, Limits, SessionAssumption
<1>3. Types
  <2>1. /\ sock \in BOOLEAN /\ connected \in BOOLEAN /\ cut \in BOOLEAN /\ polled \in BOOLEAN
        /\ returnCode \in Codes /\ sinceRx \in Nat /\ silent \in Nat
        /\ waited \in 0 .. ConnectionTimeout /\ stream \in [open : BOOLEAN, qos : 0 .. 2]
    <3>1. /\ sock = FALSE /\ connected = FALSE /\ cut = FALSE /\ polled = FALSE
          /\ returnCode = NoCode /\ sinceRx = 0 /\ silent = 0 /\ waited = 0 /\ stream = NoStream
      BY DEF Init
    <3>2. NoCode \in Codes /\ NoStream \in [open : BOOLEAN, qos : 0 .. 2]
      BY DEF Codes, NoCode, NoStream
    <3>3. 0 \in Nat /\ 0 \in 0 .. ConnectionTimeout
      BY <1>2
    <3> QED BY <3>1, <3>2, <3>3
  <2>2. /\ calls \in 0 .. MaxCalls /\ txPacketId \in 0 .. MaxId /\ taken \subseteq 1 .. MaxCalls
        /\ call \in [for : Waits \cup {"nothing"}, n : 0 .. MaxCalls, qos : 0 .. 2]
    BY <1>2 DEF Init, NoCall
  <2>3. in \in Seq(Received) /\ out \in Seq(Sent)
    BY DEF Init
  <2>4. sincePing \in Nat
    BY <1>2 DEF Init
  <2> QED BY <1>1, <2>1, <2>2, <2>3, <2>4 DEF Types
<1>4. Framed
  BY DEF Init, Framed, Together, Ends
<1>5. Calling
  BY DEF Init, Calling, Busy, NoCall, NoStream
<1> QED BY <1>3, <1>4, <1>5 DEF SInv

\* Every step keeps the types and the streams.
LEMMA SNext ==
  ASSUME SInv, [Next]_<<setting, vars>>
  PROVE  SInv'
<1>1. Types /\ (Dark => out = <<>>)
  BY DEF SInv, Framed
<1>2. CASE UNCHANGED <<setting, vars>>
  <2>1. /\ UNCHANGED <<setting, sock, in, out, cut, sincePing, sinceRx, waited, polled, silent>>
        /\ UNCHANGED <<connected, txPacketId, returnCode, call, stream, taken, calls>>
    BY <1>2 DEF vars, link, times
  <2>2. Types' /\ Calling'
    BY <2>1, LimitsStay DEF SInv, Types, Calling, Busy
  <2>3. Framed'
    BY <2>1, SameOut DEF SInv, Dark
  <2> QED BY <2>2, <2>3 DEF SInv
<1>3. CASE Next
  <2>1. setting' = setting
    BY <1>3 DEF Next
  <2>2. ASSUME Subscribe \/ Unsubscribe \/ \E qos \in 0 .. 2 : Publish(qos) \/ BeginStream(qos)
        PROVE  SInv'
    BY <1>1, <2>1, <2>2, NewCallIs, SNewCall
  <2>3. ASSUME BrokerHandle PROVE SInv'
    BY <1>1, <2>1, <2>3, HandleIs, SBrokerHandle
  <2> QED
    BY <1>3, <2>1, <2>2, <2>3, SPoll, SWaitOn, SAnswered, SGivesUp, SConnect, SEndStream,
       SDisconnect,
       SBrokerCloses, STick DEF Next, Client, Caller, Network
<1> QED BY <1>2, <1>3

\* Types, with packet ids that are never 0, on all networks; and what follows the
\* header of a streamed message is its payload, or a ping of poll().
THEOREM StreamsHold == Spec => []StreamInv
<1>1. SInv => StreamInv
  <2> SUFFICES ASSUME SInv PROVE StreamInv
    OBVIOUS
  <2>1. Types /\ Framed
    BY DEF SInv
  <2>2. StreamStaysTogether
    BY <2>1 DEF Framed, Together, StreamStaysTogether
  <2>3. TypeOK
    <3>1. ASSUME NEW i \in DOMAIN out,
                 out[i].type \in {"subscribe", "unsubscribe", "publish1", "publish2", "header1",
                                 "header2", "pubrel"}
          PROVE  out[i].id \in 1 .. MaxId
      <4>1. out[i] \in Sent
        BY <2>1 DEF Types
      <4> QED BY <3>1, <4>1 DEF Sent
    <3>2. call.for \in Waits \cup {"nothing"} /\ call.n \in 0 .. MaxCalls
      BY <2>1 DEF Types
    <3> QED BY <2>1, <3>1, <3>2 DEF TypeOK, Types, Codes
  <2> QED BY <2>2, <2>3 DEF StreamInv
<1> QED BY <1>1, SInit, SNext, PTL DEF Spec

-----------------------------------------------------------------------------
(* The invariant of the keepalive                                          *)
-----------------------------------------------------------------------------
\* While connect() waits nothing but CONNECT and its answer is under way.
Connacking ==
  /\ call.for = "connack" =>
       /\ txPacketId = 0 /\ ~ connected /\ Len(in) + Len(out) <= 1
       /\ \A i \in DOMAIN in : in[i].type = "connack" /\ (in[i].n = 0 => calls \in taken)
       /\ \A i \in DOMAIN out : out[i].type = "connect" /\ out[i].n = calls
  /\ call.for # "connack" =>
       /\ \A i \in DOMAIN in : in[i].type # "connack"
       /\ \A i \in DOMAIN out : out[i].type # "connect"

\* A silence the client has measured.
Silence ==
  connected =>
    /\ sinceRx <= 2 * KeepAlive + 1
    /\ sinceRx = 2 * KeepAlive + 1 => sincePing <= 1 /\ ~ polled
    /\ polled /\ sinceRx >= 2 * KeepAlive => sinceRx = 2 * KeepAlive /\ sincePing = 0

\* On a timely network: the ping is sent before the interval is over, and until it is
\* answered it is under way.
HasPing(s) == \E i \in DOMAIN s : s[i].type = "pingreq"
Heard ==
  Timely /\ connected /\ ~ Dark =>
    /\ silent <= KeepAlive /\ sinceRx <= KeepAlive
    /\ silent <= sincePing \/ HasPing(out)
    /\ sinceRx <= sincePing \/ HasPing(out) \/ in # <<>>
    /\ polled => sincePing < KeepAlive \/ (silent = 0 /\ sinceRx = 0)
OneAnswer == Timely /\ call.for = "connack" /\ ~ Dark => silent = 0 /\ Len(in) + Len(out) = 1
Unended == stream.open /\ ~ Dark => Ends(out)
KInv == Connacking /\ Silence /\ Heard /\ OneAnswer /\ Unended

-----------------------------------------------------------------------------
(* What a step makes of the packets under way                              *)
-----------------------------------------------------------------------------
\* Packets behind a sequence.
LEMMA Joined ==
  ASSUME NEW S, NEW s \in Seq(S), NEW t \in Seq(S)
  PROVE  /\ s \o t \in Seq(S) /\ Len(s \o t) = Len(s) + Len(t)
         /\ DOMAIN (s \o t) = 1 .. Len(s) + Len(t)
         /\ \A i \in 1 .. Len(s) : (s \o t)[i] = s[i]
         /\ \A j \in 1 .. Len(t) : (s \o t)[Len(s) + j] = t[j]
         /\ \A i \in DOMAIN (s \o t) : \/ i \in DOMAIN s /\ (s \o t)[i] = s[i]
                                       \/ i - Len(s) \in DOMAIN t /\ (s \o t)[i] = t[i - Len(s)]
<1>1. /\ s \o t \in Seq(S) /\ Len(s \o t) = Len(s) + Len(t)
      /\ \A i \in 1 .. Len(s) + Len(t) : (s \o t)[i] = IF i <= Len(s) THEN s[i] ELSE t[i - Len(s)]
  BY ConcatProperties
<1>2. Len(s) \in Nat /\ Len(t) \in Nat /\ DOMAIN s = 1 .. Len(s) /\ DOMAIN t = 1 .. Len(t)
  OBVIOUS
<1>3. DOMAIN (s \o t) = 1 .. Len(s) + Len(t)
  BY <1>1
<1>4. \A j \in 1 .. Len(t) : Len(s) + j \in 1 .. Len(s) + Len(t) /\ ~ (Len(s) + j <= Len(s))
                             /\ Len(s) + j - Len(s) = j
  BY <1>2
<1> QED BY <1>1, <1>2, <1>3, <1>4

\* The packets under way to the broker, grown by ps.
Grows(ps) == ~ Dark /\ ~ Dark' /\ ps \in Seq(Sent) /\ out' = out \o ps
Lost == Dark' /\ out' = <<>>

\* What is sent stands behind what is under way, or is lost.
LEMMA SendsGrow ==
  ASSUME Framed, cut' = cut, NEW ps \in Seq(Sent), Sends(ps)
  PROVE  Lost \/ Grows(ps)
<1>1. CASE Dark
  BY <1>1 DEF Sends, Lost, Dark
<1>2. CASE ~ Dark
  BY <1>2 DEF Sends, Grows, Dark
<1> QED BY <1>1, <1>2

\* What follows a run of poll() is nothing or PUBREL.
Follows(more) == \/ more = <<>>
                 \/ \E q \in Sent : more = <<q>> /\ q.type = "pubrel" /\ ~ stream.open

\* A run of poll() sends a ping first and PUBREL behind it, or loses them.
LEMMA PollsGrow ==
  ASSUME SInv, NEW more, Follows(more), Polls(more)
  PROVE  /\ more \in Seq(Sent) /\ <<Ping>> \o more \in Seq(Sent)
         /\ \A j \in DOMAIN more : more[j].type = "pubrel" /\ ~ stream.open
         /\ \A j \in DOMAIN (<<Ping>> \o more) :
              \/ (<<Ping>> \o more)[j].type = "pingreq"
              \/ (<<Ping>> \o more)[j].type = "pubrel" /\ ~ stream.open
         /\ DOMAIN (<<Ping>> \o more) = 1 .. Len(more) + 1 /\ (<<Ping>> \o more)[1] = Ping
         /\ \/ Lost
            \/ connected /\ sincePing >= KeepAlive /\ sincePing' = 0 /\ Grows(<<Ping>> \o more)
            \/ /\ sincePing' = sincePing /\ Grows(more)
               /\ connected' => sincePing < KeepAlive /\ Age < 2 * KeepAlive
<1>1. Ping \in Sent /\ Ping.type = "pingreq"
  BY PacketKinds DEF Ping
<1>2. more \in Seq(Sent) /\ \A j \in DOMAIN more : more[j].type = "pubrel" /\ ~ stream.open
  <2>1. CASE more = <<>>
    BY <2>1
  <2>2. ASSUME NEW q \in Sent, more = <<q>>, q.type = "pubrel", ~ stream.open
        PROVE  more \in Seq(Sent) /\ \A j \in DOMAIN more : more[j].type = "pubrel" /\ ~ stream.open
    BY <2>2
  <2> QED BY <2>1, <2>2 DEF Follows
<1>3. <<Ping>> \in Seq(Sent) /\ Len(<<Ping>>) = 1 /\ <<Ping>>[1] = Ping /\ DOMAIN <<Ping>> = 1 .. 1
  BY <1>1
<1>4. PICK t : t = <<Ping>> \o more
  OBVIOUS
<1>5. /\ t \in Seq(Sent) /\ DOMAIN t = 1 .. 1 + Len(more) /\ t[1] = Ping
      /\ \A j \in DOMAIN t : t[j].type = "pingreq" \/ (t[j].type = "pubrel" /\ ~ stream.open)
  <2>1. /\ t \in Seq(Sent) /\ DOMAIN t = 1 .. 1 + Len(more) /\ t[1] = <<Ping>>[1]
        /\ \A i \in DOMAIN t : \/ i \in 1 .. 1 /\ t[i] = <<Ping>>[i]
                               \/ i - 1 \in DOMAIN more /\ t[i] = more[i - 1]
    BY <1>2, <1>3, <1>4, Joined
  <2> QED BY <1>1, <1>2, <1>3, <2>1
<1>6. 1 + Len(more) = Len(more) + 1
  BY <1>2
<1>7. cut' = cut /\ Framed
  BY DEF Polls, SInv
<1>8. \/ Lost
      \/ connected /\ sincePing >= KeepAlive /\ sincePing' = 0 /\ Grows(t)
      \/ /\ sincePing' = sincePing /\ Grows(more)
         /\ connected' => sincePing < KeepAlive /\ Age < 2 * KeepAlive
  <2>1. CASE sock' = FALSE /\ out' = <<>>
    BY <2>1 DEF Lost, Dark
  <2>2. CASE connected /\ sincePing >= KeepAlive /\ sincePing' = 0 /\ Sends(t)
    BY <1>5, <1>7, <2>2, SendsGrow
  <2>3. CASE /\ sincePing' = sincePing /\ Sends(more)
             /\ connected' => sincePing < KeepAlive /\ Age < 2 * KeepAlive
    BY <1>2, <1>7, <2>3, SendsGrow
  <2> QED BY <1>4, <2>1, <2>2, <2>3 DEF Polls
<1> QED BY <1>2, <1>4, <1>5, <1>6, <1>8

\* A ping under way stays under way when others follow; the stream that is open still
\* ends what is under way when only pings follow.
LEMMA GrowsKeeps ==
  ASSUME Types, NEW ps, Grows(ps)
  PROVE  /\ HasPing(out) => HasPing(out')
         /\ Ends(out) /\ (\A j \in DOMAIN ps : ps[j].type = "pingreq") => Ends(out')
         /\ Len(out') = Len(out) + Len(ps) /\ Len(ps) \in Nat
         /\ \A i \in DOMAIN out' : \/ i \in DOMAIN out /\ out'[i] = out[i]
                                   \/ i - Len(out) \in DOMAIN ps /\ out'[i] = ps[i - Len(out)]
<1> DEFINE t == out'
<1>1. /\ out \in Seq(Sent) /\ Len(out) \in Nat /\ DOMAIN out = 1 .. Len(out)
      /\ ps \in Seq(Sent) /\ Len(ps) \in Nat /\ DOMAIN ps = 1 .. Len(ps) /\ t = out \o ps
  BY DEF Grows, Types
<1>2. /\ Len(t) = Len(out) + Len(ps) /\ DOMAIN t = 1 .. Len(out) + Len(ps)
      /\ \A i \in 1 .. Len(out) : t[i] = out[i]
      /\ \A i \in DOMAIN t : \/ i \in DOMAIN out /\ t[i] = out[i]
                             \/ i - Len(out) \in DOMAIN ps /\ t[i] = ps[i - Len(out)]
  BY <1>1, Joined
<1> HIDE DEF t
<1>3. HasPing(out) => HasPing(t)
  BY <1>1, <1>2 DEF HasPing
<1>4. ASSUME Ends(out), \A j \in DOMAIN ps : ps[j].type = "pingreq"
      PROVE  Ends(t)
  <2>1. PICK i \in DOMAIN out : /\ out[i].type \in Headers
                                /\ \A k \in i + 1 .. Len(out) : out[k].type = "pingreq"
    BY <1>4 DEF Ends
  <2>2. i \in DOMAIN t /\ t[i].type \in Headers
    BY <1>1, <1>2, <2>1
  <2>3. ASSUME NEW k \in i + 1 .. Len(t) PROVE t[k].type = "pingreq"
    <3>1. k \in DOMAIN t
      BY <1>1, <1>2, <2>3
    <3>2. CASE k \in DOMAIN out /\ t[k] = out[k]
      BY <1>1, <2>1, <2>3, <3>2
    <3>3. CASE k - Len(out) \in DOMAIN ps /\ t[k] = ps[k - Len(out)]
      BY <1>4, <3>3
    <3> QED BY <1>2, <3>1, <3>2, <3>3
  <2> QED BY <2>2, <2>3 DEF Ends
<1> QED BY <1>1, <1>2, <1>3, <1>4 DEF t

-----------------------------------------------------------------------------
(* The steps keep it                                                       *)
-----------------------------------------------------------------------------
\* A run of poll() keeps what is known of silence.
LEMMA KPolls ==
  ASSUME SInv, Silence, Heard, Unended, setting' = setting, stream' = stream,
         NEW more, Follows(more), Polls(more)
  PROVE  Silence' /\ Heard' /\ Unended'
<1>0. Types
  BY DEF SInv
<1>1. /\ KeepAlive \in Nat /\ KeepAlive > 1 /\ sincePing \in Nat /\ sinceRx \in Nat
      /\ silent \in Nat
      /\ Timely' = Timely
  BY <1>0, SessionAssumption, LimitsStay DEF Types
<1>2. /\ polled' = TRUE /\ silent' = silent /\ in' = <<>> /\ sinceRx' = Age
      /\ connected' => connected
      /\ (Age = 0 /\ in # <<>>) \/ (Age = sinceRx /\ in = <<>>)
  <2>1. /\ polled' = TRUE /\ silent' = silent /\ in' = <<>> /\ sinceRx' = Age
        /\ connected' => connected
    BY DEF Polls
  <2>2. (Age = 0 /\ in # <<>>) \/ (Age = sinceRx /\ in = <<>>)
    BY DEF Age
  <2> QED BY <2>1, <2>2
<1>3. /\ \A j \in DOMAIN more : more[j].type = "pubrel" /\ ~ stream.open
      /\ \A j \in DOMAIN (<<Ping>> \o more) :
           \/ (<<Ping>> \o more)[j].type = "pingreq"
           \/ (<<Ping>> \o more)[j].type = "pubrel" /\ ~ stream.open
      /\ DOMAIN (<<Ping>> \o more) = 1 .. Len(more) + 1 /\ (<<Ping>> \o more)[1] = Ping
      /\ more \in Seq(Sent)
  BY PollsGrow
<1>4. CASE Lost
  <2>1. CASE connected'
    <3>1. \/ sincePing >= KeepAlive /\ sincePing' = 0
          \/ sincePing' = sincePing /\ sincePing < KeepAlive /\ Age < 2 * KeepAlive
      BY <2>1 DEF Polls
    <3>2. Silence'
      BY <1>1, <1>2, <3>1 DEF Silence
    <3> QED BY <1>4, <3>2 DEF Lost, Heard, Unended
  <2>2. CASE ~ connected'
    BY <1>4, <2>2 DEF Lost, Heard, Unended, Silence
  <2> QED BY <2>1, <2>2
<1>5. CASE connected /\ sincePing >= KeepAlive /\ sincePing' = 0 /\ Grows(<<Ping>> \o more)
  <2>1. Silence'
    BY <1>1, <1>2, <1>5 DEF Silence
  <2>2. HasPing(out')
    <3>1. PICK t : t = <<Ping>> \o more
      OBVIOUS
    <3>2. /\ out \in Seq(Sent) /\ t \in Seq(Sent) /\ out' = out \o t /\ 1 \in DOMAIN t
          /\ t[1] = Ping
          /\ Len(out) \in Nat
      BY <1>0, <1>3, <1>5, <3>1 DEF Grows, Types
    <3>3. Len(out) + 1 \in DOMAIN out' /\ out'[Len(out) + 1] = Ping
      <4>1. DOMAIN out' = 1 .. Len(out) + Len(t) /\ \A j \in 1 .. Len(t) : out'[Len(out) + j] = t[j]
        BY <3>2, Joined
      <4>2. Len(t) \in Nat /\ 1 \in 1 .. Len(t)
        BY <3>2
      <4> QED BY <3>2, <4>1, <4>2
    <3> QED BY <3>3, PacketKinds DEF HasPing, Ping
  <2>3. Heard'
    <3>1. ASSUME Timely, connected PROVE silent <= KeepAlive /\ Age <= KeepAlive
      <4>1. ~ Dark
        BY <1>5 DEF Grows
      <4> QED BY <1>1, <1>2, <3>1, <4>1 DEF Heard
    <3> QED BY <1>1, <1>2, <1>5, <2>2, <3>1 DEF Heard
  <2>4. Unended'
    <3>1. ASSUME stream.open PROVE Ends(out')
      <4>1. Ends(out) /\ \A j \in DOMAIN (<<Ping>> \o more) : (<<Ping>> \o more)[j].type = "pingreq"
        BY <1>3, <1>5, <3>1 DEF Unended, Grows
      <4> QED BY <1>0, <1>5, <4>1, GrowsKeeps
    <3> QED BY <3>1 DEF Unended
  <2> QED BY <2>1, <2>3, <2>4
<1>6. CASE /\ sincePing' = sincePing /\ Grows(more)
           /\ connected' => sincePing < KeepAlive /\ Age < 2 * KeepAlive
  <2>1. Silence'
    BY <1>1, <1>2, <1>6 DEF Silence
  <2>2. HasPing(out) => HasPing(out')
    BY <1>0, <1>6, GrowsKeeps
  <2>3. Heard'
    <3> SUFFICES ASSUME Timely, connected', ~ Dark'
                 PROVE  /\ silent' <= KeepAlive /\ sinceRx' <= KeepAlive
                        /\ silent' <= sincePing' \/ HasPing(out')
                        /\ sinceRx' <= sincePing' \/ HasPing(out') \/ in' # <<>>
                        /\ polled' => sincePing' < KeepAlive \/ (silent' = 0 /\ sinceRx' = 0)
      BY <1>1 DEF Heard
    <3>1. /\ silent <= KeepAlive /\ sinceRx <= KeepAlive
          /\ silent <= sincePing \/ HasPing(out)
          /\ sinceRx <= sincePing \/ HasPing(out) \/ in # <<>>
          /\ sincePing < KeepAlive
      BY <1>2, <1>6 DEF Heard, Grows
    <3> QED BY <1>1, <1>2, <1>6, <2>2, <3>1
  <2>4. Unended'
    <3>1. ASSUME stream.open PROVE Ends(out')
      <4>1. Ends(out) /\ \A j \in DOMAIN more : more[j].type = "pingreq"
        BY <1>3, <1>6, <3>1 DEF Unended, Grows
      <4> QED BY <1>0, <1>6, <4>1, GrowsKeeps
    <3> QED BY <3>1 DEF Unended
  <2> QED BY <2>1, <2>3, <2>4
<1> QED BY <1>4, <1>5, <1>6, PollsGrow

\* Nothing of a connection that is not being opened looks like the opening of one.
LEMMA NoConnack ==
  ASSUME Types, Connacking, call.for # "connack", call'.for # "connack",
         in' = in \/ in' = <<>>,
         \/ out' = out \/ out' = <<>>
         \/ \E ps : Grows(ps) /\ \A j \in DOMAIN ps : ps[j].type # "connect"
  PROVE  Connacking'
<1>1. /\ \A i \in DOMAIN in : in[i].type # "connack"
      /\ \A i \in DOMAIN out : out[i].type # "connect"
  BY DEF Connacking
<1>2. \A i \in DOMAIN in' : in'[i].type # "connack"
  BY <1>1
<1>3. \A i \in DOMAIN out' : out'[i].type # "connect"
  <2>1. ASSUME NEW ps, Grows(ps), \A j \in DOMAIN ps : ps[j].type # "connect"
        PROVE  \A i \in DOMAIN out' : out'[i].type # "connect"
    BY <1>1, <2>1, GrowsKeeps
  <2> QED BY <1>1, <2>1
<1> QED BY <1>2, <1>3 DEF Connacking

\* A closed connection.
LEMMA KClosed ==
  ASSUME sock' = FALSE, connected' = FALSE, in' = <<>>, out' = <<>>, call'.for # "connack"
  PROVE  KInv'
<1>1. Connacking'
  BY DEF Connacking
<1>2. Silence' /\ Heard' /\ OneAnswer' /\ Unended'
  BY DEF Silence, Heard, OneAnswer, Unended, Dark
<1> QED BY <1>1, <1>2 DEF KInv

\* A packet is sent.
LEMMA KSends ==
  ASSUME SInv, KInv, setting' = setting, NEW p \in Sent, p.type # "connect", Sends(<<p>>),
         call.for # "connack", call'.for # "connack",
         UNCHANGED <<cut, in, connected, sincePing, sinceRx, polled, silent>>
  PROVE  /\ Connacking' /\ Silence' /\ Heard' /\ OneAnswer'
         /\ ~ Dark' /\ p.type \in Headers => Ends(out')
<1>0. Types /\ Framed
  BY DEF SInv
<1>1. <<p>> \in Seq(Sent) /\ DOMAIN <<p>> = 1 .. 1 /\ <<p>>[1] = p
  OBVIOUS
<1>2. Lost \/ Grows(<<p>>)
  BY <1>0, <1>1, SendsGrow
<1>3. Connacking'
  <2>1. out' = <<>> \/ \E ps : Grows(ps) /\ \A j \in DOMAIN ps : ps[j].type # "connect"
    BY <1>1, <1>2 DEF Lost
  <2> QED BY <1>0, <2>1, NoConnack DEF KInv
<1>4. Silence' /\ OneAnswer'
  BY DEF KInv, Silence, OneAnswer
<1>5. Heard'
  <2>1. CASE Lost
    BY <2>1 DEF Lost, Heard
  <2>2. CASE Grows(<<p>>)
    <3>1. HasPing(out) => HasPing(out')
      BY <1>0, <2>2, GrowsKeeps
    <3>2. ~ Dark /\ Timely' = Timely
      BY <2>2, LimitsStay DEF Grows
    <3> QED BY <3>1, <3>2 DEF KInv, Heard
  <2> QED BY <1>2, <2>1, <2>2
<1>6. ASSUME ~ Dark', p.type \in Headers PROVE Ends(out')
  <2>1. out' = out \o <<p>> /\ out \in Seq(Sent)
    BY <1>0, <1>2, <1>6 DEF Lost, Grows, Types
  <2>2. /\ DOMAIN out' = 1 .. Len(out) + 1 /\ out'[Len(out) + 1] = p /\ Len(out) \in Nat
        /\ Len(out') = Len(out) + 1
    BY <2>1, Behind1
  <2>3. /\ Len(out) + 1 \in DOMAIN out' /\ out'[Len(out) + 1].type \in Headers
        /\ \A k \in (Len(out) + 1) + 1 .. Len(out') : out'[k].type = "pingreq"
    BY <1>6, <2>2
  <2> QED BY <2>3 DEF Ends
<1> QED BY <1>3, <1>4, <1>5, <1>6

\* poll() keeps the account of the silence.
LEMMA KPoll ==
  ASSUME SInv, KInv, setting' = setting, Poll
  PROVE  KInv'
<1>1. Types /\ (Dark => out = <<>>)
  BY DEF SInv, Framed
<1>2. call = NoCall /\ Polls(<<>>) /\ call' = call /\ stream' = stream /\ Follows(<<>>)
  BY <1>1, PollStepIs DEF Poll, Follows
<1>3. Silence' /\ Heard' /\ Unended'
  BY <1>2, KPolls DEF KInv
<1>4. call.for # "connack"
  BY <1>2 DEF NoCall
<1>5. Connacking'
  <2>1. out' = <<>> \/ \E ps : Grows(ps) /\ \A j \in DOMAIN ps : ps[j].type # "connect"
    BY <1>2, PollsGrow DEF Lost
  <2>2. in' = <<>>
    BY <1>2 DEF Polls
  <2> QED BY <1>1, <1>2, <1>4, <2>1, <2>2, NoConnack DEF KInv
<1>6. OneAnswer'
  BY <1>2, <1>4 DEF OneAnswer
<1> QED BY <1>3, <1>5, <1>6 DEF KInv

\* What connect() waits with: when it finds no answer there is none.
LEMMA KWaitOn ==
  ASSUME SInv, KInv, setting' = setting, WaitOn
  PROVE  KInv'
<1>1. Types /\ (Dark => out = <<>>)
  BY DEF SInv, Framed
<1>2. /\ Polls(<<>>) /\ call' = call /\ stream' = stream /\ Follows(<<>>) /\ CodeAfter = NoCode
      /\ txPacketId' = txPacketId /\ calls' = calls /\ taken' = taken
  BY <1>1, PollStepIs DEF WaitOn, Follows
<1>3. Silence' /\ Heard' /\ Unended'
  BY <1>2, KPolls DEF KInv
<1>4. in' = <<>> /\ silent' = silent /\ (connected' => connected)
  BY <1>2 DEF Polls
<1>5. CASE call.for # "connack"
  <2>1. out' = <<>> \/ \E ps : Grows(ps) /\ \A j \in DOMAIN ps : ps[j].type # "connect"
    BY <1>2, PollsGrow DEF Lost
  <2>2. Connacking'
    BY <1>1, <1>2, <1>4, <1>5, <2>1, NoConnack DEF KInv
  <2>3. OneAnswer'
    BY <1>2, <1>5 DEF OneAnswer
  <2> QED BY <1>3, <2>2, <2>3 DEF KInv
<1>6. CASE call.for = "connack"
  <2>1. in = <<>>
    <3>1. \A i \in DOMAIN in : in[i].type = "connack"
      BY <1>6 DEF KInv, Connacking
    <3>2. ~ \E i \in DOMAIN in : SetsCode(in[i])
      BY <1>1, <1>2, CodeAfterIs
    <3>3. in \in Seq(Received)
      BY <1>1 DEF Types
    <3>4. ~ \E i \in DOMAIN in : TRUE
      BY <3>1, <3>2 DEF SetsCode
    <3> QED BY <3>3, <3>4
  <2>2. \/ out' = out /\ ~ Dark /\ ~ Dark'
        \/ Lost
    <3>1. ~ connected
      BY <1>6 DEF KInv, Connacking
    <3>2. Lost \/ Grows(<<>>)
      BY <1>2, <3>1, PollsGrow
    <3> QED BY <1>1, <3>2, ConcatEmptySeq DEF Grows, Types
  <2>3. Connacking'
    <3>1. CASE out' = out
      BY <1>2, <1>4, <1>6, <2>1, <3>1 DEF KInv, Connacking
    <3>2. CASE out' = <<>>
      BY <1>2, <1>4, <1>6, <3>2 DEF KInv, Connacking
    <3> QED BY <2>2, <3>1, <3>2 DEF Lost
  <2>4. OneAnswer'
    <3>1. CASE Lost
      BY <3>1 DEF Lost, OneAnswer
    <3>2. CASE out' = out /\ ~ Dark
      BY <1>2, <1>4, <2>1, <3>2, LimitsStay DEF KInv, OneAnswer
    <3> QED BY <2>2, <3>1, <3>2
  <2> QED BY <1>3, <2>3, <2>4 DEF KInv
<1> QED BY <1>5, <1>6

\* A loop that finds its answer keeps it, and connect() starts it.
LEMMA KAnswered ==
  ASSUME SInv, KInv, setting' = setting, Answered
  PROVE  KInv'
<1>1. Types /\ Calling /\ (Dark => out = <<>>)
  BY DEF SInv, Framed
<1>2. /\ call # NoCall /\ UNCHANGED <<txPacketId, stream, taken, calls>> /\ CodeAfter # NoCode
      /\ AnsweredConnect \/ AnsweredPubrec \/ AnsweredLast
  BY <1>1, AnsweredIs
<1>3. NoCall.for = "nothing" /\ KeepAlive \in Nat /\ KeepAlive > 1 /\ Timely' = Timely
  BY SessionAssumption, LimitsStay DEF NoCall
<1>4. ~ stream.open /\ call.for # "nothing" /\ ~ stream'.open
  BY <1>1, <1>2 DEF Calling
<1>5. ASSUME AnsweredConnect, CodeAfter = 0 PROVE KInv'
  <2>1. /\ call.for = "connack" /\ sinceRx' = 0 /\ connected' = TRUE /\ in' = <<>>
        /\ sock' = sock /\ out' = out /\ cut' = cut /\ call'.for = "nothing"
        /\ sincePing' = sincePing /\ silent' = silent
    BY <1>3, <1>5 DEF AnsweredConnect
  <2>2. in # <<>>
    <3>1. \E i \in DOMAIN in : TRUE
      BY <1>1, <1>2, CodeAfterIs, <2>1 DEF Calling
    <3> QED BY <3>1
  <2>3. /\ Len(in) + Len(out) <= 1 /\ in \in Seq(Received) /\ out \in Seq(Sent)
        /\ Timely /\ ~ Dark => silent = 0
    BY <1>1, <2>1 DEF KInv, Connacking, OneAnswer, Types
  <2>4. out = <<>>
    <3>1. Len(in) \in Nat /\ Len(out) \in Nat /\ Len(in) # 0
      BY <2>2, <2>3
    <3>2. Len(out) = 0
      BY <2>3, <3>1
    <3> QED BY <2>3, <3>2
  <2>5. Connacking'
    BY <2>1, <2>4 DEF Connacking
  <2>6. Silence'
    BY <1>3, <2>1 DEF Silence
  <2>7. Heard'
    <3>1. Dark' = Dark /\ sincePing \in Nat
      BY <1>1, <2>1 DEF Dark, Types
    <3> QED BY <1>3, <2>1, <2>3, <3>1 DEF Heard
  <2>8. OneAnswer' /\ Unended'
    BY <1>4, <2>1 DEF OneAnswer, Unended
  <2> QED BY <2>5, <2>6, <2>7, <2>8 DEF KInv
<1>6. ASSUME AnsweredConnect, CodeAfter # 0 PROVE KInv'
  BY <1>3, <1>6, KClosed DEF AnsweredConnect, Closed
<1>7. ASSUME NEW more, Polls(more), Follows(more), call.for # "connack", call'.for # "connack"
      PROVE  KInv'
  <2>1. Silence' /\ Heard' /\ Unended'
    BY <1>2, <1>7, KPolls DEF KInv
  <2>2. out' = <<>> \/ \E ps : Grows(ps) /\ \A j \in DOMAIN ps : ps[j].type # "connect"
    BY <1>7, PollsGrow DEF Lost
  <2>3. in' = <<>>
    BY <1>7 DEF Polls
  <2>4. Connacking'
    BY <1>1, <1>7, <2>2, <2>3, NoConnack DEF KInv
  <2>5. OneAnswer'
    BY <1>7 DEF OneAnswer
  <2> QED BY <2>1, <2>4, <2>5 DEF KInv
<1>8. CASE AnsweredPubrec
  <2>1. call.for = "pubrec" /\ Polls(<<Pubrel>>) /\ call' = ToPubcomp
    BY <1>8 DEF AnsweredPubrec
  <2>2. Follows(<<Pubrel>>) /\ call'.for = "pubcomp"
    BY <1>1, <1>4, <2>1, PubrelIsSent DEF Follows
  <2> QED BY <1>7, <2>1, <2>2
<1>9. CASE AnsweredLast
  <2>1. call.for # "connack" /\ Polls(<<>>) /\ call' = NoCall /\ Follows(<<>>)
    BY <1>9 DEF AnsweredLast, Follows
  <2> QED BY <1>3, <1>7, <2>1
<1> QED BY <1>2, <1>5, <1>6, <1>8, <1>9

\* A loop that gives up keeps the account of the silence.
LEMMA KGivesUp ==
  ASSUME SInv, KInv, setting' = setting, GivesUp
  PROVE  KInv'
<1>1. Types /\ Calling /\ (Dark => out = <<>>)
  BY DEF SInv, Framed
<1>2. /\ call # NoCall
      /\ UNCHANGED <<txPacketId, stream, sincePing, sinceRx, polled, silent, taken, calls>>
      /\ GivesUpPubrec \/ GivesUpLast \/ GivesUpAll
  BY <1>1, GivesUpIs
<1>3. ~ stream.open /\ ~ stream'.open /\ NoCall.for = "nothing"
  BY <1>1, <1>2 DEF Calling, NoCall
<1>4. CASE GivesUpPubrec
  <2>1. /\ call.for = "pubrec" /\ Sends(<<Pubrel>>) /\ call' = ToPubcomp
        /\ UNCHANGED <<in, cut, connected>>
    BY <1>4 DEF GivesUpPubrec
  <2>2. Pubrel \in Sent /\ Pubrel.type = "pubrel" /\ call'.for = "pubcomp"
    BY <1>1, <2>1, PubrelIsSent
  <2>3. Connacking' /\ Silence' /\ Heard' /\ OneAnswer'
    BY <1>2, <2>1, <2>2, KSends
  <2> QED BY <1>3, <2>3 DEF KInv, Unended
<1>5. CASE GivesUpLast
  <2>1. /\ call.for # "connack" /\ call'.for # "connack"
        /\ UNCHANGED <<sock, in, out, cut, connected, sincePing, sinceRx, polled, silent>>
    BY <1>2, <1>3, <1>5 DEF GivesUpLast
  <2>2. Connacking'
    BY <1>1, <2>1, NoConnack DEF KInv
  <2>3. Silence' /\ Heard'
    BY <2>1, LimitsStay DEF KInv, Silence, Heard, Dark
  <2> QED BY <1>3, <2>1, <2>2, <2>3 DEF KInv, OneAnswer, Unended
<1>6. CASE GivesUpAll
  BY <1>3, <1>6, KClosed DEF GivesUpAll
<1> QED BY <1>2, <1>4, <1>5, <1>6

\* A call that sends a packet keeps the account of the silence.
LEMMA KNewCall ==
  ASSUME SInv, KInv, setting' = setting, NEW c, NEW id, NEW p, NewCall(c, id, p)
  PROVE  KInv'
<1>1. /\ call = NoCall /\ p \in Sent /\ p.type # "connect" /\ c.for # "connack"
      /\ stream'.open => p.type \in Headers
      /\ SendsAndWaits(c, id, p)
  BY DEF NewCall, Requests
<1>2. NoCall.for = "nothing"
  BY DEF NoCall
<1>3. CASE /\ Sends(<<p>>) /\ in' = in /\ cut' = cut /\ connected' = connected
           /\ call' = NoCall \/ call' = c
           /\ UNCHANGED <<sincePing, sinceRx, polled, silent>>
  <2>1. /\ Connacking' /\ Silence' /\ Heard' /\ OneAnswer'
        /\ ~ Dark' /\ p.type \in Headers => Ends(out')
    BY <1>1, <1>2, <1>3, KSends
  <2> QED BY <1>1, <2>1 DEF KInv, Unended
<1>4. CASE /\ sock' = FALSE /\ in' = <<>> /\ out' = <<>> /\ connected' = FALSE /\ call' = NoCall
  BY <1>2, <1>4, KClosed
<1> QED BY <1>1, <1>3, <1>4 DEF SendsAndWaits

\* connect() waits for the only packet under way.
LEMMA KConnect ==
  ASSUME SInv, KInv, setting' = setting, Connect
  PROVE  KInv'
<1>1. /\ ~ stream'.open
      /\ calls' = calls + 1 /\ txPacketId' = 0 /\ connected' = FALSE /\ in' = <<>> /\ silent' = 0
      /\ ConnectFails \/ ConnectGoes
  BY ConnectIs
<1>2. CASE ConnectFails
  BY <1>1, <1>2, KClosed DEF ConnectFails, NoCall
<1>3. CASE ConnectGoes
  <2> DEFINE p == Packet("connect", 0, calls + 1)
  <2>1. p.type = "connect" /\ p.n = calls'
    BY <1>1, PacketKinds
  <2>2. /\ Len(out') = 1 /\ DOMAIN out' = 1 .. 1 /\ out'[1] = p /\ call'.for = "connack"
        /\ Len(in') = 0 /\ DOMAIN in' = {}
    BY <1>1, <1>3 DEF ConnectGoes, ConnectCall
  <2> HIDE DEF p
  <2>3. Connacking'
    BY <1>1, <2>1, <2>2 DEF Connacking
  <2>4. Silence' /\ Heard' /\ OneAnswer' /\ Unended'
    BY <1>1, <2>2 DEF Silence, Heard, OneAnswer, Unended
  <2> QED BY <2>3, <2>4 DEF KInv
<1> QED BY <1>1, <1>2, <1>3

\* The payload keeps the account of the silence.
LEMMA KEndStream ==
  ASSUME SInv, KInv, setting' = setting, EndStream
  PROVE  KInv'
<1>1. Types /\ Calling /\ (Dark => out = <<>>)
  BY DEF SInv, Framed
<1>2. /\ call = NoCall /\ stream' = NoStream /\ Sends(<<Payload>>)
      /\ Payload \in Sent /\ Payload.type = "payload"
      /\ StreamCall.for # "connack" /\ (call' = NoCall \/ call' = StreamCall)
      /\ UNCHANGED <<connected, in, cut, sincePing, sinceRx, polled, silent>>
  BY <1>1, EndStreamIs
<1>3. NoCall.for = "nothing" /\ ~ NoStream.open
  BY DEF NoCall, NoStream
<1>4. Connacking' /\ Silence' /\ Heard' /\ OneAnswer'
  BY <1>2, <1>3, KSends
<1> QED BY <1>2, <1>3, <1>4 DEF KInv, Unended

\* stop() leaves no connection to keep an account of.
LEMMA KDisconnect ==
  ASSUME Disconnect
  PROVE  KInv'
BY KClosed DEF Disconnect, Closed, NoCall

\* The broker takes a packet or a message: what is behind it is left, and what answers
\* it stands behind what the client has not read.
LEMMA HandledLeaves ==
  ASSUME Types, NEW k, NEW ps, NEW ns, Handled(k, ps, ns)
  PROVE  /\ ps \in Seq(Received) /\ in \in Seq(Received) /\ in' = in \o ps
         /\ Len(in') = Len(in) + Len(ps) /\ Len(in) \in Nat /\ Len(ps) \in 0 .. 1
         /\ Len(out) \in Nat
         /\ \A i \in DOMAIN in' : \/ i \in DOMAIN in /\ in'[i] = in[i]
                                  \/ ps = <<in'[i]>> /\ Answer(out[1], in'[i], ns) /\ i = Len(in) + 1
         /\ k \in 1 .. 2 /\ k <= Len(out) /\ Len(out') = Len(out) - k
         /\ DOMAIN out' = 1 .. Len(out) - k
         /\ DOMAIN out = 1 .. Len(out) /\ DOMAIN in = 1 .. Len(in) /\ DOMAIN in' = 1 .. Len(in')
         /\ \A i \in 1 .. Len(out) - k : out'[i] = out[i + k] /\ i + k \in DOMAIN out
         /\ \A i \in DOMAIN in : i \in DOMAIN in' /\ in'[i] = in[i]
         /\ \A q : ps = <<q>> => Len(in) + 1 \in DOMAIN in' /\ in'[Len(in) + 1] = q
<1>1. /\ k \in 1 .. 2 /\ k <= Len(out) /\ out' = SubSeq(out, k + 1, Len(out)) /\ in' = in \o ps
      /\ \/ ps = <<>>
         \/ \E q : ps = <<q>> /\ Answer(out[1], q, ns)
  BY DEF Handled
<1>2. in \in Seq(Received) /\ out \in Seq(Sent) /\ Len(in) \in Nat /\ Len(out) \in Nat
  BY DEF Types
<1>3. /\ Len(out') = Len(out) - k /\ DOMAIN out' = 1 .. Len(out) - k
      /\ \A i \in 1 .. Len(out) - k : out'[i] = out[i + k]
  BY <1>1, <1>2, Rest
<1>4. \A i \in 1 .. Len(out) - k : i + k \in DOMAIN out
  BY <1>1, <1>2
<1> DEFINE Put == /\ ps \in Seq(Received) /\ Len(in') = Len(in) + Len(ps) /\ Len(ps) \in 0 .. 1
                  /\ DOMAIN in' = 1 .. Len(in')
                  /\ \A i \in DOMAIN in' :
                       \/ i \in DOMAIN in /\ in'[i] = in[i]
                       \/ ps = <<in'[i]>> /\ Answer(out[1], in'[i], ns) /\ i = Len(in) + 1
                  /\ \A i \in DOMAIN in : i \in DOMAIN in' /\ in'[i] = in[i]
                  /\ \A x : ps = <<x>> => Len(in) + 1 \in DOMAIN in' /\ in'[Len(in) + 1] = x
<1>5. ASSUME ps = <<>> PROVE Put
  <2>1. in' = in /\ Len(ps) = 0 /\ ps \in Seq(Received) /\ \A q : ps # <<q>>
    BY <1>1, <1>2, <1>5, ConcatEmptySeq
  <2>2. Put
    BY <1>2, <2>1
  <2> QED BY <2>2
<1>6. ASSUME NEW q, ps = <<q>>, Answer(out[1], q, ns)
      PROVE  Put
  <2>1. q \in Received
    BY <1>6 DEF Answer
  <2>2. /\ Len(in') = Len(in) + 1 /\ DOMAIN in' = 1 .. Len(in) + 1
        /\ \A i \in 1 .. Len(in) : in'[i] = in[i]
        /\ in'[Len(in) + 1] = q
    BY <1>1, <1>2, <1>6, <2>1, Behind1
  <2>3. ps \in Seq(Received) /\ Len(ps) = 1
    BY <1>6, <2>1
  <2>4. ASSUME NEW i \in DOMAIN in'
        PROVE  \/ i \in DOMAIN in /\ in'[i] = in[i]
               \/ ps = <<in'[i]>> /\ Answer(out[1], in'[i], ns) /\ i = Len(in) + 1
    <3>1. CASE i \in 1 .. Len(in)
      BY <1>2, <2>2, <3>1
    <3>2. CASE i = Len(in) + 1
      BY <1>6, <2>2, <3>2
    <3> QED BY <1>2, <2>2, <3>1, <3>2
  <2>5. \A i \in DOMAIN in : i \in DOMAIN in' /\ in'[i] = in[i]
    BY <1>2, <2>2
  <2>6. \A x : ps = <<x>> => Len(in) + 1 \in DOMAIN in' /\ in'[Len(in) + 1] = x
    BY <1>2, <1>6, <2>2
  <2> QED BY <2>2, <2>3, <2>4, <2>5, <2>6
<1>7. Put
  BY <1>1, <1>5, <1>6
<1> HIDE DEF Put
<1>8. DOMAIN out = 1 .. Len(out) /\ DOMAIN in = 1 .. Len(in)
  BY <1>2
<1> QED BY <1>1, <1>2, <1>3, <1>4, <1>7, <1>8 DEF Put

\* A packet taken is an end of the silence, on both sides where it is answered.
LEMMA KBrokerHandle ==
  ASSUME SInv, KInv, setting' = setting, NEW k, NEW ps, NEW ns, Handled(k, ps, ns)
  PROVE  KInv'
<1>1. Types
  BY DEF SInv
<1>2. /\ in' = in \o ps /\ Len(in') = Len(in) + Len(ps) /\ Len(in) \in Nat /\ Len(ps) \in 0 .. 1
      /\ \A i \in DOMAIN in' : \/ i \in DOMAIN in /\ in'[i] = in[i]
                               \/ ps = <<in'[i]>> /\ Answer(out[1], in'[i], ns) /\ i = Len(in) + 1
      /\ k \in 1 .. 2 /\ k <= Len(out) /\ Len(out') = Len(out) - k
      /\ DOMAIN out' = 1 .. Len(out) - k
      /\ DOMAIN out = 1 .. Len(out) /\ DOMAIN in = 1 .. Len(in) /\ DOMAIN in' = 1 .. Len(in')
      /\ \A i \in 1 .. Len(out) - k : out'[i] = out[i + k] /\ i + k \in DOMAIN out
      /\ Len(out) \in Nat
  BY <1>1, HandledLeaves
<1>3. /\ ~ Dark /\ ~ Dark'
      /\ UNCHANGED <<connected, sincePing, sinceRx, polled, call, stream, calls, txPacketId>>
      /\ taken' = taken \cup ns /\ silent' = 0
      /\ k = 2 => out[2].type = "payload"
      /\ k = 2 <=> out[1].type \in Headers
      /\ \/ ps = <<>> /\ out[1].type \in {"publish", "header"}
         \/ \E q : ps = <<q>> /\ Answer(out[1], q, ns)
  BY DEF Handled, Dark
<1>4. 1 \in DOMAIN out
  BY <1>2
<1>5. \A i \in DOMAIN out' : i + k \in DOMAIN out /\ out'[i] = out[i + k]
  BY <1>2
<1>6. ASSUME call.for = "connack"
      PROVE  Connacking' /\ OneAnswer'
  <2>1. /\ Len(in) + Len(out) <= 1 /\ txPacketId = 0 /\ ~ connected
        /\ out[1].type = "connect" /\ out[1].n = calls
    BY <1>4, <1>6 DEF KInv, Connacking
  <2>2. Len(out) = 1 /\ Len(in) = 0 /\ k = 1 /\ Len(out') = 0
    BY ONLY <1>2, <2>1
  <2>3. PICK q : ps = <<q>> /\ Answer(out[1], q, ns)
    BY <1>3, <2>1
  <2>4. q.type = "connack" /\ (q.n = 0 => ns = {calls})
    BY <2>1, <2>3 DEF Answer, Requests
  <2>5. Len(ps) = 1 /\ Len(in') = 1 /\ DOMAIN in' = 1 .. 1
    BY <1>2, <2>2, <2>3
  <2>6. in'[1] = q
    <3>1. ps = <<in'[1]>>
      BY <1>2, <2>2, <2>5
    <3> QED BY <2>3, <3>1
  <2>7. DOMAIN out' = {}
    BY <1>2, <2>2
  <2>8. Connacking'
    <3>1. txPacketId' = 0 /\ ~ connected' /\ Len(in') + Len(out') <= 1 /\ call' = call
      BY <1>3, <2>1, <2>2, <2>5
    <3>2. \A i \in DOMAIN in' : in'[i].type = "connack" /\ (in'[i].n = 0 => calls \in ns)
      BY <2>4, <2>5, <2>6
    <3>3. \A i \in DOMAIN in' : in'[i].type = "connack" /\ (in'[i].n = 0 => calls' \in taken')
      BY <1>3, <3>2
    <3>4. \A i \in DOMAIN out' : out'[i].type = "connect" /\ out'[i].n = calls'
      BY <2>7
    <3> QED BY <1>6, <3>1, <3>3, <3>4 DEF Connacking
  <2>9. OneAnswer'
    BY <1>3, <2>2, <2>5 DEF OneAnswer
  <2> QED BY <2>8, <2>9
<1>7. ASSUME call.for # "connack"
      PROVE  Connacking' /\ OneAnswer'
  <2>1. /\ \A i \in DOMAIN in : in[i].type # "connack"
        /\ \A i \in DOMAIN out : out[i].type # "connect"
    BY <1>7 DEF KInv, Connacking
  <2>2. out[1].type # "connect"
    BY <1>4, <2>1
  <2>3. \A q : Answer(out[1], q, ns) => q.type # "connack"
    BY <2>2 DEF Answer, Acks
  <2>4. \A i \in DOMAIN in' : in'[i].type # "connack"
    BY <1>2, <2>1, <2>3
  <2>5. \A i \in DOMAIN out' : out'[i].type # "connect"
    BY <1>5, <2>1
  <2> QED BY <1>3, <1>7, <2>4, <2>5 DEF Connacking, OneAnswer
<1>8. Silence'
  BY <1>3 DEF KInv, Silence
<1>9. ASSUME HasPing(out), ~ HasPing(out') PROVE in' # <<>>
  <2>1. PICK i \in DOMAIN out : out[i].type = "pingreq"
    BY <1>9 DEF HasPing
  <2>2. i <= k
    <3>1. ASSUME i > k PROVE FALSE
      <4>0. i \in 1 .. Len(out) /\ k \in 1 .. 2 /\ Len(out) \in Nat /\ k <= Len(out)
        BY <1>2, <2>1
      <4>1. (i - k) + k = i /\ i - k \in 1 .. Len(out) - k
        BY ONLY <3>1, <4>0
      <4>2. i - k \in DOMAIN out' /\ out'[i - k] = out[i]
        BY <1>2, <4>1
      <4> QED BY <1>9, <2>1, <4>2 DEF HasPing
    <3> QED BY <1>2, <2>1, <3>1
  <2>3. out[1].type = "pingreq"
    <3>1. i = 1 \/ (i = 2 /\ k = 2)
      BY ONLY <1>2, <2>1, <2>2
    <3> QED BY <1>3, <2>1, <3>1
  <2>4. ps # <<>>
    BY <1>3, <2>3
  <2>5. Len(ps) = 1
    BY <1>3, <2>4
  <2> QED BY <1>2, <2>5
<1>10. in # <<>> => in' # <<>>
  BY <1>2
<1>11. Heard'
  <2>1. KeepAlive \in Nat /\ sincePing \in Nat /\ sinceRx \in Nat /\ Timely' = Timely
    BY <1>1, SessionAssumption, LimitsStay DEF Types
  <2>2. Heard /\ ~ Dark
    BY <1>3 DEF KInv
  <2> QED BY <1>3, <1>9, <1>10, <2>1, <2>2 DEF Heard
<1>12. Unended'
  <2>1. ASSUME stream.open PROVE Ends(out')
    <3>1. PICK i \in DOMAIN out : /\ out[i].type \in Headers
                                  /\ \A j \in i + 1 .. Len(out) : out[j].type = "pingreq"
      BY <1>3, <2>1 DEF KInv, Unended, Ends
    <3>2. i > k
      <4>1. CASE i = 1
        <5>1. k = 2
          BY <1>3, <3>1, <4>1
        <5>2. 2 \in i + 1 .. Len(out)
          BY <1>2, <4>1, <5>1
        <5> QED BY <1>3, <3>1, <5>1, <5>2
      <4>2. CASE i = 2 /\ k = 2
        BY <1>3, <3>1, <4>2 DEF Headers
      <4> QED BY <1>2, <3>1, <4>1, <4>2
    <3>3. i - k \in DOMAIN out' /\ out'[i - k] = out[i]
      <4>1. i - k \in 1 .. Len(out) - k /\ (i - k) + k = i
        BY <1>2, <3>1, <3>2
      <4> QED BY <1>2, <4>1
    <3>4. ASSUME NEW j \in (i - k) + 1 .. Len(out') PROVE out'[j].type = "pingreq"
      <4>1. j \in 1 .. Len(out) - k /\ j + k \in i + 1 .. Len(out)
        BY <1>2, <3>1, <3>2, <3>4
      <4>2. out'[j] = out[j + k] /\ out[j + k].type = "pingreq"
        BY <1>2, <3>1, <4>1
      <4> QED BY <4>2
    <3> QED BY <3>1, <3>3, <3>4 DEF Ends
  <2> QED BY <1>3, <2>1 DEF Unended
<1> QED BY <1>6, <1>7, <1>8, <1>11, <1>12 DEF KInv

\* A connection that breaks: what was measured stays.
LEMMA KBrokerCloses ==
  ASSUME SInv, KInv, setting' = setting, BrokerCloses \/ Cut
  PROVE  KInv'
<1>1. /\ out' = <<>> /\ (in' = in \/ in' = <<>>) /\ Dark'
      /\ UNCHANGED <<connected, txPacketId, call, stream, taken, calls>>
      /\ UNCHANGED <<sincePing, sinceRx, polled, silent>>
  BY DEF BrokerCloses, Cut, times, Dark
<1>2. in \in Seq(Received) /\ out \in Seq(Sent)
  BY DEF SInv, Types
<1>3. Connacking'
  <2>1. CASE call.for = "connack"
    <3>1. Len(in') + Len(out') <= 1
      <4>1. Len(in) \in Nat /\ Len(out) \in Nat /\ Len(in) + Len(out) <= 1
        BY <1>2, <2>1 DEF KInv, Connacking
      <4>2. Len(out') = 0 /\ (Len(in') = Len(in) \/ Len(in') = 0)
        BY <1>1
      <4> QED BY <4>1, <4>2
    <3> QED BY <1>1, <2>1, <3>1 DEF KInv, Connacking
  <2>2. CASE call.for # "connack"
    BY <1>1, <2>2 DEF KInv, Connacking
  <2> QED BY <2>1, <2>2
<1>4. Silence'
  BY <1>1 DEF KInv, Silence
<1>5. Heard' /\ OneAnswer' /\ Unended'
  BY <1>1 DEF Heard, OneAnswer, Unended
<1> QED BY <1>3, <1>4, <1>5 DEF KInv

\* Time goes on: on a timely network nothing is left to answer but what the sketch has
\* begun.
LEMMA KTick ==
  ASSUME SInv, KInv, setting' = setting, Tick
  PROVE  KInv'
<1>1. Types
  BY DEF SInv
<1>2. /\ polled' = FALSE /\ sincePing' = Older(sincePing, 2 * KeepAlive)
      /\ sinceRx' = Older(sinceRx, 2 * KeepAlive + 2) /\ silent' = Older(silent, 2 * KeepAlive + 2)
      /\ UNCHANGED <<sock, in, out, cut, connected, txPacketId, call, stream, taken, calls>>
      /\ connected \/ call # NoCall => polled
      /\ Timely => ~ Answerable
  BY DEF Tick, link
<1>3. /\ KeepAlive \in Nat /\ KeepAlive > 1 /\ Timely' = Timely
      /\ sincePing \in Nat /\ sinceRx \in Nat /\ silent \in Nat
      /\ in \in Seq(Received) /\ out \in Seq(Sent)
  BY <1>1, SessionAssumption, LimitsStay DEF Types
<1>4. /\ sincePing' \in Nat /\ sincePing' >= sincePing /\ sincePing' <= sincePing + 1
      /\ sincePing < 2 * KeepAlive => sincePing' = sincePing + 1
      /\ sinceRx' \in Nat /\ sinceRx' <= sinceRx + 1
      /\ silent' \in Nat /\ silent' <= silent + 1
  <2>1. 2 * KeepAlive \in Nat /\ 2 * KeepAlive + 2 \in Nat
    BY <1>3
  <2> QED BY <1>2, <1>3, <2>1, OlderIs
<1>5. Connacking'
  BY <1>2 DEF KInv, Connacking
<1>6. Silence'
  <2>1. ASSUME connected
        PROVE  /\ sinceRx <= 2 * KeepAlive
               /\ sinceRx = 2 * KeepAlive => sincePing = 0
    <3>1. polled /\ Silence
      BY <1>2, <2>1 DEF KInv
    <3> QED BY <1>3, <2>1, <3>1 DEF Silence
  <2>2. ASSUME connected
        PROVE  /\ sinceRx' <= 2 * KeepAlive + 1
               /\ sinceRx' = 2 * KeepAlive + 1 => sincePing' <= 1
    BY <1>3, <1>4, <2>1, <2>2
  <2> QED BY <1>2, <2>2 DEF Silence
<1>7. ASSUME Timely, ~ Dark, in # <<>> \/ (out # <<>> /\ ~ (stream.open /\ Len(out) = 1))
      PROVE  FALSE
  BY <1>2, <1>7 DEF Answerable, Dark
<1>8. ASSUME Timely, ~ Dark, HasPing(out)
      PROVE  FALSE
  <2>1. out # <<>> /\ stream.open /\ Len(out) = 1
    BY <1>3, <1>7, <1>8 DEF HasPing
  <2>2. PICK i \in DOMAIN out : out[i].type \in Headers
    BY <1>8, <2>1 DEF KInv, Unended, Ends
  <2>3. PICK j \in DOMAIN out : out[j].type = "pingreq"
    BY <1>8 DEF HasPing
  <2>4. i = 1 /\ j = 1
    BY <1>3, <2>1, <2>2, <2>3
  <2> QED BY <2>2, <2>3, <2>4 DEF Headers
<1>9. Heard'
  <2>1. ASSUME Timely, connected, ~ Dark
        PROVE  /\ silent' <= KeepAlive /\ sinceRx' <= KeepAlive
               /\ silent' <= sincePing' /\ sinceRx' <= sincePing'
    <3>1. in = <<>> /\ ~ HasPing(out)
      BY <1>7, <1>8, <2>1
    <3>2. /\ silent <= sincePing /\ sinceRx <= sincePing
          /\ sincePing < KeepAlive \/ (silent = 0 /\ sinceRx = 0)
      BY <1>2, <2>1, <3>1 DEF KInv, Heard
    <3> QED BY <1>3, <1>4, <3>2
  <2>2. Dark' = Dark
    BY <1>2 DEF Dark
  <2> QED BY <1>2, <1>3, <2>1, <2>2 DEF Heard
<1>10. OneAnswer'
  <2>1. ASSUME Timely, call.for = "connack", ~ Dark PROVE FALSE
    <3>1. Len(in) + Len(out) = 1 /\ ~ stream.open
      BY <2>1 DEF KInv, OneAnswer, SInv, Calling
    <3>2. in # <<>> \/ out # <<>>
      BY <3>1
    <3> QED BY <1>7, <2>1, <3>1, <3>2
  <2> QED BY <1>2, <1>3, <2>1 DEF OneAnswer, Dark
<1>11. Unended'
  BY <1>2 DEF KInv, Unended, Dark
<1> QED BY <1>5, <1>6, <1>9, <1>10, <1>11 DEF KInv

\* The account of the silence holds at the start.
LEMMA KInit ==
  ASSUME Init
  PROVE  KInv
<1>1. call.for = "nothing" /\ ~ connected /\ ~ stream.open /\ in = <<>> /\ out = <<>>
  BY DEF Init, NoCall, NoStream
<1>2. Connacking
  BY <1>1 DEF Connacking
<1> QED BY <1>1, <1>2 DEF KInv, Silence, Heard, OneAnswer, Unended

\* Every step keeps the account of the silence.
LEMMA KNext ==
  ASSUME SInv, KInv, [Next]_<<setting, vars>>
  PROVE  KInv'
<1>1. Types /\ (Dark => out = <<>>)
  BY DEF SInv, Framed
<1>2. CASE UNCHANGED <<setting, vars>>
  <2>1. /\ UNCHANGED <<setting, sock, in, out, cut, sincePing, sinceRx, polled, silent>>
        /\ UNCHANGED <<connected, txPacketId, call, stream, taken, calls>>
    BY <1>2 DEF vars, link, times
  <2> QED BY <2>1, LimitsStay DEF KInv, Connacking, Silence, Heard, OneAnswer, Unended, Dark
<1>3. CASE Next
  <2>1. setting' = setting
    BY <1>3 DEF Next
  <2>2. ASSUME Subscribe \/ Unsubscribe \/ \E qos \in 0 .. 2 : Publish(qos) \/ BeginStream(qos)
        PROVE  KInv'
    BY <1>1, <2>1, <2>2, NewCallIs, KNewCall
  <2>3. ASSUME BrokerHandle PROVE KInv'
    BY <1>1, <2>1, <2>3, HandleIs, KBrokerHandle
  <2> QED
    BY <1>3, <2>1, <2>2, <2>3, KPoll, KWaitOn, KAnswered, KGivesUp, KConnect, KEndStream,
       KDisconnect,
       KBrokerCloses, KTick DEF Next, Client, Caller, Network
<1> QED BY <1>2, <1>3

\* On a timely network the broker hears the client before it would drop the session; on
\* any network a path that went silent is noticed in time.
THEOREM KeepaliveIsKept == Spec => []KeepaliveHolds
<1>1. SInv /\ KInv => KeepaliveHolds
  <2> SUFFICES ASSUME SInv, KInv PROVE KeepaliveHolds
    OBVIOUS
  <2>1. KeepAlive \in Nat /\ KeepAlive > 1 /\ sinceRx \in Nat /\ silent \in Nat
    BY SessionAssumption DEF SInv, Types
  <2>2. BrokerHears
    BY <2>1 DEF BrokerHears, KInv, Heard, Dark
  <2>3. DeadPeerFound
    BY <2>1 DEF DeadPeerFound, KInv, Silence
  <2> QED BY <2>2, <2>3 DEF KeepaliveHolds
<1>2. Init => SInv /\ KInv
  BY SInit, KInit
<1>3. SInv /\ KInv /\ [Next]_<<setting, vars>> => SInv' /\ KInv'
  BY SNext, KNext
<1> QED BY <1>1, <1>2, <1>3, PTL DEF Spec

\* poll() gives up no connection whose broker answers in time.
THEOREM LivingIsKept == Spec => NoFalseStop
<1>1. ASSUME SInv, KInv, Timely, Poll, sock, ~ cut PROVE sock'
  <2>1. Types /\ (Dark => out = <<>>) /\ KeepAlive \in Nat /\ KeepAlive > 1
    BY <1>1, SessionAssumption DEF SInv, Framed
  <2>2. Polls(<<>>) /\ ~ Dark
    BY <1>1, <2>1, PollStepIs DEF Poll, Dark
  <2>3. ASSUME connected, Age >= 2 * KeepAlive PROVE FALSE
    <3>1. sinceRx <= KeepAlive /\ sinceRx \in Nat
      BY <1>1, <2>1, <2>2, <2>3 DEF KInv, Heard, Types
    <3>2. Age <= KeepAlive /\ Age \in Nat
      BY <2>1, <3>1 DEF Age
    <3> QED BY <2>1, <2>3, <3>2
  <2>4. \E ps : Sends(ps)
    BY <2>2, <2>3 DEF Polls
  <2> QED BY <2>2, <2>4 DEF Sends
<1>2. SInv /\ KInv => [Timely /\ Poll /\ sock /\ ~ cut => sock']_<<setting, vars>>
  BY <1>1
<1>3. Init => SInv /\ KInv
  BY SInit, KInit
<1>4. SInv /\ KInv /\ [Next]_<<setting, vars>> => SInv' /\ KInv'
  BY SNext, KNext
<1> QED BY <1>2, <1>3, <1>4, PTL DEF Spec, NoFalseStop

-----------------------------------------------------------------------------
(* The invariant of what calls report                                      *)
-----------------------------------------------------------------------------
\* Enough packet ids: more than two, and two more than there can be packets under way
\* when time goes on.
Wide == MaxId >= 3 /\ (~ Timely => MaxId >= MaxLate + 2)

\* How many packet ids ago id was given, when tx is the last of the m ids.
Gap(id, tx, m) == IF id <= tx THEN tx - id ELSE (tx - id) + m

\* The packets of s are not older than b ids.
Near(s, tx, m, b) == \A i \in DOMAIN s : s[i].id # 0 => tx > 0 /\ Gap(s[i].id, tx, m) <= b
\* Nothing of s was sent before what is in r.
Falls(r, s, tx, m) ==
  \A i \in DOMAIN r, j \in DOMAIN s :
    r[i].id # 0 /\ s[j].id # 0 => Gap(r[i].id, tx, m) >= Gap(s[j].id, tx, m)
Sorted(s, tx, m) ==
  \A i, j \in DOMAIN s :
    i < j /\ s[i].id # 0 /\ s[j].id # 0 => Gap(s[i].id, tx, m) >= Gap(s[j].id, tx, m)
\* A packet of s, from position k on, that was given its id e ids ago.
Holds(s, k, e, tx, m) == \E j \in DOMAIN s : j >= k /\ s[j].id # 0 /\ Gap(s[j].id, tx, m) = e
\* Of all the ids given since a packet of r or s there is a packet.
NoGaps(r, s, tx, m) ==
  /\ \A i \in DOMAIN r : r[i].id # 0 =>
       \A e \in 0 .. Gap(r[i].id, tx, m) : Holds(r, 1, e, tx, m) \/ Holds(s, 1, e, tx, m)
  /\ \A i \in DOMAIN s : s[i].id # 0 =>
       \A e \in 0 .. Gap(s[i].id, tx, m) : Holds(s, i, e, tx, m)

\* The call that is under way has waited through a unit, or has given up PUBREC.
Lapsed == waited > 0 \/ call.for = "pubcomp"
Oldest == MaxId - 3 + (IF Busy /\ ~ Lapsed THEN 1 ELSE 0) + (IF Dark /\ ~ polled THEN 1 ELSE 0)
LineOf(r, s, tx, m, b) ==
  /\ Near(r, tx, m, b) /\ Near(s, tx, m, b) /\ Falls(r, s, tx, m) /\ Sorted(s, tx, m)
  /\ NoGaps(r, s, tx, m)
Lined == IF Dark THEN out = <<>> /\ Near(in, txPacketId, MaxId, Oldest)
                 ELSE LineOf(in, out, txPacketId, MaxId, Oldest)

\* What is under way for the call, or was done for it.
Message2(p, tx) == p.id = tx /\ p.type \in {"publish2", "header2"}
TrueIn ==
  \A i \in DOMAIN in :
    in[i].id = txPacketId => calls \in taken \/ (in[i].type = "suback" /\ in[i].n = 128)
TrueOut ==
  \A j \in DOMAIN out :
    out[j].id = txPacketId =>
      IF out[j].type = "pubrel"
      THEN calls \in taken \/ \E i \in 1 .. j - 1 : Message2(out[i], txPacketId)
      ELSE out[j].n = calls
\* Behind the header of a message of quality 2 there are only pings.
Begun2(s, tx) ==
  \E i \in DOMAIN s : /\ Message2(s[i], tx) /\ s[i].type = "header2"
                      /\ \A k \in i + 1 .. Len(s) : s[k].type = "pingreq"
OnItsWay ==
  /\ call.for = "pubrec" => calls \in taken \/ \E i \in DOMAIN out : Message2(out[i], txPacketId)
  /\ stream.open /\ stream.qos = 2 => Begun2(out, txPacketId)
OwnTrue == Busy => TrueIn /\ TrueOut /\ (~ Dark => OnItsWay)
TInv == Wide /\ Lined /\ OwnTrue /\ TrueMeansDone

-----------------------------------------------------------------------------
(* Packet ids                                                              *)
-----------------------------------------------------------------------------
\* The id given next is behind none of the ids but the oldest, and all others are one
\* further behind it.
LEMMA GapIs ==
  ASSUME NEW m \in Nat, m >= 2, NEW tx \in 1 .. m, NEW id \in 1 .. m
  PROVE  /\ Gap(id, tx, m) \in 0 .. m - 1
         /\ Gap(id, tx, m) = 0 <=> id = tx
BY DEF Gap

\* One more id is given: every id but the oldest is one further behind.
LEMMA GapNext ==
  ASSUME NEW m \in Nat, m >= 2, NEW tx \in 1 .. m, NEW id \in 1 .. m, NEW next,
         next = IF tx = m THEN 1 ELSE tx + 1,
         Gap(id, tx, m) <= m - 2
  PROVE  next \in 1 .. m /\ Gap(id, next, m) = Gap(id, tx, m) + 1
BY DEF Gap

\* As many positions as there are numbers that stand in one.
Onto(g, n, b) == \A e \in 0 .. b : \E x \in 1 .. n : g[x] = e

\* Each number from 0 to b stands in one of n places: there are more places than b.
LEMMA Pigeons ==
  ASSUME NEW b \in Nat, NEW n \in Nat, NEW g, Onto(g, n, b)
  PROVE  b + 1 <= n
<1> DEFINE f == [e \in 0 .. b |-> CHOOSE x \in 1 .. n : g[x] = e]
<1>1. \A e \in 0 .. b : f[e] \in 1 .. n /\ g[f[e]] = e
  BY DEF Onto
<1>2. f \in [0 .. b -> 1 .. n]
  BY <1>1
<1>3. \A e1, e2 \in 0 .. b : f[e1] = f[e2] => e1 = e2
  BY <1>1
<1> HIDE DEF f
<1>4. f \in Injection(0 .. b, 1 .. n)
  BY <1>2, <1>3 DEF Injection, IsInjective
<1>5. IsFiniteSet(1 .. n) /\ Cardinality(1 .. n) = n /\ Cardinality(0 .. b) = b + 1
  <2>1. IsFiniteSet(1 .. n) /\ Cardinality(1 .. n) = IF 1 > n THEN 0 ELSE n - 1 + 1
    BY FS_Interval
  <2>2. Cardinality(0 .. b) = IF 0 > b THEN 0 ELSE b - 0 + 1
    BY FS_Interval
  <2> QED BY <2>1, <2>2
<1>6. Cardinality(0 .. b) <= Cardinality(1 .. n)
  BY <1>4, <1>5, FS_Injection
<1> QED BY <1>5, <1>6

\* Packets without gaps are not older than there are packets.
LEMMA NoGapsIsShort ==
  ASSUME NEW S, NEW r \in Seq(S), NEW s \in Seq(S), NEW tx, NEW m, NoGaps(r, s, tx, m),
         \A i \in DOMAIN r : r[i].id # 0 => Gap(r[i].id, tx, m) \in Nat,
         \A i \in DOMAIN s : s[i].id # 0 => Gap(s[i].id, tx, m) \in Nat
  PROVE  /\ \A i \in DOMAIN r : r[i].id # 0 => Gap(r[i].id, tx, m) + 1 <= Len(r) + Len(s)
         /\ \A i \in DOMAIN s : s[i].id # 0 => Gap(s[i].id, tx, m) + 1 <= Len(r) + Len(s)
<1> DEFINE g == [x \in 1 .. Len(r) + Len(s) |-> IF x <= Len(r) THEN Gap(r[x].id, tx, m)
                                                ELSE Gap(s[x - Len(r)].id, tx, m)]
<1>1. /\ Len(r) \in Nat /\ Len(s) \in Nat /\ Len(r) + Len(s) \in Nat
      /\ DOMAIN r = 1 .. Len(r) /\ DOMAIN s = 1 .. Len(s)
  OBVIOUS
<1>2. ASSUME NEW e, NEW k, Holds(r, 1, e, tx, m) \/ Holds(s, k, e, tx, m)
      PROVE  \E x \in 1 .. Len(r) + Len(s) : g[x] = e
  <2>1. ASSUME NEW j \in DOMAIN r, Gap(r[j].id, tx, m) = e
        PROVE  \E x \in 1 .. Len(r) + Len(s) : g[x] = e
    <3>1. j \in 1 .. Len(r) + Len(s) /\ j <= Len(r)
      BY <1>1, <2>1
    <3>2. g[j] = e
      BY <2>1, <3>1
    <3> QED BY <3>1, <3>2
  <2>2. ASSUME NEW j \in DOMAIN s, Gap(s[j].id, tx, m) = e
        PROVE  \E x \in 1 .. Len(r) + Len(s) : g[x] = e
    <3>1. /\ Len(r) + j \in 1 .. Len(r) + Len(s) /\ ~ (Len(r) + j <= Len(r))
          /\ (Len(r) + j) - Len(r) = j
      BY <1>1, <2>2
    <3>2. g[Len(r) + j] = e
      BY <2>2, <3>1
    <3> QED BY <3>1, <3>2
  <2> QED BY <1>2, <2>1, <2>2 DEF Holds
<1> HIDE DEF g
<1>3. ASSUME NEW b \in Nat,
             \A e \in 0 .. b : \E k : Holds(r, 1, e, tx, m) \/ Holds(s, k, e, tx, m)
      PROVE  b + 1 <= Len(r) + Len(s)
  <2>1. \A e \in 0 .. b : \E x \in 1 .. Len(r) + Len(s) : g[x] = e
    BY <1>2, <1>3
  <2>2. PICK n \in Nat : n = Len(r) + Len(s)
    BY <1>1
  <2>3. Onto(g, n, b)
    BY <2>1, <2>2 DEF Onto
  <2>4. b + 1 <= n
    BY <1>3, <2>3, Pigeons
  <2> QED BY <2>2, <2>4
<1>4. ASSUME NEW i \in DOMAIN r, r[i].id # 0
      PROVE  Gap(r[i].id, tx, m) + 1 <= Len(r) + Len(s)
  <2>1. \A e \in 0 .. Gap(r[i].id, tx, m) : Holds(r, 1, e, tx, m) \/ Holds(s, 1, e, tx, m)
    BY <1>4 DEF NoGaps
  <2> QED BY <1>3, <1>4, <2>1
<1>5. ASSUME NEW i \in DOMAIN s, s[i].id # 0
      PROVE  Gap(s[i].id, tx, m) + 1 <= Len(r) + Len(s)
  <2>1. \A e \in 0 .. Gap(s[i].id, tx, m) : Holds(s, i, e, tx, m)
    BY <1>5 DEF NoGaps
  <2> QED BY <1>3, <1>5, <2>1
<1> QED BY <1>4, <1>5

-----------------------------------------------------------------------------
(* The line of packets, as a step leaves it                                *)
-----------------------------------------------------------------------------
\* The ids of packets under way.
LEMMA IdsUnderWay ==
  ASSUME Types
  PROVE  /\ \A i \in DOMAIN in : in[i].id \in 0 .. MaxId
         /\ \A i \in DOMAIN out : out[i].id \in 0 .. MaxId
         /\ MaxId \in Nat /\ txPacketId \in 0 .. MaxId
         /\ Wide => MaxId >= 3
<1>1. MaxId \in Nat /\ txPacketId \in 0 .. MaxId
  BY IdsAreValid DEF Types
<1>2. ASSUME NEW i \in DOMAIN in PROVE in[i].id \in 0 .. MaxId
  <2>1. in[i] \in Received
    BY DEF Types
  <2> QED BY <1>1, <2>1 DEF Received
<1>3. ASSUME NEW i \in DOMAIN out PROVE out[i].id \in 0 .. MaxId
  <2>1. out[i] \in Sent
    BY DEF Types
  <2> QED BY <1>1, <2>1 DEF Sent
<1> QED BY <1>1, <1>2, <1>3 DEF Wide

\* Nothing under way with an id.
LEMMA LineOfNone ==
  ASSUME NEW r, NEW s, NEW tx, NEW m, NEW b,
         \A i \in DOMAIN r : r[i].id = 0, \A i \in DOMAIN s : s[i].id = 0
  PROVE  LineOf(r, s, tx, m, b)
BY DEF LineOf, Near, Falls, Sorted, NoGaps

\* What has come is read.
LEMMA LineRead ==
  ASSUME NEW r, NEW s, NEW tx, NEW m, NEW b, LineOf(r, s, tx, m, b)
  PROVE  LineOf(<<>>, s, tx, m, b)
BY DEF LineOf, Near, Falls, NoGaps

\* The gaps of a line.
LEMMA GapsOf ==
  ASSUME NEW m \in Nat, m >= 2, NEW tx \in 0 .. m, NEW b, NEW s,
         \A i \in DOMAIN s : s[i].id \in 0 .. m, Near(s, tx, m, b)
  PROVE  \A i \in DOMAIN s : s[i].id # 0 =>
           /\ tx \in 1 .. m /\ s[i].id \in 1 .. m
           /\ Gap(s[i].id, tx, m) \in 0 .. m - 1 /\ Gap(s[i].id, tx, m) \in Nat
           /\ Gap(s[i].id, tx, m) <= b
<1> TAKE i \in DOMAIN s
<1> HAVE s[i].id # 0
<1>1. tx \in 1 .. m /\ s[i].id \in 1 .. m /\ Gap(s[i].id, tx, m) <= b
  BY DEF Near
<1>2. Gap(s[i].id, tx, m) \in 0 .. m - 1
  BY <1>1, GapIs
<1>3. Gap(s[i].id, tx, m) \in Nat
  BY <1>2
<1> QED BY <1>1, <1>2, <1>3

\* A later bound.
LEMMA NearStays ==
  ASSUME NEW m \in Nat, m >= 2, NEW tx \in 0 .. m, NEW b \in Int, NEW c \in Int, NEW s,
         \A i \in DOMAIN s : s[i].id \in 0 .. m, Near(s, tx, m, b),
         b <= c \/ \A i \in DOMAIN s : s[i].id # 0 => Gap(s[i].id, tx, m) <= c
  PROVE  Near(s, tx, m, c)
<1> SUFFICES ASSUME NEW i \in DOMAIN s, s[i].id # 0
             PROVE  tx > 0 /\ Gap(s[i].id, tx, m) <= c
  BY DEF Near
<1>1. tx \in 1 .. m /\ Gap(s[i].id, tx, m) \in Nat /\ Gap(s[i].id, tx, m) <= b
  BY GapsOf
<1> QED BY <1>1

\* Packets that have no id, or the id given last, are sent.
LEMMA LineGrows ==
  ASSUME NEW R, NEW r \in Seq(R), NEW S, NEW s \in Seq(S), NEW ps \in Seq(S),
         NEW m \in Nat, m >= 2, NEW tx \in 0 .. m, NEW b \in Nat,
         \A i \in DOMAIN r : r[i].id \in 0 .. m, \A i \in DOMAIN s : s[i].id \in 0 .. m,
         \A j \in DOMAIN ps : ps[j].id = 0 \/ (ps[j].id = tx /\ tx > 0),
         LineOf(r, s, tx, m, b)
  PROVE  LineOf(r, s \o ps, tx, m, b)
<1> DEFINE t == s \o ps
<1>1. /\ Len(s) \in Nat /\ Len(ps) \in Nat /\ DOMAIN s = 1 .. Len(s) /\ DOMAIN ps = 1 .. Len(ps)
      /\ DOMAIN t = 1 .. Len(s) + Len(ps)
      /\ \A i \in 1 .. Len(s) : t[i] = s[i]
      /\ \A i \in DOMAIN t : \/ i \in DOMAIN s /\ t[i] = s[i]
                             \/ i - Len(s) \in DOMAIN ps /\ t[i] = ps[i - Len(s)]
  BY Joined
<1> HIDE DEF t
<1>2. ASSUME NEW i \in DOMAIN t, i \notin DOMAIN s, t[i].id # 0
      PROVE  tx > 0 /\ t[i].id = tx /\ Gap(t[i].id, tx, m) = 0
  <2>1. t[i].id = tx /\ tx > 0
    BY <1>1, <1>2
  <2> QED BY <2>1, GapIs
<1>0. /\ Near(r, tx, m, b) /\ Near(s, tx, m, b) /\ Falls(r, s, tx, m) /\ Sorted(s, tx, m)
      /\ NoGaps(r, s, tx, m)
  BY DEF LineOf
<1>3. Near(t, tx, m, b)
  BY <1>0, <1>1, <1>2 DEF Near
<1>4. \A i \in DOMAIN s : s[i].id # 0 => Gap(s[i].id, tx, m) \in Nat
  BY <1>0, GapsOf
<1>5. \A i \in DOMAIN r : r[i].id # 0 => Gap(r[i].id, tx, m) \in Nat
  BY <1>0, GapsOf
<1>6. Falls(r, t, tx, m)
  <2> SUFFICES ASSUME NEW i \in DOMAIN r, NEW j \in DOMAIN t, r[i].id # 0, t[j].id # 0
               PROVE  Gap(r[i].id, tx, m) >= Gap(t[j].id, tx, m)
    BY DEF Falls
  <2>1. CASE j \in DOMAIN s
    BY <1>0, <1>1, <2>1 DEF Falls
  <2>2. CASE j \notin DOMAIN s
    BY <1>2, <1>5, <2>2
  <2> QED BY <2>1, <2>2
<1>7. Sorted(t, tx, m)
  <2> SUFFICES ASSUME NEW i \in DOMAIN t, NEW j \in DOMAIN t, i < j, t[i].id # 0, t[j].id # 0
               PROVE  Gap(t[i].id, tx, m) >= Gap(t[j].id, tx, m)
    BY DEF Sorted
  <2>1. CASE j \in DOMAIN s
    <3>1. i \in DOMAIN s /\ t[i] = s[i] /\ t[j] = s[j]
      BY <1>1, <2>1
    <3> QED BY <1>0, <2>1, <3>1 DEF Sorted
  <2>2. CASE j \notin DOMAIN s
    <3>1. Gap(t[j].id, tx, m) = 0 /\ Gap(t[i].id, tx, m) \in Nat
      BY <1>1, <1>2, <1>4, <2>2
    <3> QED BY <3>1
  <2> QED BY <2>1, <2>2
<1>8. ASSUME NEW k, NEW e, Holds(s, k, e, tx, m)
      PROVE  Holds(t, k, e, tx, m)
  BY <1>1, <1>8 DEF Holds
<1>9. NoGaps(r, t, tx, m)
  <2>1. ASSUME NEW i \in DOMAIN r, r[i].id # 0, NEW e \in 0 .. Gap(r[i].id, tx, m)
        PROVE  Holds(r, 1, e, tx, m) \/ Holds(t, 1, e, tx, m)
    BY <1>0, <1>8, <2>1 DEF NoGaps
  <2>2. ASSUME NEW i \in DOMAIN t, t[i].id # 0, NEW e \in 0 .. Gap(t[i].id, tx, m)
        PROVE  Holds(t, i, e, tx, m)
    <3>1. CASE i \in DOMAIN s
      <4>1. t[i] = s[i]
        BY <1>1, <3>1
      <4>2. Holds(s, i, e, tx, m)
        BY <1>0, <2>2, <3>1, <4>1 DEF NoGaps
      <4> QED BY <1>8, <4>2
    <3>2. CASE i \notin DOMAIN s
      <4>1. e = 0 /\ Gap(t[i].id, tx, m) = 0 /\ i \in Nat
        BY <1>1, <1>2, <2>2, <3>2
      <4> QED BY <2>2, <4>1 DEF Holds
    <3> QED BY <3>1, <3>2
  <2> QED BY <2>1, <2>2 DEF NoGaps
<1> QED BY <1>0, <1>3, <1>6, <1>7, <1>9 DEF t, LineOf

\* A packet with the next id is sent.
LEMMA LineNext ==
  ASSUME NEW R, NEW r \in Seq(R), NEW S, NEW s \in Seq(S), NEW p \in S,
         NEW m \in Nat, m >= 2, NEW tx \in 0 .. m, NEW b \in Nat, b <= m - 2,
         \A i \in DOMAIN r : r[i].id \in 0 .. m, \A i \in DOMAIN s : s[i].id \in 0 .. m,
         NEW next, next = IF tx = m THEN 1 ELSE tx + 1, p.id = next,
         LineOf(r, s, tx, m, b)
  PROVE  LineOf(r, s \o <<p>>, next, m, b + 1)
<1> DEFINE t == s \o <<p>>
<1>1. /\ Len(s) \in Nat /\ DOMAIN s = 1 .. Len(s) /\ DOMAIN t = 1 .. Len(s) + 1
      /\ \A i \in 1 .. Len(s) : t[i] = s[i]
      /\ t[Len(s) + 1] = p
  BY Behind1
<1> HIDE DEF t
<1>0. /\ Near(r, tx, m, b) /\ Near(s, tx, m, b) /\ Falls(r, s, tx, m) /\ Sorted(s, tx, m)
      /\ NoGaps(r, s, tx, m)
  BY DEF LineOf
<1>2. next \in 1 .. m /\ Gap(next, next, m) = 0
  BY GapIs
<1>3. \A i \in DOMAIN r : r[i].id # 0 =>
        /\ Gap(r[i].id, tx, m) \in Nat /\ Gap(r[i].id, tx, m) <= b
        /\ Gap(r[i].id, next, m) = Gap(r[i].id, tx, m) + 1
  <2> TAKE i \in DOMAIN r
  <2> HAVE r[i].id # 0
  <2>1. /\ tx \in 1 .. m /\ r[i].id \in 1 .. m /\ Gap(r[i].id, tx, m) \in Nat
        /\ Gap(r[i].id, tx, m) <= b
    BY <1>0, GapsOf
  <2>2. Gap(r[i].id, tx, m) <= m - 2
    BY <2>1
  <2> QED BY <2>1, <2>2, GapNext
<1>4. \A i \in DOMAIN s : s[i].id # 0 =>
        /\ Gap(s[i].id, tx, m) \in Nat /\ Gap(s[i].id, tx, m) <= b
        /\ Gap(s[i].id, next, m) = Gap(s[i].id, tx, m) + 1
  <2> TAKE i \in DOMAIN s
  <2> HAVE s[i].id # 0
  <2>1. /\ tx \in 1 .. m /\ s[i].id \in 1 .. m /\ Gap(s[i].id, tx, m) \in Nat
        /\ Gap(s[i].id, tx, m) <= b
    BY <1>0, GapsOf
  <2>2. Gap(s[i].id, tx, m) <= m - 2
    BY <2>1
  <2> QED BY <2>1, <2>2, GapNext
<1>5. \A i \in DOMAIN t : (i \in DOMAIN s /\ t[i] = s[i]) \/ (i = Len(s) + 1 /\ t[i] = p)
  BY <1>1
<1>6. Near(r, next, m, b + 1) /\ Near(t, next, m, b + 1)
  <2>1. Near(r, next, m, b + 1)
    BY <1>2, <1>3 DEF Near
  <2>2. ASSUME NEW i \in DOMAIN t, t[i].id # 0
        PROVE  next > 0 /\ Gap(t[i].id, next, m) <= b + 1
    BY <1>2, <1>4, <1>5, <2>2
  <2> QED BY <2>1, <2>2 DEF Near
<1>7. Falls(r, t, next, m)
  <2> SUFFICES ASSUME NEW i \in DOMAIN r, NEW j \in DOMAIN t, r[i].id # 0, t[j].id # 0
               PROVE  Gap(r[i].id, next, m) >= Gap(t[j].id, next, m)
    BY DEF Falls
  <2>1. CASE j \in DOMAIN s /\ t[j] = s[j]
    <3>1. Gap(r[i].id, tx, m) >= Gap(s[j].id, tx, m)
      BY <1>0, <2>1 DEF Falls
    <3> QED BY <1>3, <1>4, <2>1, <3>1
  <2>2. CASE t[j] = p
    BY <1>2, <1>3, <2>2
  <2> QED BY <1>5, <2>1, <2>2
<1>8. Sorted(t, next, m)
  <2> SUFFICES ASSUME NEW i \in DOMAIN t, NEW j \in DOMAIN t, i < j, t[i].id # 0, t[j].id # 0
               PROVE  Gap(t[i].id, next, m) >= Gap(t[j].id, next, m)
    BY DEF Sorted
  <2>0. i \in DOMAIN s /\ t[i] = s[i]
    BY <1>1
  <2>1. CASE j \in DOMAIN s /\ t[j] = s[j]
    <3>1. Gap(s[i].id, tx, m) >= Gap(s[j].id, tx, m)
      BY <1>0, <2>0, <2>1 DEF Sorted
    <3> QED BY <1>4, <2>0, <2>1, <3>1
  <2>2. CASE t[j] = p
    BY <1>2, <1>4, <2>0, <2>2
  <2> QED BY <1>5, <2>1, <2>2
<1>9. ASSUME NEW k \in Nat, k <= Len(s) + 1 PROVE Holds(t, k, 0, next, m)
  <2>1. Len(s) + 1 \in DOMAIN t /\ t[Len(s) + 1].id = next /\ next # 0
    BY <1>1, <1>2
  <2> QED BY <1>2, <1>9, <2>1 DEF Holds
<1>10. ASSUME NEW k, NEW e \in Nat, e > 0, Holds(s, k, e - 1, tx, m)
       PROVE  Holds(t, k, e, next, m)
  <2>1. PICK j \in DOMAIN s : j >= k /\ s[j].id # 0 /\ Gap(s[j].id, tx, m) = e - 1
    BY <1>10 DEF Holds
  <2>2. j \in DOMAIN t /\ t[j] = s[j] /\ Gap(s[j].id, next, m) = e
    BY <1>1, <1>4, <2>1
  <2> QED BY <2>1, <2>2 DEF Holds
<1>11. ASSUME NEW e \in Nat, e > 0, Holds(r, 1, e - 1, tx, m)
       PROVE  Holds(r, 1, e, next, m)
  <2>1. PICK j \in DOMAIN r : j >= 1 /\ r[j].id # 0 /\ Gap(r[j].id, tx, m) = e - 1
    BY <1>11 DEF Holds
  <2>2. Gap(r[j].id, next, m) = e
    BY <1>3, <2>1
  <2> QED BY <2>1, <2>2 DEF Holds
<1>12. NoGaps(r, t, next, m)
  <2>1. ASSUME NEW i \in DOMAIN r, r[i].id # 0, NEW e \in 0 .. Gap(r[i].id, next, m)
        PROVE  Holds(r, 1, e, next, m) \/ Holds(t, 1, e, next, m)
    <3>1. CASE e = 0
      BY <1>1, <1>9, <3>1
    <3>2. CASE e > 0
      <4>1. e \in Nat /\ e - 1 \in 0 .. Gap(r[i].id, tx, m)
        BY <1>3, <2>1, <3>2
      <4>2. Holds(r, 1, e - 1, tx, m) \/ Holds(s, 1, e - 1, tx, m)
        BY <1>0, <2>1, <4>1 DEF NoGaps
      <4> QED BY <1>10, <1>11, <3>2, <4>1, <4>2
    <3>3. e \in Nat
      BY <1>3, <2>1
    <3> QED BY <3>1, <3>2, <3>3
  <2>2. ASSUME NEW i \in DOMAIN t, t[i].id # 0, NEW e \in 0 .. Gap(t[i].id, next, m)
        PROVE  Holds(t, i, e, next, m)
    <3>0. i \in Nat /\ i <= Len(s) + 1
      BY <1>1
    <3>1. CASE e = 0
      BY <1>9, <3>0, <3>1
    <3>2. CASE e # 0 /\ i \in DOMAIN s /\ t[i] = s[i]
      <4>1. e \in Nat /\ e > 0 /\ e - 1 \in 0 .. Gap(s[i].id, tx, m)
        BY <1>4, <2>2, <3>2
      <4>2. Holds(s, i, e - 1, tx, m)
        BY <1>0, <2>2, <3>2, <4>1 DEF NoGaps
      <4> QED BY <1>10, <4>1, <4>2
    <3>3. CASE t[i] = p
      <4>1. e = 0
        BY <1>2, <2>2, <3>3
      <4> QED BY <3>1, <4>1
    <3> QED BY <1>5, <3>1, <3>2, <3>3
  <2> QED BY <2>1, <2>2 DEF NoGaps
<1> QED BY <1>6, <1>7, <1>8, <1>12 DEF t, LineOf

\* The first packet is taken (with a payload behind it or not), and answered if it has an
\* id: the answer has the same.
Taking(r, s, u, t, n, k) ==
  /\ n \in Nat /\ k \in 1 .. 2 /\ k <= n
  /\ DOMAIN s = 1 .. n /\ DOMAIN t = 1 .. n - k
  /\ \A i \in 1 .. n - k : t[i] = s[i + k]
  /\ DOMAIN r \subseteq DOMAIN u /\ \A i \in DOMAIN r : u[i] = r[i]
  /\ DOMAIN u \subseteq Nat \ {0}
  /\ \A i \in DOMAIN u : (i \in DOMAIN r /\ u[i] = r[i]) \/ u[i].id = s[1].id
  /\ s[1].id # 0 => \E i \in DOMAIN u : u[i].id = s[1].id
  /\ k = 2 => s[2].id = 0

\* The line is kept by that.
LEMMA LineTaken ==
  ASSUME NEW r, NEW s, NEW u, NEW t, NEW n, NEW k, NEW tx, NEW m, NEW b,
         LineOf(r, s, tx, m, b), Taking(r, s, u, t, n, k)
  PROVE  LineOf(u, t, tx, m, b)
<1> USE DEF Taking
<1>0. /\ Near(r, tx, m, b) /\ Near(s, tx, m, b) /\ Falls(r, s, tx, m) /\ Sorted(s, tx, m)
      /\ NoGaps(r, s, tx, m)
  BY DEF LineOf
<1>1. \A j \in DOMAIN t : j + k \in DOMAIN s /\ j + k > 1 /\ t[j] = s[j + k]
  OBVIOUS
<1>2. 1 \in DOMAIN s
  OBVIOUS
<1>3. Near(u, tx, m, b) /\ Near(t, tx, m, b)
  BY <1>0, <1>1, <1>2 DEF Near
<1>4. Falls(u, t, tx, m)
  <2> SUFFICES ASSUME NEW i \in DOMAIN u, NEW j \in DOMAIN t, u[i].id # 0, t[j].id # 0
               PROVE  Gap(u[i].id, tx, m) >= Gap(t[j].id, tx, m)
    BY DEF Falls
  <2>1. CASE i \in DOMAIN r /\ u[i] = r[i]
    BY <1>0, <1>1, <2>1 DEF Falls
  <2>2. CASE u[i].id = s[1].id
    <3>1. 1 \in DOMAIN s /\ j + k \in DOMAIN s /\ 1 < j + k /\ t[j] = s[j + k]
      BY <1>1, <1>2
    <3>2. Gap(s[1].id, tx, m) >= Gap(s[j + k].id, tx, m)
      BY <1>0, <2>2, <3>1 DEF Sorted
    <3> QED BY <2>2, <3>1, <3>2
  <2> QED BY <2>1, <2>2
<1>5. Sorted(t, tx, m)
  <2> SUFFICES ASSUME NEW i \in DOMAIN t, NEW j \in DOMAIN t, i < j, t[i].id # 0, t[j].id # 0
               PROVE  Gap(t[i].id, tx, m) >= Gap(t[j].id, tx, m)
    BY DEF Sorted
  <2>1. /\ i + k \in DOMAIN s /\ j + k \in DOMAIN s /\ i + k < j + k
        /\ t[i] = s[i + k] /\ t[j] = s[j + k]
    BY <1>1
  <2> QED BY <1>0, <2>1 DEF Sorted
<1>6. ASSUME NEW e, NEW i \in Nat, i >= 1, Holds(s, i + k, e, tx, m)
      PROVE  Holds(t, i, e, tx, m)
  <2>1. PICK j \in DOMAIN s : j >= i + k /\ s[j].id # 0 /\ Gap(s[j].id, tx, m) = e
    BY <1>6 DEF Holds
  <2>2. j - k \in 1 .. n - k /\ (j - k) + k = j /\ j - k >= i
    BY <1>6, <2>1
  <2>3. t[j - k] = s[j]
    BY <2>2
  <2> QED BY <2>1, <2>2, <2>3 DEF Holds
<1>7. ASSUME NEW e, Holds(r, 1, e, tx, m) \/ Holds(s, 1, e, tx, m)
      PROVE  Holds(u, 1, e, tx, m) \/ Holds(t, 1, e, tx, m)
  <2>1. CASE Holds(r, 1, e, tx, m)
    BY <2>1 DEF Holds
  <2>2. ASSUME NEW j \in DOMAIN s, s[j].id # 0, Gap(s[j].id, tx, m) = e
        PROVE  Holds(u, 1, e, tx, m) \/ Holds(t, 1, e, tx, m)
    <3>1. CASE j = 1
      <4>1. PICK i \in DOMAIN u : u[i].id = s[1].id
        BY <2>2, <3>1
      <4>2. i >= 1
        BY <4>1
      <4> QED BY <2>2, <3>1, <4>1, <4>2 DEF Holds
    <3>2. CASE j > k
      <4>1. j >= 1 + k /\ 1 \in Nat /\ 1 >= 1
        BY <2>2, <3>2
      <4>2. Holds(s, 1 + k, e, tx, m)
        BY <2>2, <4>1 DEF Holds
      <4> QED BY <1>6, <4>1, <4>2
    <3>3. j = 1 \/ j > k \/ (j = 2 /\ k = 2)
      BY <2>2
    <3> QED BY <2>2, <3>1, <3>2, <3>3
  <2> QED BY <1>7, <2>1, <2>2 DEF Holds
<1>8. NoGaps(u, t, tx, m)
  <2>1. ASSUME NEW i \in DOMAIN u, u[i].id # 0, NEW e \in 0 .. Gap(u[i].id, tx, m)
        PROVE  Holds(u, 1, e, tx, m) \/ Holds(t, 1, e, tx, m)
    <3>1. CASE i \in DOMAIN r /\ u[i] = r[i]
      BY <1>0, <1>7, <2>1, <3>1 DEF NoGaps
    <3>2. CASE u[i].id = s[1].id
      <4>1. Holds(s, 1, e, tx, m)
        BY <1>0, <1>2, <2>1, <3>2 DEF NoGaps
      <4> QED BY <1>7, <4>1
    <3> QED BY <3>1, <3>2
  <2>2. ASSUME NEW i \in DOMAIN t, t[i].id # 0, NEW e \in 0 .. Gap(t[i].id, tx, m)
        PROVE  Holds(t, i, e, tx, m)
    <3>1. i + k \in DOMAIN s /\ t[i] = s[i + k] /\ i \in Nat /\ i >= 1
      BY <1>1
    <3>2. Holds(s, i + k, e, tx, m)
      BY <1>0, <2>2, <3>1 DEF NoGaps
    <3> QED BY <1>6, <3>1, <3>2
  <2> QED BY <2>1, <2>2 DEF NoGaps
<1> QED BY <1>3, <1>4, <1>5, <1>8 DEF LineOf

-----------------------------------------------------------------------------
(* The steps keep the line                                                 *)
-----------------------------------------------------------------------------
\* How old the oldest packet may be.
LEMMA OldestIs ==
  ASSUME Types, Wide
  PROVE  /\ MaxId \in Nat /\ MaxId >= 3 /\ MaxId >= 2 /\ MaxId - 3 \in Nat
         /\ Oldest \in Nat /\ Oldest <= MaxId - 1 /\ Oldest >= MaxId - 3
         /\ ~ (Busy /\ ~ Lapsed) => Oldest <= MaxId - 2
         /\ ~ (Busy /\ ~ Lapsed) /\ ~ (Dark /\ ~ polled) => Oldest = MaxId - 3
<1>1. MaxId \in Nat /\ MaxId >= 3
  BY IdsUnderWay
<1>2. PICK x \in {0, 1} : x = IF Busy /\ ~ Lapsed THEN 1 ELSE 0
  OBVIOUS
<1>3. PICK y \in {0, 1} : y = IF Dark /\ ~ polled THEN 1 ELSE 0
  OBVIOUS
<1>4. Oldest = ((MaxId - 3) + x) + y
  BY <1>1, <1>2, <1>3 DEF Oldest
<1>5. (~ (Busy /\ ~ Lapsed) => x = 0) /\ (~ (Dark /\ ~ polled) => y = 0)
  BY <1>2, <1>3
<1> QED BY ONLY <1>1, <1>4, <1>5, x \in {0, 1}, y \in {0, 1}

\* A call that has not waited yet may have one more behind it than one that has, and so
\* may what nobody has read of a lost connection.
LEMMA OldestGrows ==
  ASSUME Types, Wide, setting' = setting,
         Busy /\ ~ Lapsed => Busy' /\ ~ Lapsed',
         Dark /\ ~ polled => Dark' /\ ~ polled'
  PROVE  Oldest <= Oldest' /\ Oldest \in Nat /\ Oldest' \in Nat /\ Wide'
<1>1. MaxId \in Nat /\ MaxId >= 3 /\ MaxId' = MaxId
  BY IdsUnderWay, LimitsStay
<1>2. PICK x \in {0, 1} : x = IF Busy /\ ~ Lapsed THEN 1 ELSE 0
  OBVIOUS
<1>3. PICK y \in {0, 1} : y = IF Dark /\ ~ polled THEN 1 ELSE 0
  OBVIOUS
<1>4. PICK x1 \in {0, 1} : x1 = IF Busy' /\ ~ Lapsed' THEN 1 ELSE 0
  OBVIOUS
<1>5. PICK y1 \in {0, 1} : y1 = IF Dark' /\ ~ polled' THEN 1 ELSE 0
  OBVIOUS
<1>6. Oldest = ((MaxId - 3) + x) + y /\ Oldest' = ((MaxId - 3) + x1) + y1
  BY <1>1, <1>2, <1>3, <1>4, <1>5 DEF Oldest
<1>7. x <= x1 /\ y <= y1
  BY <1>2, <1>3, <1>4, <1>5
<1>8. Wide'
  BY LimitsStay DEF Wide
<1> QED BY ONLY <1>1, <1>6, <1>7, <1>8, x \in {0, 1}, y \in {0, 1}, x1 \in {0, 1}, y1 \in {0, 1}

\* The bound on the age of packets is a number in the next state, too.
LEMMA OldestLater ==
  ASSUME Types, Wide, setting' = setting
  PROVE  Wide' /\ Oldest' \in Nat /\ MaxId' = MaxId
<1>1. MaxId \in Nat /\ MaxId >= 3 /\ MaxId' = MaxId
  BY IdsUnderWay, LimitsStay
<1>2. PICK x \in {0, 1} : x = IF Busy' /\ ~ Lapsed' THEN 1 ELSE 0
  OBVIOUS
<1>3. PICK y \in {0, 1} : y = IF Dark' /\ ~ polled' THEN 1 ELSE 0
  OBVIOUS
<1>4. Oldest' = ((MaxId - 3) + x) + y
  BY <1>1, <1>2, <1>3 DEF Oldest
<1>5. Wide'
  BY LimitsStay DEF Wide
<1> QED BY ONLY <1>1, <1>4, <1>5, x \in {0, 1}, y \in {0, 1}

\* In any state the packets that have come are not too old.
LEMMA LinedIs ==
  ASSUME Types, Wide, Lined
  PROVE  /\ Near(in, txPacketId, MaxId, Oldest) /\ Near(out, txPacketId, MaxId, Oldest)
         /\ Falls(in, out, txPacketId, MaxId)
BY DEF Lined, LineOf, Near, Falls

\* What is sent is lost.
LEMMA LDark ==
  ASSUME Types, Wide, Lined, setting' = setting, Dark', out' = <<>>,
         in' = <<>> \/ (in' = in /\ txPacketId' = txPacketId /\ Oldest <= Oldest' /\ Oldest' \in Nat)
  PROVE  Lined'
<1>1. MaxId' = MaxId /\ MaxId \in Nat /\ MaxId >= 2 /\ txPacketId \in 0 .. MaxId /\ Oldest \in Nat
  BY IdsUnderWay, LimitsStay, OldestIs
<1>2. CASE in' = <<>>
  BY <1>2 DEF Lined, Near
<1>3. CASE in' = in /\ txPacketId' = txPacketId /\ Oldest <= Oldest' /\ Oldest' \in Nat
  <2>1. Near(in, txPacketId, MaxId, Oldest)
    BY LinedIs
  <2>2. \A i \in DOMAIN in : in[i].id \in 0 .. MaxId
    BY IdsUnderWay
  <2>3. Near(in, txPacketId, MaxId, Oldest')
    BY <1>1, <1>3, <2>1, <2>2, NearStays
  <2> QED BY <1>1, <1>3, <2>3 DEF Lined
<1> QED BY <1>2, <1>3

\* Packets of the call are sent, and what has come is read or not.
OwnOnly(s) == \A j \in DOMAIN s : s[j].id = 0 \/ (s[j].id = txPacketId /\ txPacketId > 0)
\* The line with packets of the call behind it.
LEMMA LGrows ==
  ASSUME Types, Wide, Lined, setting' = setting, NEW ps, Grows(ps), OwnOnly(ps),
         txPacketId' = txPacketId, Oldest' \in Nat,
         \/ in' = in /\ Oldest <= Oldest'
         \/ in' = <<>> /\ (Oldest <= Oldest' \/ OwnOnly(out))
  PROVE  Lined'
<1> DEFINE tx == txPacketId
           m == MaxId
<1>1. /\ MaxId' = m /\ m \in Nat /\ m >= 2 /\ tx \in 0 .. m /\ Oldest \in Nat
      /\ \A i \in DOMAIN in : in[i].id \in 0 .. m
      /\ \A i \in DOMAIN out : out[i].id \in 0 .. m
  BY IdsUnderWay, LimitsStay, OldestIs
<1>2. ~ Dark /\ ~ Dark' /\ ps \in Seq(Sent) /\ out' = out \o ps
  BY DEF Grows
<1>3. LineOf(in, out, tx, m, Oldest) /\ in \in Seq(Received) /\ out \in Seq(Sent)
  BY <1>2 DEF Lined, Types
<1>4. LineOf(<<>>, out, tx, m, Oldest)
  BY <1>3, LineRead
<1>5. Near(out, tx, m, Oldest) /\ Near(in, tx, m, Oldest)
  BY <1>3 DEF LineOf
<1>6. ASSUME Oldest <= Oldest' PROVE Near(out, tx, m, Oldest') /\ Near(in, tx, m, Oldest')
  BY <1>1, <1>5, <1>6, NearStays
<1>7. ASSUME OwnOnly(out) PROVE Near(out, tx, m, Oldest')
  <2>1. \A i \in DOMAIN out : out[i].id # 0 => Gap(out[i].id, tx, m) <= Oldest'
    <3> TAKE i \in DOMAIN out
    <3> HAVE out[i].id # 0
    <3>1. tx \in 1 .. m /\ out[i].id = tx
      BY <1>1, <1>7 DEF OwnOnly
    <3>2. Gap(out[i].id, tx, m) = 0
      BY <1>1, <3>1, GapIs
    <3> QED BY <3>2
  <2> QED BY <1>1, <1>5, <2>1, NearStays
<1>8. in' \in Seq(Received) /\ LineOf(in', out, tx, m, Oldest')
  <2>1. CASE in' = in /\ Oldest <= Oldest'
    BY <1>3, <1>6, <2>1 DEF LineOf
  <2>2. CASE in' = <<>> /\ (Oldest <= Oldest' \/ OwnOnly(out))
    <3>1. Near(out, tx, m, Oldest') /\ Near(<<>>, tx, m, Oldest')
      BY <1>6, <1>7, <2>2 DEF Near
    <3> QED BY <1>4, <2>2, <3>1 DEF LineOf
  <2> QED BY <2>1, <2>2
<1>9. \A i \in DOMAIN in' : in'[i].id \in 0 .. m
  BY <1>1
<1>10. \A j \in DOMAIN ps : ps[j].id = 0 \/ (ps[j].id = tx /\ tx > 0)
  BY DEF OwnOnly
<1> HIDE DEF tx, m
<1>11. LineOf(in', out \o ps, tx, m, Oldest')
  BY <1>1, <1>2, <1>3, <1>8, <1>9, <1>10, LineGrows
<1> QED BY <1>1, <1>2, <1>11 DEF Lined, tx, m

-----------------------------------------------------------------------------
(* The steps keep what is said of the call                                 *)
-----------------------------------------------------------------------------
\* The call has been done, or its message is on its way.
Going == calls \in taken \/ \E i \in DOMAIN out : Message2(out[i], txPacketId)

\* What is sent is lost.
LEMMA ODark ==
  ASSUME OwnTrue, Busy' => Busy, Dark', out' = <<>>, in' = in \/ in' = <<>>,
         UNCHANGED <<txPacketId, calls>>, taken \subseteq taken'
  PROVE  OwnTrue'
<1> SUFFICES ASSUME Busy' PROVE TrueIn' /\ TrueOut'
  BY DEF OwnTrue
<1>1. TrueIn
  BY DEF OwnTrue
<1> QED BY <1>1 DEF TrueIn, TrueOut

\* Packets are sent: PUBREL only for a message that is done or is on its way.
LEMMA OGrows ==
  ASSUME Types, Calling, OwnTrue, Busy' => Busy, NEW ps, Grows(ps), in' = in \/ in' = <<>>,
         UNCHANGED <<txPacketId, calls, taken>>,
         \A j \in DOMAIN ps :
           ps[j].id = 0 \/ (ps[j].id = txPacketId /\ ps[j].type = "pubrel" /\ Going),
         call'.for = "pubrec" => call.for = "pubrec" \/ (stream.open /\ stream.qos = 2),
         stream'.open => stream' = stream /\ \A j \in DOMAIN ps : ps[j].type = "pingreq"
  PROVE  OwnTrue'
<1> SUFFICES ASSUME Busy' PROVE TrueIn' /\ TrueOut' /\ OnItsWay'
  BY DEF OwnTrue
<1>1. TrueIn /\ TrueOut /\ OnItsWay /\ txPacketId > 0
  BY DEF OwnTrue, Grows, Calling
<1>2. /\ out \in Seq(Sent) /\ ps \in Seq(Sent) /\ Len(out) \in Nat /\ Len(ps) \in Nat
      /\ DOMAIN out = 1 .. Len(out) /\ DOMAIN ps = 1 .. Len(ps) /\ out' = out \o ps
  BY DEF Grows, Types
<1> DEFINE t == out'
<1>3. /\ Len(t) = Len(out) + Len(ps) /\ DOMAIN t = 1 .. Len(out) + Len(ps)
      /\ \A i \in 1 .. Len(out) : t[i] = out[i]
      /\ \A i \in DOMAIN t : \/ i \in DOMAIN out /\ t[i] = out[i]
                             \/ i - Len(out) \in DOMAIN ps /\ t[i] = ps[i - Len(out)]
  BY <1>2, Joined
<1> HIDE DEF t
<1>4. TrueIn'
  BY <1>1 DEF TrueIn
<1>5. ASSUME NEW j \in DOMAIN t, t[j].id = txPacketId
      PROVE  IF t[j].type = "pubrel"
             THEN calls \in taken \/ \E i \in 1 .. j - 1 : Message2(t[i], txPacketId)
             ELSE t[j].n = calls
  <2>1. CASE j \in DOMAIN out /\ t[j] = out[j]
    <3>1. IF out[j].type = "pubrel"
          THEN calls \in taken \/ \E i \in 1 .. j - 1 : Message2(out[i], txPacketId)
          ELSE out[j].n = calls
      BY <1>1, <1>5, <2>1 DEF TrueOut
    <3>2. \A i \in 1 .. j - 1 : t[i] = out[i]
      BY <1>2, <1>3, <2>1
    <3> QED BY <2>1, <3>1, <3>2
  <2>2. CASE j - Len(out) \in DOMAIN ps /\ t[j] = ps[j - Len(out)]
    <3>1. t[j].type = "pubrel" /\ Going
      BY <1>1, <1>5, <2>2
    <3>2. \A i \in DOMAIN out : i \in 1 .. j - 1 /\ t[i] = out[i]
      BY <1>2, <1>3, <2>2
    <3> QED BY <3>1, <3>2 DEF Going
  <2> QED BY <1>3, <1>5, <2>1, <2>2
<1>6. TrueOut'
  BY <1>5 DEF TrueOut, Message2, t
<1>7. OnItsWay'
  <2>1. ASSUME call'.for = "pubrec"
        PROVE  calls \in taken \/ \E i \in DOMAIN t : Message2(t[i], txPacketId)
    <3>1. calls \in taken \/ \E i \in DOMAIN out : Message2(out[i], txPacketId)
      BY <1>1, <2>1 DEF OnItsWay, Begun2
    <3>2. \A i \in DOMAIN out : i \in DOMAIN t /\ t[i] = out[i]
      BY <1>2, <1>3
    <3> QED BY <3>1, <3>2
  <2>2. ASSUME stream'.open, stream'.qos = 2
        PROVE  Begun2(t, txPacketId)
    <3>1. /\ stream.open /\ stream.qos = 2
          /\ \A j \in DOMAIN ps : ps[j].type = "pingreq"
      BY <2>2
    <3>2. PICK i \in DOMAIN out : /\ Message2(out[i], txPacketId) /\ out[i].type = "header2"
                                  /\ \A k \in i + 1 .. Len(out) : out[k].type = "pingreq"
      BY <1>1, <3>1 DEF OnItsWay, Begun2
    <3>3. i \in DOMAIN t /\ t[i] = out[i]
      BY <1>2, <1>3
    <3>4. ASSUME NEW k \in i + 1 .. Len(t) PROVE t[k].type = "pingreq"
      <4>1. k \in DOMAIN t
        BY <1>2, <1>3, <3>2, <3>4
      <4>2. CASE k \in DOMAIN out /\ t[k] = out[k]
        BY <1>2, <3>2, <3>4, <4>2
      <4>3. CASE k - Len(out) \in DOMAIN ps /\ t[k] = ps[k - Len(out)]
        BY <3>1, <4>3
      <4> QED BY <1>3, <4>1, <4>2, <4>3
    <3> QED BY <3>2, <3>3, <3>4 DEF Begun2
  <2> QED BY <2>1, <2>2 DEF OnItsWay, t
<1> QED BY <1>4, <1>6, <1>7

-----------------------------------------------------------------------------
(* The steps keep what calls report                                        *)
-----------------------------------------------------------------------------
\* A closed connection.
LEMMA TClosed ==
  ASSUME Wide, setting' = setting, sock' = FALSE, in' = <<>>, out' = <<>>, TrueMeansDone'
  PROVE  TInv'
<1>1. Wide' /\ Dark'
  BY LimitsStay DEF Wide, Dark
<1>2. Lined'
  BY <1>1 DEF Lined, Near
<1>3. OwnTrue'
  BY <1>1 DEF OwnTrue, TrueIn, TrueOut
<1> QED BY <1>1, <1>2, <1>3 DEF TInv

\* A run of poll(), with PUBREL behind it for a message that is done.
LEMMA TPolls ==
  ASSUME SInv, Wide, Lined, OwnTrue, setting' = setting, NEW more, Polls(more),
         \/ more = <<>>
         \/ more = <<Pubrel>> /\ call.for = "pubrec" /\ Going,
         UNCHANGED <<txPacketId, calls, taken, stream>>,
         Busy' => Busy, call'.for = "pubrec" => call.for = "pubrec",
         (Busy /\ ~ Lapsed => Busy' /\ ~ Lapsed') \/ OwnOnly(out)
  PROVE  Wide' /\ Lined' /\ OwnTrue'
<1>0. Types /\ Calling /\ Framed
  BY DEF SInv
<1>1. /\ Wide' /\ Oldest' \in Nat /\ in' = <<>>
  BY <1>0, OldestLater DEF Polls
<1>2. call.for = "pubrec" => /\ Pubrel \in Sent /\ Pubrel.type = "pubrel"
                             /\ Pubrel.id = txPacketId /\ txPacketId > 0 /\ ~ stream.open
  BY <1>0, PubrelIsSent
<1>3. Ping \in Sent /\ Ping.type = "pingreq" /\ Ping.id = 0
  BY PacketKinds DEF Ping
<1>4. Follows(more)
  BY <1>2 DEF Follows
<1>5. CASE Lost
  <2>1. Lined'
    BY <1>0, <1>1, <1>5, LDark DEF Lost
  <2>2. OwnTrue'
    BY <1>1, <1>5, ODark DEF Lost
  <2> QED BY <1>1, <2>1, <2>2
<1>6. ASSUME NEW ps, Grows(ps),
             \A j \in DOMAIN ps : ps[j] = Ping \/ (ps[j] = Pubrel /\ call.for = "pubrec" /\ Going)
      PROVE  Lined' /\ OwnTrue'
  <2>1. \A j \in DOMAIN ps : \/ ps[j].id = 0 /\ ps[j].type = "pingreq"
                             \/ /\ ps[j].id = txPacketId /\ txPacketId > 0 /\ ps[j].type = "pubrel"
                                /\ Going /\ ~ stream.open
    BY <1>2, <1>3, <1>6
  <2>2. OwnOnly(ps)
    BY <2>1 DEF OwnOnly
  <2>3. Oldest <= Oldest' \/ OwnOnly(out)
    <3>1. ~ Dark
      BY <1>6 DEF Grows
    <3> QED BY <1>0, <3>1, OldestGrows
  <2>4. Lined'
    BY <1>0, <1>1, <1>6, <2>2, <2>3, LGrows
  <2>5. OwnTrue'
    BY <1>0, <1>1, <1>6, <2>1, OGrows
  <2> QED BY <2>4, <2>5
<1>7. \A j \in DOMAIN more : more[j] = Pubrel /\ call.for = "pubrec" /\ Going
  OBVIOUS
<1>8. \A j \in DOMAIN (<<Ping>> \o more) :
        (<<Ping>> \o more)[j] = Ping \/ ((<<Ping>> \o more)[j] = Pubrel /\ call.for = "pubrec" /\ Going)
  <2>0. more \in Seq(Sent)
    BY <1>0, <1>4, PollsGrow
  <2>1. more \in Seq(Sent) /\ <<Ping>> \in Seq(Sent) /\ Len(<<Ping>>) = 1
        /\ DOMAIN <<Ping>> = 1 .. 1 /\ <<Ping>>[1] = Ping
    BY <1>3, <2>0
  <2>2. PICK t : t = <<Ping>> \o more
    OBVIOUS
  <2>3. \A i \in DOMAIN t : \/ i \in 1 .. 1 /\ t[i] = <<Ping>>[i]
                            \/ i - 1 \in DOMAIN more /\ t[i] = more[i - 1]
    BY <2>1, <2>2, Joined
  <2>4. \A j \in DOMAIN t : t[j] = Ping \/ (t[j] = Pubrel /\ call.for = "pubrec" /\ Going)
    BY <1>7, <2>1, <2>3
  <2> QED BY <2>2, <2>4
<1>9. Lost \/ Grows(<<Ping>> \o more) \/ Grows(more)
  BY <1>0, <1>4, PollsGrow
<1> QED BY <1>1, <1>5, <1>6, <1>7, <1>8, <1>9

\* poll() keeps what calls report.
LEMMA TPoll ==
  ASSUME SInv, TInv, setting' = setting, Poll
  PROVE  TInv'
<1>1. Types /\ (Dark => out = <<>>)
  BY DEF SInv, Framed
<1>2. /\ call = NoCall /\ Polls(<<>>)
      /\ UNCHANGED <<txPacketId, calls, taken, stream, call, result, waited>>
  BY <1>1, PollStepIs DEF Poll
<1>3. Busy' = Busy /\ Lapsed' = Lapsed
  BY <1>2 DEF Busy, Lapsed
<1>4. Wide' /\ Lined' /\ OwnTrue'
  BY <1>2, <1>3, TPolls DEF TInv
<1> QED BY <1>2, <1>4 DEF TInv, TrueMeansDone

\* A turn of a loop keeps what calls report.
LEMMA TWaitOn ==
  ASSUME SInv, TInv, setting' = setting, WaitOn
  PROVE  TInv'
<1>1. Types /\ (Dark => out = <<>>)
  BY DEF SInv, Framed
<1>2. Polls(<<>>) /\ UNCHANGED <<txPacketId, calls, taken, stream, call, result, waited>>
  BY <1>1, PollStepIs DEF WaitOn
<1>3. Busy' = Busy /\ Lapsed' = Lapsed
  BY <1>2 DEF Busy, Lapsed
<1>4. Wide' /\ Lined' /\ OwnTrue'
  BY <1>2, <1>3, TPolls DEF TInv
<1> QED BY <1>2, <1>4 DEF TInv, TrueMeansDone

\* The answer a call finds is its own: what is still under way is of this call, and what
\* the broker was asked for is done unless the answer says that it is not.
LEMMA OwnAnswer ==
  ASSUME SInv, KInv, TInv, call.for \notin {"nothing", "connack"}, CodeAfter # NoCode
  PROVE  OwnOnly(out) /\ (calls \in taken \/ CodeAfter = 128)
<1>1. Types /\ Calling /\ (Dark => out = <<>>) /\ Busy /\ returnCode = NoCode /\ txPacketId > 0
  BY DEF SInv, Framed, Calling, Busy
<1>2. PICK i \in DOMAIN in : SetsCode(in[i]) /\ CodeAfter = Code(in[i])
  BY <1>1, CodeAfterIs
<1>3. in[i].type \in Acks /\ in[i].id = txPacketId
  BY <1>2 DEF SetsCode, Own, KInv, Connacking
<1>4. calls \in taken \/ CodeAfter = 128
  <2>1. calls \in taken \/ (in[i].type = "suback" /\ in[i].n = 128)
    BY <1>1, <1>3 DEF TInv, OwnTrue, TrueIn
  <2> QED BY <1>2, <2>1 DEF Code
<1>5. OwnOnly(out)
  <2> SUFFICES ASSUME NEW j \in DOMAIN out, out[j].id # 0
               PROVE  out[j].id = txPacketId /\ txPacketId > 0
    BY DEF OwnOnly
  <2>1. /\ Near(out, txPacketId, MaxId, Oldest) /\ Falls(in, out, txPacketId, MaxId)
        /\ MaxId \in Nat /\ MaxId >= 2 /\ txPacketId \in 0 .. MaxId /\ in[i].id # 0
        /\ \A x \in DOMAIN out : out[x].id \in 0 .. MaxId
    BY <1>1, <1>3, LinedIs, IdsUnderWay, OldestIs DEF TInv
  <2>2. Gap(in[i].id, txPacketId, MaxId) = 0
    <3>1. txPacketId \in 1 .. MaxId
      BY <1>1, <2>1
    <3> QED BY <1>3, <2>1, <3>1, GapIs
  <2>3. Gap(in[i].id, txPacketId, MaxId) >= Gap(out[j].id, txPacketId, MaxId)
    BY <2>1 DEF Falls
  <2>4. /\ txPacketId \in 1 .. MaxId /\ out[j].id \in 1 .. MaxId
        /\ Gap(out[j].id, txPacketId, MaxId) \in Nat
    BY <2>1, GapsOf
  <2>5. Gap(out[j].id, txPacketId, MaxId) = 0
    BY <2>2, <2>3, <2>4
  <2>6. out[j].id = txPacketId
    BY <2>1, <2>4, <2>5, GapIs
  <2> QED BY <1>1, <2>6
<1> QED BY <1>4, <1>5

\* A call that reports success has found its own answer.
LEMMA TAnswered ==
  ASSUME SInv, KInv, TInv, setting' = setting, Answered
  PROVE  TInv'
<1>1. Types /\ Calling /\ (Dark => out = <<>>)
  BY DEF SInv, Framed
<1>2. /\ call # NoCall /\ UNCHANGED <<txPacketId, stream, taken, calls>> /\ CodeAfter # NoCode
      /\ AnsweredConnect \/ AnsweredPubrec \/ AnsweredLast
  BY <1>1, AnsweredIs
<1>3. call.for # "nothing" /\ call.n = calls /\ ~ stream.open /\ NoCall.for = "nothing"
      /\ returnCode = NoCode
  BY <1>1, <1>2 DEF Calling, NoCall
<1>4. Wide /\ Wide' /\ Oldest' \in Nat /\ MaxId' = MaxId
  BY <1>1, OldestLater DEF TInv
<1>5. ASSUME AnsweredConnect PROVE TInv'
  <2>1. /\ call.for = "connack" /\ call'.for = "nothing"
        /\ result' = [call |-> call, ok |-> CodeAfter = 0]
    BY <1>3, <1>5 DEF AnsweredConnect
  <2>2. TrueMeansDone'
    <3>1. ASSUME CodeAfter = 0 PROVE calls \in taken
      <4>1. PICK i \in DOMAIN in : SetsCode(in[i]) /\ CodeAfter = Code(in[i])
        BY <1>1, <1>2, <1>3, CodeAfterIs
      <4>2. in[i].type = "connack" /\ (in[i].n = 0 => calls \in taken)
        BY <2>1 DEF KInv, Connacking
      <4> QED BY <3>1, <4>1, <4>2 DEF Code
    <3> QED BY <1>2, <1>3, <2>1, <3>1 DEF TrueMeansDone
  <2>3. CASE CodeAfter = 0
    <3>1. in' = <<>> /\ sock' = sock /\ out' = out /\ cut' = cut /\ Dark' = Dark
      BY <1>5, <2>3 DEF AnsweredConnect, Dark
    <3>2. \A i \in DOMAIN out : out[i].id = 0
      <4> TAKE i \in DOMAIN out
      <4>1. out[i].type = "connect" /\ out[i] \in Sent
        BY <1>1, <2>1 DEF KInv, Connacking, Types
      <4> QED BY <4>1 DEF Sent, Requests
    <3>3. Lined'
      <4>1. CASE Dark
        BY <1>1, <3>1, <4>1, LDark DEF TInv
      <4>2. CASE ~ Dark
        <5>1. LineOf(in', out', txPacketId', MaxId', Oldest')
          BY <3>1, <3>2, LineOfNone
        <5> QED BY <3>1, <4>2, <5>1 DEF Lined
      <4> QED BY <4>1, <4>2
    <3>4. OwnTrue'
      BY <1>2, <1>3, <2>1 DEF OwnTrue, Busy
    <3> QED BY <1>4, <2>2, <3>3, <3>4 DEF TInv
  <2>4. CASE CodeAfter # 0
    BY <1>4, <1>5, <2>2, <2>4, TClosed DEF AnsweredConnect, Closed
  <2> QED BY <2>3, <2>4
<1>6. CASE AnsweredPubrec
  <2>1. /\ call.for = "pubrec" /\ CodeAfter = 0 /\ Polls(<<Pubrel>>) /\ call' = ToPubcomp
        /\ result' = result
    BY <1>6 DEF AnsweredPubrec
  <2>2. OwnOnly(out) /\ calls \in taken
    BY <1>2, <2>1, OwnAnswer
  <2>3. call'.for = "pubcomp" /\ Busy /\ Going
    BY <1>1, <2>1, <2>2, PubrelIsSent DEF Busy, Going
  <2>4. Wide' /\ Lined' /\ OwnTrue'
    BY <1>2, <2>1, <2>2, <2>3, TPolls DEF TInv
  <2> QED BY <1>2, <2>1, <2>4 DEF TInv, TrueMeansDone
<1>7. CASE AnsweredLast
  <2>1. /\ call.for # "connack" /\ Polls(<<>>) /\ call' = NoCall
        /\ result' = [call |-> call, ok |-> CodeAfter = 0 \/ (call.for = "suback" /\ CodeAfter \in 0 .. 2)]
    BY <1>7 DEF AnsweredLast
  <2>2. OwnOnly(out) /\ (calls \in taken \/ CodeAfter = 128)
    BY <1>2, <1>3, <2>1, OwnAnswer
  <2>3. ~ Busy'
    BY <1>2, <1>3, <2>1 DEF Busy
  <2>4. Wide' /\ Lined' /\ OwnTrue'
    BY <1>2, <1>3, <2>1, <2>2, <2>3, TPolls DEF TInv
  <2>5. TrueMeansDone'
    <3>1. CodeAfter = 0 \/ (call.for = "suback" /\ CodeAfter \in 0 .. 2) => calls \in taken
      BY <2>2
    <3>2. result'.call = call
      BY <2>1
    <3>3. result'.ok => calls \in taken
      BY <2>1, <3>1
    <3> QED BY <1>2, <1>3, <3>2, <3>3 DEF TrueMeansDone
  <2> QED BY <2>4, <2>5 DEF TInv
<1> QED BY <1>2, <1>5, <1>6, <1>7

\* Something goes out behind what is under way, or is lost.
LEMMA TSends ==
  ASSUME SInv, Wide, Lined, OwnTrue, setting' = setting, NEW p \in Sent, Sends(<<p>>),
         UNCHANGED <<in, cut, polled, txPacketId, calls, taken>>,
         Busy' => Busy, Busy /\ ~ Lapsed => Busy' /\ ~ Lapsed',
         p.id = 0 \/ (p.id = txPacketId /\ p.type = "pubrel" /\ (Dark \/ Going)),
         call'.for = "pubrec" => call.for = "pubrec" \/ (stream.open /\ stream.qos = 2),
         ~ stream'.open
  PROVE  Wide' /\ Lined' /\ OwnTrue'
<1>0. Types /\ Calling /\ Framed
  BY DEF SInv
<1>1. Wide' /\ Oldest' \in Nat /\ <<p>> \in Seq(Sent)
  BY <1>0, OldestLater
<1>2. Dark => Dark'
  BY DEF Sends, Dark
<1>3. Oldest <= Oldest'
  BY <1>0, <1>2, OldestGrows
<1>4. CASE Lost
  <2>1. Lined'
    BY <1>0, <1>1, <1>3, <1>4, LDark DEF Lost
  <2>2. OwnTrue'
    BY <1>4, ODark DEF Lost
  <2> QED BY <1>1, <2>1, <2>2
<1>5. CASE Grows(<<p>>)
  <2>1. ~ Dark
    BY <1>5 DEF Grows
  <2>2. p.id # 0 => p.id = txPacketId /\ txPacketId > 0
    <3>1. txPacketId \in Nat
      BY <1>0, IdsUnderWay
    <3> QED BY <3>1
  <2>3. \A j \in DOMAIN <<p>> : <<p>>[j] = p
    OBVIOUS
  <2>4. OwnOnly(<<p>>)
    BY <2>2, <2>3 DEF OwnOnly
  <2>5. Lined'
    BY <1>0, <1>1, <1>3, <1>5, <2>4, LGrows
  <2>6. OwnTrue'
    BY <1>0, <1>5, <2>1, <2>3, OGrows
  <2> QED BY <1>1, <2>5, <2>6
<1> QED BY <1>0, <1>1, <1>4, <1>5, SendsGrow

\* A call that gives up.  A message of quality 2 sends PUBREL without PUBREC: it stands
\* behind the message.
LEMMA TGivesUp ==
  ASSUME SInv, TInv, setting' = setting, GivesUp
  PROVE  TInv'
<1>1. Types /\ Calling /\ (Dark => out = <<>>)
  BY DEF SInv, Framed
<1>2. /\ call # NoCall /\ (waited >= ConnectionTimeout \/ (~ sock /\ in = <<>>))
      /\ UNCHANGED <<txPacketId, stream, polled, taken, calls>>
      /\ GivesUpPubrec \/ GivesUpLast \/ GivesUpAll
  BY <1>1, GivesUpIs
<1>3. call.for # "nothing" /\ call.n = calls /\ ~ stream.open /\ NoCall.for = "nothing"
  BY <1>1, <1>2 DEF Calling, NoCall
<1>4. Wide /\ Wide' /\ Oldest' \in Nat
  BY <1>1, OldestLater DEF TInv
<1>5. CASE GivesUpPubrec
  <2>1. /\ call.for = "pubrec" /\ Sends(<<Pubrel>>) /\ call' = ToPubcomp /\ waited' = 0
        /\ UNCHANGED <<in, cut, result>>
    BY <1>5 DEF GivesUpPubrec
  <2>2. /\ call'.for = "pubcomp" /\ Busy /\ Pubrel \in Sent /\ Pubrel.type = "pubrel"
        /\ Pubrel.id = txPacketId
    BY <1>1, <2>1, PubrelIsSent DEF Busy
  <2>3. Dark \/ Going
    BY <2>1, <2>2 DEF TInv, OwnTrue, OnItsWay, Going
  <2>4. Wide' /\ Lined' /\ OwnTrue'
    <3>1. CASE Lapsed
      BY <1>2, <1>3, <2>1, <2>2, <2>3, <3>1, TSends DEF TInv
    <3>2. CASE ~ Lapsed
      <4>1. ~ sock /\ in = <<>>
        <5>1. waited = 0
          BY <1>1, <3>2 DEF Lapsed, Types
        <5> QED BY <1>2, <5>1, SessionAssumption
      <4>2. Dark' /\ out' = <<>> /\ in' = <<>>
        BY <2>1, <4>1 DEF Sends, Dark
      <4>3. Lined'
        BY <4>2 DEF Lined, Near
      <4>4. OwnTrue'
        BY <4>2 DEF OwnTrue, TrueIn, TrueOut
      <4> QED BY <1>4, <4>3, <4>4
    <3> QED BY <3>1, <3>2
  <2> QED BY <1>2, <2>1, <2>4 DEF TInv, TrueMeansDone
<1>6. CASE GivesUpLast
  <2>1. /\ call' = NoCall /\ waited' = 0 /\ result' = [call |-> call, ok |-> FALSE]
        /\ UNCHANGED <<sock, in, out, cut>> /\ (Dark => Dark') /\ (Dark' => Dark)
    BY <1>6 DEF GivesUpLast, Dark
  <2>2. ~ Busy' /\ OwnTrue'
    BY <1>2, <1>3, <2>1 DEF Busy, OwnTrue
  <2>3. TrueMeansDone'
    BY <2>1 DEF TrueMeansDone
  <2>4. CASE ~ (Busy /\ ~ Lapsed)
    <3>1. Oldest <= Oldest'
      BY <1>1, <1>2, <1>4, <2>1, <2>4, OldestGrows
    <3>2. ASSUME Dark PROVE Lined'
      <4>1. Lined /\ out' = <<>> /\ Dark' /\ in' = in
        BY <1>1, <2>1, <3>2 DEF TInv
      <4> QED BY <1>1, <1>2, <1>4, <3>1, <4>1, LDark
    <3>3. ASSUME ~ Dark PROVE Lined'
      <4>1. Grows(<<>>) /\ OwnOnly(<<>>)
        <5>1. out \o <<>> = out
          BY <1>1, ConcatEmptySeq DEF Types
        <5> QED BY <2>1, <3>3, <5>1 DEF Grows, OwnOnly
      <4>2. Lined /\ in' = in
        BY <2>1 DEF TInv
      <4> QED BY <1>1, <1>2, <1>4, <3>1, <4>1, <4>2, LGrows
    <3>4. Lined'
      BY <3>2, <3>3
    <3> QED BY <1>4, <2>2, <2>3, <3>4 DEF TInv
  <2>5. CASE Busy /\ ~ Lapsed
    <3>1. ~ sock /\ in = <<>>
      <4>1. waited = 0
        BY <1>1, <2>5 DEF Lapsed, Types
      <4> QED BY <1>2, <4>1, SessionAssumption
    <3>2. Dark /\ out = <<>>
      BY <1>1, <3>1 DEF Dark
    <3>3. Lined'
      BY <2>1, <3>1, <3>2 DEF Lined, Near
    <3> QED BY <1>4, <2>2, <2>3, <3>3 DEF TInv
  <2> QED BY <2>4, <2>5
<1>7. CASE GivesUpAll
  <2>1. TrueMeansDone'
    BY <1>7 DEF GivesUpAll, TrueMeansDone
  <2> QED BY <1>4, <1>7, <2>1, TClosed DEF GivesUpAll
<1> QED BY <1>2, <1>5, <1>6, <1>7

\* The rest of a streamed message.
LEMMA TEndStream ==
  ASSUME SInv, TInv, setting' = setting, EndStream
  PROVE  TInv'
<1>1. Types /\ Calling /\ (Dark => out = <<>>)
  BY DEF SInv, Framed
<1>2. /\ call = NoCall /\ stream.open /\ stream' = NoStream /\ Sends(<<Payload>>)
      /\ Payload \in Sent /\ Payload.id = 0
      /\ StreamCall \in [for : {"nothing", "puback", "pubrec"}, n : {calls}, qos : 0 .. 2]
      /\ StreamCall.for = "nothing" <=> stream.qos = 0
      /\ StreamCall.for = "pubrec" <=> stream.qos = 2
      /\ IF StreamCall.for = "nothing"
         THEN call' = NoCall /\ result' = [call |-> StreamCall, ok |-> TRUE]
         ELSE call' = StreamCall /\ result' = result
      /\ waited' = 0
      /\ UNCHANGED <<txPacketId, in, cut, polled, taken, calls>>
  BY <1>1, EndStreamIs
<1>3. /\ NoCall.for = "nothing" /\ ~ NoStream.open /\ stream.qos \in 0 .. 2
      /\ StreamCall.for \in {"nothing", "puback", "pubrec"}
  BY <1>1, <1>2 DEF NoCall, NoStream, Types
<1>4. /\ Busy <=> stream.qos > 0
      /\ Busy' <=> StreamCall.for # "nothing"
  <2>1. CASE StreamCall.for = "nothing"
    BY <1>2, <1>3, <2>1 DEF Busy
  <2>2. CASE StreamCall.for # "nothing"
    BY <1>2, <1>3, <2>2 DEF Busy
  <2> QED BY <2>1, <2>2
<1>5. ~ Lapsed' /\ Busy' = Busy /\ ~ stream'.open
  <2>1. call'.for # "pubcomp"
    BY <1>2, <1>3
  <2>2. waited' = 0
    BY <1>2
  <2>3. Busy' <=> Busy
    BY <1>2, <1>3, <1>4
  <2> QED BY <1>2, <1>3, <2>1, <2>2, <2>3 DEF Lapsed, Busy
<1>6. call'.for = "pubrec" => stream.open /\ stream.qos = 2
  BY <1>2, <1>3
<1>7. Wide' /\ Lined' /\ OwnTrue'
  BY <1>2, <1>5, <1>6, TSends DEF TInv
<1>8. TrueMeansDone'
  <2>1. CASE StreamCall.for = "nothing"
    BY <1>2, <2>1 DEF TrueMeansDone
  <2>2. CASE StreamCall.for # "nothing"
    BY <1>2, <2>2 DEF TInv, TrueMeansDone
  <2> QED BY <2>1, <2>2
<1> QED BY <1>7, <1>8 DEF TInv

\* stop().
LEMMA TDisconnect ==
  ASSUME SInv, TInv, setting' = setting, Disconnect
  PROVE  TInv'
<1>1. sock' = FALSE /\ in' = <<>> /\ out' = <<>> /\ UNCHANGED <<result, taken>>
  BY DEF Disconnect, Closed
<1>2. TrueMeansDone'
  BY <1>1 DEF TInv, TrueMeansDone
<1> QED BY <1>1, <1>2, TClosed DEF TInv

\* connect(): nothing under way has an id, and the ids start again.
LEMMA TConnect ==
  ASSUME SInv, TInv, setting' = setting, Connect
  PROVE  TInv'
<1>1. Types /\ Wide /\ Wide'
  BY OldestLater DEF SInv, TInv
<1>2. /\ ~ stream.open /\ in' = <<>> /\ UNCHANGED <<stream, taken>>
      /\ ConnectFails \/ ConnectGoes
  BY ConnectIs
<1>3. CASE ConnectFails
  <2>1. TrueMeansDone'
    BY <1>3 DEF ConnectFails, TrueMeansDone
  <2> QED BY <1>1, <1>2, <1>3, <2>1, TClosed DEF ConnectFails
<1>4. CASE ConnectGoes
  <2>1. /\ out' = <<Packet("connect", 0, calls + 1)>> /\ call'.for = "connack" /\ result' = result
        /\ ~ Dark'
    BY <1>4 DEF ConnectGoes, ConnectCall, Dark
  <2>2. \A i \in DOMAIN out' : out'[i].id = 0
    BY <2>1 DEF Packet
  <2>3. LineOf(in', out', txPacketId', MaxId', Oldest')
    BY <1>2, <2>2, LineOfNone
  <2>4. Lined'
    BY <2>1, <2>3 DEF Lined
  <2>5. OwnTrue'
    BY <1>2, <2>1 DEF OwnTrue, Busy
  <2>6. TrueMeansDone'
    BY <1>2, <2>1 DEF TInv, TrueMeansDone
  <2> QED BY <1>1, <2>4, <2>5, <2>6 DEF TInv
<1> QED BY <1>2, <1>3, <1>4

\* No packet under way has the id given next.
LEMMA NearNext ==
  ASSUME NEW m \in Nat, m >= 2, NEW tx \in 0 .. m, NEW b \in Nat, b <= m - 2, NEW s,
         \A i \in DOMAIN s : s[i].id \in 0 .. m, Near(s, tx, m, b),
         NEW next, next = IF tx = m THEN 1 ELSE tx + 1
  PROVE  /\ Near(s, next, m, b + 1)
         /\ \A i \in DOMAIN s : s[i].id # next
<1>1. next \in 1 .. m
  OBVIOUS
<1>2. ASSUME NEW i \in DOMAIN s, s[i].id # 0
      PROVE  next > 0 /\ Gap(s[i].id, next, m) <= b + 1 /\ s[i].id # next
  <2>1. /\ tx \in 1 .. m /\ s[i].id \in 1 .. m
        /\ Gap(s[i].id, tx, m) \in Nat /\ Gap(s[i].id, tx, m) <= b
    BY <1>2, GapsOf
  <2>2. Gap(s[i].id, next, m) = Gap(s[i].id, tx, m) + 1
    <3>1. Gap(s[i].id, tx, m) <= m - 2
      BY <2>1
    <3> QED BY <2>1, <3>1, GapNext
  <2>3. s[i].id # next
    <3>1. Gap(s[i].id, next, m) # 0
      BY <2>1, <2>2
    <3> QED BY <1>1, <2>1, <3>1, GapIs
  <2> QED BY <1>1, <2>1, <2>2, <2>3
<1> QED BY <1>1, <1>2 DEF Near

\* A new call may have one more packet id behind it.
LEMMA OldestNext ==
  ASSUME Types, Wide, setting' = setting, ~ (Busy /\ ~ Lapsed), Busy', ~ Lapsed',
         Dark => Dark', Dark' => Dark, polled' = polled
  PROVE  Oldest' = Oldest + 1
<1>1. MaxId \in Nat /\ MaxId >= 3 /\ MaxId' = MaxId
  BY IdsUnderWay, LimitsStay
<1>2. PICK y \in {0, 1} : y = IF Dark /\ ~ polled THEN 1 ELSE 0
  OBVIOUS
<1>3. y = IF Dark' /\ ~ polled' THEN 1 ELSE 0
  BY <1>2
<1>4. Oldest = (MaxId - 3) + y
  BY <1>1, <1>2 DEF Oldest
<1>5. Oldest' = ((MaxId - 3) + 1) + y
  BY <1>1, <1>3 DEF Oldest
<1> QED BY ONLY <1>1, <1>4, <1>5, y \in {0, 1}

\* A call is begun: its packet id is no other packet's.
LEMMA TNewCall ==
  ASSUME SInv, TInv, setting' = setting, NEW c, NEW id, NEW p, NewCall(c, id, p)
  PROVE  TInv'
<1>1. Types /\ Calling /\ Framed /\ (Dark => out = <<>>) /\ Wide /\ Lined
  BY DEF SInv, Framed, TInv
<1>2. /\ call = NoCall /\ ~ stream.open /\ SendsAndWaits(c, id, p)
      /\ c.for \in {"nothing", "suback", "unsuback", "puback", "pubrec"} /\ c.n = calls + 1
      /\ p.id = id /\ p.n = calls + 1 /\ p \in Sent /\ <<p>> \in Seq(Sent)
  BY DEF NewCall
<1>3. ~ Busy /\ NoCall.for = "nothing" /\ Wide' /\ Oldest' \in Nat /\ MaxId' = MaxId
  BY <1>1, <1>2, OldestLater DEF Busy, NoCall
<1>4. /\ calls' = c.n /\ txPacketId' = (IF id = 0 THEN txPacketId ELSE id) /\ waited' = 0
      /\ UNCHANGED <<polled, taken>>
      /\ \/ /\ Sends(<<p>>) /\ sock' = TRUE /\ in' = in /\ cut' = cut
            /\ IF c.for = "nothing"
               THEN call' = NoCall /\ result' = [call |-> c, ok |-> TRUE]
               ELSE call' = c /\ result' = result
         \/ /\ sock' = FALSE /\ in' = <<>> /\ out' = <<>>
            /\ result' = [call |-> c, ok |-> FALSE]
  BY <1>2 DEF SendsAndWaits
<1>5. CASE sock' = FALSE /\ in' = <<>> /\ out' = <<>> /\ result' = [call |-> c, ok |-> FALSE]
  <2>1. TrueMeansDone'
    BY <1>5 DEF TrueMeansDone
  <2> QED BY <1>1, <1>5, <2>1, TClosed
<1>6. CASE /\ Sends(<<p>>) /\ sock' = TRUE /\ in' = in /\ cut' = cut
           /\ IF c.for = "nothing"
              THEN call' = NoCall /\ result' = [call |-> c, ok |-> TRUE]
              ELSE call' = c /\ result' = result
  <2>1. (Dark => Dark') /\ (Dark' => Dark) /\ (Lost \/ Grows(<<p>>))
    BY <1>1, <1>2, <1>6, SendsGrow DEF Sends, Dark
  <2>2. TrueMeansDone'
    <3>1. CASE c.for = "nothing"
      BY <1>6, <3>1 DEF TrueMeansDone
    <3>2. CASE c.for # "nothing"
      BY <1>4, <1>6, <3>2 DEF TInv, TrueMeansDone
    <3> QED BY <3>1, <3>2
  <2>3. ASSUME id = 0 PROVE Lined' /\ OwnTrue'
    <3>1. c.for = "nothing" /\ (~ stream'.open \/ stream'.qos = 0)
      <4>1. c.for = "nothing"
        BY <1>1, <1>2, <2>3, IdsAreValid DEF NewCall
      <4> QED BY <1>2, <2>3, <4>1 DEF NewCall
    <3>2. ~ Busy' /\ OwnTrue'
      BY <1>3, <1>6, <3>1 DEF Busy, OwnTrue
    <3>3. Oldest <= Oldest' /\ txPacketId' = txPacketId
      BY <1>1, <1>3, <1>4, <2>1, <2>3, OldestGrows
    <3>4. ASSUME Lost PROVE Lined'
      BY <1>1, <1>3, <1>6, <3>3, <3>4, LDark DEF Lost
    <3>5. ASSUME Grows(<<p>>) PROVE Lined'
      <4>1. OwnOnly(<<p>>)
        BY <1>2, <2>3 DEF OwnOnly
      <4> QED BY <1>1, <1>3, <1>6, <3>3, <3>5, <4>1, LGrows
    <3> QED BY <2>1, <3>2, <3>4, <3>5
  <2>4. ASSUME id # 0 PROVE Lined' /\ OwnTrue'
    <3> DEFINE tx == txPacketId
               next == txPacketId'
               m == MaxId
    <3>1. /\ id = NextId /\ p.type \in Requests \ {"pubrel"} /\ next = p.id
          /\ next = IF tx = m THEN 1 ELSE tx + 1
      BY <1>2, <1>4, <2>4 DEF NewCall, NextId
    <3>2. Busy' /\ ~ Lapsed'
      <4>1. CASE c.for = "nothing"
        <5>1. stream'.open /\ stream'.qos # 0 /\ stream'.qos \in 0 .. 2 /\ call' = NoCall
          BY <1>2, <1>6, <2>4, <4>1 DEF NewCall
        <5> QED BY <1>3, <1>4, <5>1 DEF Busy, Lapsed
      <4>2. CASE c.for # "nothing"
        <5>1. call' = c /\ c.for \in {"suback", "unsuback", "puback", "pubrec"}
          BY <1>2, <1>6, <4>2
        <5> QED BY <1>4, <5>1 DEF Busy, Lapsed
      <4> QED BY <4>1, <4>2
    <3>3. /\ Oldest' = Oldest + 1 /\ Oldest \in Nat /\ Oldest <= m - 2
          /\ m \in Nat /\ m >= 2 /\ tx \in 0 .. m
          /\ \A i \in DOMAIN in : in[i].id \in 0 .. m
          /\ \A i \in DOMAIN out : out[i].id \in 0 .. m
      BY <1>1, <1>3, <1>4, <2>1, <3>2, OldestNext, OldestIs, IdsUnderWay
    <3>4. Near(in, tx, m, Oldest) /\ Near(out, tx, m, Oldest)
      BY <1>1, LinedIs
    <3>5. /\ Near(in, next, m, Oldest') /\ \A i \in DOMAIN in : in[i].id # next
          /\ \A i \in DOMAIN out : out[i].id # next
      BY <3>1, <3>3, <3>4, NearNext
    <3>6. TrueIn'
      BY <1>6, <3>5 DEF TrueIn
    <3>7. ASSUME Lost PROVE Lined' /\ OwnTrue'
      <4>1. Lined'
        BY <1>3, <1>6, <3>5, <3>7 DEF Lost, Lined
      <4>2. OwnTrue'
        BY <3>6, <3>7 DEF Lost, OwnTrue, TrueOut
      <4> QED BY <4>1, <4>2
    <3>8. ASSUME Grows(<<p>>) PROVE Lined' /\ OwnTrue'
      <4>1. ~ Dark /\ ~ Dark' /\ out' = out \o <<p>> /\ in \in Seq(Received) /\ out \in Seq(Sent)
        BY <1>1, <3>8 DEF Grows, Types
      <4>2. LineOf(in, out, tx, m, Oldest)
        BY <1>1, <4>1 DEF Lined
      <4>3. LineOf(in, out \o <<p>>, next, m, Oldest + 1)
        BY <1>2, <3>1, <3>3, <4>1, <4>2, LineNext
      <4>4. Lined'
        BY <1>3, <1>6, <3>3, <4>1, <4>3 DEF Lined
      <4> DEFINE t == out'
                 n == Len(out) + 1
      <4>5. /\ Len(t) = n /\ DOMAIN t = 1 .. n /\ n \in DOMAIN t /\ t[n] = p
            /\ \A i \in DOMAIN t : i = n \/ (i \in DOMAIN out /\ t[i] = out[i])
            /\ n + 1 .. Len(t) = {}
        BY <1>2, <4>1, Behind1
      <4> HIDE DEF t
      <4>6. ASSUME NEW j \in DOMAIN t, t[j].id = next
            PROVE  t[j].type # "pubrel" /\ t[j].n = calls'
        <5>1. j = n
          BY <3>5, <4>5, <4>6
        <5> QED BY <1>2, <1>4, <3>1, <4>5, <5>1
      <4>7. TrueOut'
        BY <4>6 DEF TrueOut, t
      <4>8. ASSUME call'.for = "pubrec" \/ (stream'.open /\ stream'.qos = 2)
            PROVE  Message2(t[n], next) /\ (stream'.open => t[n].type = "header2")
        <5>1. call'.for = "pubrec" => c.for = "pubrec"
          BY <1>3, <1>6
        <5>2. p.type \in {"publish2", "header2"}
          BY <4>8, <5>1 DEF NewCall
        <5>3. stream'.open => p.type \in Headers
          BY <1>2 DEF NewCall
        <5> QED BY <3>1, <4>5, <5>2, <5>3 DEF Message2, Headers
      <4>9. OnItsWay'
        <5>1. call'.for = "pubrec" => \E i \in DOMAIN t : Message2(t[i], next)
          BY <4>5, <4>8
        <5>2. stream'.open /\ stream'.qos = 2 => Begun2(t, next)
          BY <4>5, <4>8 DEF Begun2
        <5> QED BY <5>1, <5>2 DEF OnItsWay, t
      <4> QED BY <3>6, <4>4, <4>7, <4>9 DEF OwnTrue
    <3> QED BY <2>1, <3>7, <3>8
  <2> QED BY <1>3, <2>2, <2>3, <2>4 DEF TInv
<1> QED BY <1>4, <1>5, <1>6

\* The connection breaks: what had been sent is lost.
LEMMA TBrokerCloses ==
  ASSUME SInv, TInv, setting' = setting, BrokerCloses \/ Cut
  PROVE  TInv'
<1>1. /\ out' = <<>> /\ (in' = in \/ in' = <<>>) /\ Dark'
      /\ UNCHANGED <<txPacketId, call, stream, taken, calls, waited, polled, result>>
  BY DEF BrokerCloses, Cut, times, Dark
<1>2. Busy' = Busy /\ Lapsed' = Lapsed
  BY <1>1 DEF Busy, Lapsed
<1>3. Types /\ Wide /\ Lined /\ OwnTrue
  BY DEF SInv, TInv
<1>4. Oldest <= Oldest' /\ Oldest' \in Nat /\ Wide'
  BY <1>1, <1>2, <1>3, OldestGrows
<1>5. Lined'
  BY <1>1, <1>3, <1>4, LDark
<1>6. OwnTrue'
  BY <1>1, <1>2, <1>3, ODark
<1> QED BY <1>1, <1>4, <1>5, <1>6 DEF TInv, TrueMeansDone

\* The oldest packet may be as old as before, or older, when time goes on without a
\* connection.
LEMMA OldestTicks ==
  ASSUME Types, Calling, Wide, setting' = setting, Tick, Dark
  PROVE  Oldest <= Oldest'
<1>1. MaxId \in Nat /\ MaxId >= 3 /\ MaxId' = MaxId
  BY IdsUnderWay, LimitsStay
<1>2. /\ polled' = FALSE /\ (connected \/ call # NoCall => polled) /\ UNCHANGED <<call, stream>>
      /\ waited' = IF call = NoCall THEN 0 ELSE Older(waited, ConnectionTimeout)
      /\ Dark'
  BY DEF Tick, link, Dark
<1>3. PICK x \in {0, 1} : x = IF Busy /\ ~ Lapsed THEN 1 ELSE 0
  OBVIOUS
<1>4. PICK y \in {0, 1} : y = IF Dark /\ ~ polled THEN 1 ELSE 0
  OBVIOUS
<1>5. PICK x1 \in {0, 1} : x1 = IF Busy' /\ ~ Lapsed' THEN 1 ELSE 0
  OBVIOUS
<1>6. Oldest = ((MaxId - 3) + x) + y /\ Oldest' = ((MaxId - 3) + x1) + 1
  BY <1>1, <1>2, <1>3, <1>4, <1>5 DEF Oldest
<1>7. polled => y = 0
  BY <1>4
<1>8. ASSUME ~ polled PROVE x = x1
  <2>1. call = NoCall /\ waited' = 0 /\ waited = 0
    BY <1>2, <1>8 DEF Calling, NoCall
  <2>2. Busy' = Busy /\ Lapsed' = Lapsed
    BY <1>2, <2>1 DEF Busy, Lapsed
  <2> QED BY <1>3, <1>5, <2>2
<1>9. polled \in BOOLEAN
  BY DEF Types
<1> QED
  BY ONLY <1>1, <1>6, <1>7, <1>8, <1>9, x \in {0, 1}, y \in {0, 1}, x1 \in {0, 1}

\* Time goes on with few packets under way: none of them is old.
LEMMA TTick ==
  ASSUME SInv, TInv, setting' = setting, Tick
  PROVE  TInv'
<1>1. Types /\ Calling /\ (Dark => out = <<>>) /\ Wide /\ Lined /\ OwnTrue
  BY DEF SInv, Framed, TInv
<1>2. /\ Timely => ~ Answerable
      /\ Len(in) + Len(out) <= MaxLate
      /\ UNCHANGED <<sock, in, out, cut, txPacketId, call, stream, taken, calls, result>>
      /\ (Dark => Dark') /\ (Dark' => Dark)
  BY DEF Tick, link, Dark
<1>3. Wide' /\ Oldest' \in Nat /\ MaxId' = MaxId /\ Oldest' >= MaxId - 3
  <2>1. PICK x \in {0, 1} : x = IF Busy' /\ ~ Lapsed' THEN 1 ELSE 0
    OBVIOUS
  <2>2. PICK y \in {0, 1} : y = IF Dark' /\ ~ polled' THEN 1 ELSE 0
    OBVIOUS
  <2>3. MaxId \in Nat /\ MaxId' = MaxId /\ Wide' /\ Oldest' \in Nat
    BY <1>1, OldestLater, IdsUnderWay
  <2>4. Oldest' = ((MaxId - 3) + x) + y
    BY <2>1, <2>2, <2>3 DEF Oldest
  <2>5. Oldest' >= MaxId - 3
    BY ONLY <2>3, <2>4, x \in {0, 1}, y \in {0, 1}
  <2> QED BY <2>3, <2>5
<1>4. OwnTrue'
  <2>1. Busy' = Busy
    BY <1>2 DEF Busy
  <2> QED BY <1>1, <1>2, <2>1 DEF OwnTrue, TrueIn, TrueOut, OnItsWay
<1>5. ASSUME Dark PROVE Lined'
  <2>1. Oldest <= Oldest'
    BY <1>1, <1>5, OldestTicks
  <2> QED BY <1>1, <1>2, <1>3, <1>5, <2>1, LDark
<1>6. ASSUME ~ Dark PROVE Lined'
  <2>1. /\ LineOf(in, out, txPacketId, MaxId, Oldest) /\ in \in Seq(Received) /\ out \in Seq(Sent)
        /\ Near(in, txPacketId, MaxId, Oldest) /\ Near(out, txPacketId, MaxId, Oldest)
        /\ NoGaps(in, out, txPacketId, MaxId)
    BY <1>1, <1>6 DEF Lined, LineOf, Types
  <2>2. /\ MaxId \in Nat /\ MaxId >= 3 /\ MaxId >= 2 /\ txPacketId \in 0 .. MaxId
        /\ \A i \in DOMAIN in : in[i].id \in 0 .. MaxId
        /\ \A i \in DOMAIN out : out[i].id \in 0 .. MaxId
        /\ Oldest \in Int /\ Oldest' \in Int
    BY <1>1, <1>3, IdsUnderWay, OldestIs
  <2>3. /\ \A i \in DOMAIN in : in[i].id # 0 => Gap(in[i].id, txPacketId, MaxId) \in Nat
        /\ \A i \in DOMAIN out : out[i].id # 0 => Gap(out[i].id, txPacketId, MaxId) \in Nat
    BY <2>1, <2>2, GapsOf
  <2>4. /\ \A i \in DOMAIN in : in[i].id # 0 =>
             Gap(in[i].id, txPacketId, MaxId) + 1 <= Len(in) + Len(out)
        /\ \A i \in DOMAIN out : out[i].id # 0 =>
             Gap(out[i].id, txPacketId, MaxId) + 1 <= Len(in) + Len(out)
    <3>1. in \in Seq(Received \cup Sent) /\ out \in Seq(Received \cup Sent)
      BY <2>1
    <3> QED BY <2>1, <2>3, <3>1, NoGapsIsShort
  <2>5. Len(in) + Len(out) <= MaxId - 2 /\ Len(in) \in Nat /\ Len(out) \in Nat
    <3>0. Len(in) \in Nat /\ Len(out) \in Nat /\ MaxLate \in Nat
      BY <1>1, <2>1, Limits DEF Types
    <3>1. CASE ~ Timely
      <4>1. MaxId >= MaxLate + 2
        BY <1>1, <3>1 DEF Wide
      <4> QED BY <1>2, <2>2, <3>0, <4>1
    <3>2. CASE Timely
      <4>1. in = <<>> /\ (out = <<>> \/ Len(out) = 1)
        BY <1>2, <1>6, <3>2 DEF Answerable, Dark
      <4>2. Len(in) = 0 /\ (Len(out) = 0 \/ Len(out) = 1)
        BY <4>1
      <4>3. Len(in) + Len(out) <= 1
        BY <4>2
      <4>4. MaxId - 2 >= 1 /\ MaxId \in Nat
        BY <2>2
      <4> QED BY ONLY <3>0, <4>3, <4>4
    <3> QED BY <3>1, <3>2
  <2>6. /\ \A i \in DOMAIN in : in[i].id # 0 => Gap(in[i].id, txPacketId, MaxId) <= Oldest'
        /\ \A i \in DOMAIN out : out[i].id # 0 => Gap(out[i].id, txPacketId, MaxId) <= Oldest'
    BY <1>3, <2>2, <2>3, <2>4, <2>5
  <2>7. Near(in, txPacketId, MaxId, Oldest') /\ Near(out, txPacketId, MaxId, Oldest')
    BY <2>1, <2>2, <2>6, NearStays
  <2> QED BY <1>2, <1>3, <1>6, <2>1, <2>7 DEF Lined, LineOf
<1> QED BY <1>2, <1>3, <1>4, <1>5, <1>6 DEF TInv, TrueMeansDone

\* The broker takes a packet of the call: then the call is done, but for a subscription
\* that is refused.
LEMMA TBrokerHandle ==
  ASSUME SInv, KInv, TInv, setting' = setting, NEW k, NEW ps, NEW ns, Handled(k, ps, ns)
  PROVE  TInv'
<1> DEFINE tx == txPacketId
           m == MaxId
<1>1. Types /\ Calling /\ Wide /\ Lined /\ OwnTrue
  BY DEF SInv, TInv
<1>2. /\ Len(in) \in Nat /\ Len(out) \in Nat
      /\ \A i \in DOMAIN in' : \/ i \in DOMAIN in /\ in'[i] = in[i]
                               \/ Answer(out[1], in'[i], ns)
      /\ k \in 1 .. 2 /\ k <= Len(out) /\ DOMAIN out' = 1 .. Len(out) - k
      /\ DOMAIN out = 1 .. Len(out) /\ DOMAIN in = 1 .. Len(in) /\ DOMAIN in' = 1 .. Len(in')
      /\ \A i \in 1 .. Len(out) - k : out'[i] = out[i + k]
      /\ \A i \in DOMAIN in : i \in DOMAIN in' /\ in'[i] = in[i]
      /\ \A q : ps = <<q>> => Len(in) + 1 \in DOMAIN in' /\ in'[Len(in) + 1] = q
      /\ Len(out') = Len(out) - k
  BY <1>1, HandledLeaves
<1>3. /\ ~ Dark /\ ~ Dark' /\ taken' = taken \cup ns
      /\ UNCHANGED <<polled, waited, call, stream, calls, txPacketId, result>>
      /\ k = 2 => out[2].type = "payload"
      /\ k = 2 <=> out[1].type \in Headers
      /\ \/ ps = <<>> /\ out[1].type \in {"publish", "header"}
         \/ \E q : ps = <<q>> /\ Answer(out[1], q, ns)
  BY DEF Handled, Dark
<1>4. 1 \in DOMAIN out /\ out[1] \in Sent /\ (k = 2 => 2 \in DOMAIN out /\ out[2] \in Sent)
  BY <1>1, <1>2 DEF Types
<1>5. /\ out[1].type \in {"connect", "pingreq", "publish", "header"} => out[1].id = 0
      /\ k = 2 => out[2].id = 0
  <2>1. out[1].type \in {"connect", "pingreq", "publish", "header"} => out[1].id = 0
    BY <1>4 DEF Sent, Requests
  <2>2. k = 2 => out[2].id = 0
    BY <1>3, <1>4 DEF Sent, Requests
  <2> QED BY <2>1, <2>2
<1>6. \A q : Answer(out[1], q, ns) => q.id = out[1].id
  <2> SUFFICES ASSUME NEW q, Answer(out[1], q, ns) PROVE q.id = out[1].id
    OBVIOUS
  <2>1. q \in Received
    BY DEF Answer
  <2>2. q.type \in {"connack", "pingresp"} => q.id = 0
    BY <2>1 DEF Received, Acks
  <2> QED BY <1>5, <2>2 DEF Answer
<1>7. Wide' /\ Oldest' = Oldest /\ MaxId' = MaxId
  BY <1>1, <1>3, LimitsStay, OldestLater DEF Oldest, Busy, Lapsed
<1>8. Lined'
  <2>1. LineOf(in, out, tx, m, Oldest)
    BY <1>1, <1>3 DEF Lined
  <2>2. /\ DOMAIN in \subseteq DOMAIN in' /\ \A i \in DOMAIN in : in'[i] = in[i]
        /\ DOMAIN in' \subseteq Nat \ {0}
        /\ \A i \in DOMAIN in' : (i \in DOMAIN in /\ in'[i] = in[i]) \/ in'[i].id = out[1].id
    BY <1>2, <1>6
  <2>3. out[1].id # 0 => \E i \in DOMAIN in' : in'[i].id = out[1].id
    BY <1>2, <1>3, <1>5, <1>6
  <2>4. /\ Len(out) \in Nat /\ k \in 1 .. 2 /\ k <= Len(out)
        /\ DOMAIN out = 1 .. Len(out) /\ DOMAIN out' = 1 .. Len(out) - k
        /\ \A i \in 1 .. Len(out) - k : out'[i] = out[i + k]
        /\ k = 2 => out[2].id = 0
    BY <1>2, <1>5
  <2>5. LineOf(in', out', tx, m, Oldest)
    <3>1. Taking(in, out, in', out', Len(out), k)
      BY <2>2, <2>3, <2>4 DEF Taking
    <3> QED BY <2>1, <3>1, LineTaken
  <2> QED BY <1>3, <1>7, <2>5 DEF Lined
<1>9. ASSUME Busy PROVE TrueIn' /\ TrueOut' /\ OnItsWay'
  <2>1. TrueIn /\ TrueOut /\ OnItsWay /\ tx > 0
    BY <1>1, <1>3, <1>9 DEF OwnTrue, Calling
  <2>2. ASSUME Message2(out[1], tx) PROVE calls \in taken'
    <3>1. out[1].id = tx /\ out[1].type \in {"publish2", "header2"}
      BY <2>2 DEF Message2
    <3>2. out[1].n = calls
      BY <1>4, <2>1, <3>1 DEF TrueOut
    <3>3. PICK q : Answer(out[1], q, ns)
      BY <1>3, <3>1
    <3>4. ns = {calls}
      BY <3>1, <3>2, <3>3 DEF Answer
    <3> QED BY <1>3, <3>4
  <2>3. ASSUME NEW i \in DOMAIN in', in'[i].id = tx
        PROVE  calls \in taken' \/ (in'[i].type = "suback" /\ in'[i].n = 128)
    <3>1. CASE i \in DOMAIN in /\ in'[i] = in[i]
      BY <1>3, <2>1, <2>3, <3>1 DEF TrueIn
    <3>2. CASE Answer(out[1], in'[i], ns)
      <4>1. out[1].id = tx /\ out[1].id # 0
        BY <1>1, <1>6, <2>1, <2>3, <3>2, IdsUnderWay
      <4>2. CASE out[1].type = "pubrel"
        <5>1. calls \in taken \/ \E x \in 1 .. 1 - 1 : Message2(out[x], tx)
          BY <1>4, <2>1, <4>1, <4>2 DEF TrueOut
        <5> QED BY <1>3, <5>1
      <4>3. CASE out[1].type # "pubrel"
        <5>1. out[1].n = calls
          BY <1>4, <2>1, <4>1, <4>3 DEF TrueOut
        <5>2. (in'[i].type = "suback" /\ in'[i].n = 128) \/ ns = {calls}
          BY <1>5, <3>2, <4>1, <4>3, <5>1 DEF Answer
        <5> QED BY <1>3, <5>2
      <4> QED BY <4>2, <4>3
    <3> QED BY <1>2, <3>1, <3>2
  <2>4. ASSUME NEW i \in DOMAIN out, Message2(out[i], tx)
        PROVE  calls \in taken' \/ (i - k \in DOMAIN out' /\ Message2(out'[i - k], tx))
    <3>1. CASE i = 1
      BY <2>2, <2>4, <3>1
    <3>2. CASE i > k
      <4>1. i - k \in 1 .. Len(out) - k /\ (i - k) + k = i
        BY <1>2, <3>2
      <4> QED BY <1>2, <2>4, <4>1
    <3>3. ~ (i = 2 /\ k = 2)
      BY <1>3, <2>4 DEF Message2
    <3>4. i = 1 \/ i > k \/ (i = 2 /\ k = 2)
      BY <1>2
    <3> QED BY <3>1, <3>2, <3>3, <3>4
  <2>5. ASSUME NEW j \in DOMAIN out', out'[j].id = tx
        PROVE  IF out'[j].type = "pubrel"
               THEN calls \in taken' \/ \E i \in 1 .. j - 1 : Message2(out'[i], tx)
               ELSE out'[j].n = calls
    <3>1. j + k \in DOMAIN out /\ out'[j] = out[j + k] /\ j \in Nat
      BY <1>2
    <3>2. CASE out'[j].type = "pubrel"
      <4>1. calls \in taken \/ \E i \in 1 .. (j + k) - 1 : Message2(out[i], tx)
        BY <2>1, <2>5, <3>1, <3>2 DEF TrueOut
      <4>2. ASSUME NEW i \in 1 .. (j + k) - 1, Message2(out[i], tx)
            PROVE  calls \in taken' \/ \E x \in 1 .. j - 1 : Message2(out'[x], tx)
        <5>1. i \in DOMAIN out
          BY <1>2, <3>1
        <5>2. i - k \in DOMAIN out' => i - k \in 1 .. j - 1
          BY <1>2, <3>1
        <5> QED BY <2>4, <4>2, <5>1, <5>2
      <4> QED BY <1>3, <3>2, <4>1, <4>2
    <3>3. CASE out'[j].type # "pubrel"
      BY <2>1, <2>5, <3>1, <3>3 DEF TrueOut
    <3> QED BY <3>2, <3>3
  <2>6. ASSUME call.for = "pubrec"
        PROVE  calls \in taken' \/ \E i \in DOMAIN out' : Message2(out'[i], tx)
    <3>1. calls \in taken \/ \E i \in DOMAIN out : Message2(out[i], tx)
      BY <2>1, <2>6 DEF OnItsWay
    <3> QED BY <1>3, <2>4, <3>1
  <2>7. ASSUME stream.open, stream.qos = 2
        PROVE  Begun2(out', tx)
    <3>1. PICK i \in DOMAIN out : /\ Message2(out[i], tx) /\ out[i].type = "header2"
                                  /\ \A x \in i + 1 .. Len(out) : out[x].type = "pingreq"
      BY <2>1, <2>7 DEF OnItsWay, Begun2
    <3>2. i > k
      <4>1. ASSUME i = 1 PROVE FALSE
        <5>1. k = 2 /\ 2 \in i + 1 .. Len(out)
          BY <1>2, <1>3, <3>1, <4>1 DEF Headers
        <5> QED BY <1>3, <3>1, <5>1
      <4>2. ~ (i = 2 /\ k = 2)
        BY <1>3, <3>1
      <4> QED BY <1>2, <4>1, <4>2
    <3>3. i - k \in DOMAIN out' /\ out'[i - k] = out[i]
      <4>1. i - k \in 1 .. Len(out) - k /\ (i - k) + k = i
        BY <1>2, <3>2
      <4> QED BY <1>2, <4>1
    <3>4. ASSUME NEW x \in (i - k) + 1 .. Len(out') PROVE out'[x].type = "pingreq"
      <4>1. x \in 1 .. Len(out) - k /\ x + k \in i + 1 .. Len(out)
        BY <1>2, <3>2, <3>4
      <4> QED BY <1>2, <3>1, <4>1
    <3> QED BY <3>1, <3>3, <3>4 DEF Begun2
  <2>8. TrueIn'
    BY <1>3, <2>3 DEF TrueIn
  <2>9. TrueOut'
    BY <1>3, <2>5 DEF TrueOut
  <2>10. OnItsWay'
    BY <1>3, <2>6, <2>7 DEF OnItsWay
  <2> QED BY <2>8, <2>9, <2>10
<1>10. OwnTrue'
  <2>1. Busy' = Busy
    BY <1>3 DEF Busy
  <2> QED BY <1>9, <2>1 DEF OwnTrue
<1>11. TrueMeansDone'
  BY <1>3 DEF TInv, TrueMeansDone
<1> QED BY <1>7, <1>8, <1>10, <1>11 DEF TInv

\* Nothing is reported or under way at the start.
LEMMA TInit == Init /\ Wide => TInv
<1> SUFFICES ASSUME Init, Wide PROVE TInv
  OBVIOUS
<1>1. /\ sock = FALSE /\ in = <<>> /\ out = <<>> /\ call = NoCall /\ stream = NoStream
      /\ result = [call |-> NoCall, ok |-> FALSE]
  BY DEF Init
<1>2. ~ Busy
  BY <1>1 DEF Busy, NoCall, NoStream
<1>3. Lined
  BY <1>1 DEF Lined, Dark, Near
<1>4. TrueMeansDone
  BY <1>1 DEF TrueMeansDone
<1> QED BY <1>2, <1>3, <1>4 DEF TInv, OwnTrue

\* Every step keeps what calls report.
LEMMA TNext ==
  ASSUME SInv, KInv, TInv, [Next]_<<setting, vars>>
  PROVE  TInv'
<1>1. Types /\ (Dark => out = <<>>)
  BY DEF SInv, Framed
<1>2. CASE UNCHANGED <<setting, vars>>
  <2>1. /\ UNCHANGED <<setting, sock, in, out, cut, polled, waited, result>>
        /\ UNCHANGED <<txPacketId, call, stream, taken, calls>>
    BY <1>2 DEF vars, link, times
  <2>2. /\ MaxId' = MaxId /\ Oldest' = Oldest /\ Busy' = Busy /\ Wide'
        /\ (Dark => Dark') /\ (Dark' => Dark)
    BY <2>1, LimitsStay DEF TInv, Wide, Oldest, Busy, Lapsed, Dark
  <2>3. Lined'
    BY <2>1, <2>2 DEF TInv, Lined
  <2>4. OwnTrue'
    BY <2>1, <2>2 DEF TInv, OwnTrue, TrueIn, TrueOut, OnItsWay
  <2> QED BY <2>1, <2>2, <2>3, <2>4 DEF TInv, TrueMeansDone
<1>3. CASE Next
  <2>1. setting' = setting
    BY <1>3 DEF Next
  <2>2. ASSUME Subscribe \/ Unsubscribe \/ \E qos \in 0 .. 2 : Publish(qos) \/ BeginStream(qos)
        PROVE  TInv'
    BY <1>1, <2>1, <2>2, NewCallIs, TNewCall
  <2>3. ASSUME BrokerHandle PROVE TInv'
    BY <1>1, <2>1, <2>3, HandleIs, TBrokerHandle
  <2> QED
    BY <1>3, <2>1, <2>2, <2>3, TPoll, TWaitOn, TAnswered, TGivesUp, TConnect, TEndStream,
       TDisconnect, TBrokerCloses, TTick DEF Next, Client, Caller, Network
<1> QED BY <1>2, <1>3

\* Where packet ids are not used up by what is under way, a call that reports success has
\* been taken by the broker.
THEOREM TrueIsDone == Spec /\ Wide => []TrueMeansDone
<1>1. TInv => TrueMeansDone
  BY DEF TInv
<1>2. Init /\ Wide => SInv /\ KInv /\ TInv
  BY SInit, KInit, TInit
<1>3. SInv /\ KInv /\ TInv /\ [Next]_<<setting, vars>> => SInv' /\ KInv' /\ TInv'
  BY SNext, KNext, TNext
<1> QED BY <1>1, <1>2, <1>3, PTL DEF Spec
=============================================================================

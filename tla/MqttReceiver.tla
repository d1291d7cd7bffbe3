---------------------------- MODULE MqttReceiver ----------------------------
(***************************************************************************)
(* ArduinoMqttClient, the receiving side: poll() takes the bytes of the    *)
(* broker's packets one by one through _rxState, hands a message to the    *)
(* application byte by byte and acknowledges it.  The bytes arrive in      *)
(* pieces of any size.  What the application does in between is free: it   *)
(* polls, reads some of a message or none of it, closes, connects again.   *)
(***************************************************************************)
EXTENDS Integers, Sequences, FiniteSets

CONSTANTS Payloads,      \* lengths of the messages' payloads
          Sizes,         \* sizes the application passes to read()
          Base,          \* 128: a byte of the remaining length is a digit
          TxPacketId,    \* _txPacketId: what the client waits for
          MaxPackets     \* bound: packets the broker sends

(* The broker's packets have a remaining length of one or two digits.      *)
ASSUME ReceiverAssumption ==
    /\ Payloads \subseteq Nat /\ Sizes \subseteq Nat \ {0}
    /\ Base \in Nat /\ Base > 2 /\ TxPacketId \in Nat /\ MaxPackets \in Nat
    /\ \A n \in Payloads : n + 5 < Base * Base

VARIABLES listens,     \* _onMessage: the sketch gave onMessage() a function
          rxState,     \* _rxState
          rx,          \* the other _rx fields
          returnCode,  \* _returnCode
          call,        \* what runs: nothing, poll(), or the callback in it
          open,        \* _client->connected(), as long as nothing is left to read
          in,          \* bytes in the socket's buffer
          wire,        \* bytes under way
          packets,     \* history: the packets sent by the broker
          last,        \* history: number of the packet of the byte last taken
          got,         \* history: payload bytes the application read, by packet
          sent         \* history: the acknowledgements, in order

rxVars == <<listens, rxState, rx, returnCode>>
vars == <<listens, rxState, rx, returnCode, call, open, in, wire, packets, last, got, sent>>

CONNACK == 2
PUBLISH == 3
PUBACK == 4
PUBREC == 5
PUBREL == 6
PUBCOMP == 7
SUBACK == 9
UNSUBACK == 11
PINGRESP == 13
NoCode == 999

RxStates == {"READ_TYPE", "READ_REMAINING_LENGTH", "READ_VARIABLE_HEADER",
             "READ_PUBLISH_TOPIC_LENGTH", "READ_PUBLISH_TOPIC", "READ_PUBLISH_PACKET_ID",
             "READ_PUBLISH_PAYLOAD", "DISCARD_PUBLISH_PAYLOAD"}

-----------------------------------------------------------------------------
(* The broker's packets as bytes                                           *)

Message(qos, n) == [type |-> PUBLISH, flags |-> 2 * qos, id |-> 0, payload |-> n]
Ack(type, flags, id) == [type |-> type, flags |-> flags, id |-> id, payload |-> 0]

Qos(p) == (p.flags \div 2) % 4
Fill(n) == [i \in 1 .. n |-> 66]
MessageBody(p, k) == <<0, 1, 65>> \o (IF Qos(p) > 0 THEN <<0, k>> ELSE <<>>) \o Fill(p.payload)
AnswerBody(p) ==
    CASE p.type = SUBACK -> <<0, p.id, 1>>
      [] p.type = PINGRESP -> <<>>
      [] OTHER -> <<0, p.id>> \o Fill(p.payload)
Body(p, k) == IF p.type = PUBLISH THEN MessageBody(p, k) ELSE AnswerBody(p)
Size(p) ==
    CASE p.type = PUBLISH -> 3 + (IF Qos(p) > 0 THEN 2 ELSE 0) + p.payload
      [] p.type = SUBACK -> 3
      [] p.type = PINGRESP -> 0
      [] OTHER -> 2 + p.payload
Digits(n) == IF n < Base THEN 1 ELSE 2
Length(n) == IF n < Base THEN <<n>> ELSE <<Base + (n % Base), n \div Base>>
Val(p, k, i) ==
    IF i = 1 THEN 16 * p.type + p.flags
    ELSE IF i <= 1 + Digits(Size(p)) THEN Length(Size(p))[i - 1]
    ELSE Body(p, k)[i - 1 - Digits(Size(p))]
PacketSize(p) == 1 + Digits(Size(p)) + Size(p)
Bytes(p, k) == [i \in 1 .. PacketSize(p) |-> [val |-> Val(p, k, i), of |-> k, part |-> i]]

Kinds == {Message(qos, n) : qos \in 0 .. 2, n \in Payloads}
         \cup {Ack(type, 0, id) : type \in {PUBACK, SUBACK}, id \in {TxPacketId, TxPacketId + 1}}
         \cup {Ack(PINGRESP, 0, 0), Ack(PUBACK, 1, 0), [Ack(PUBACK, 0, 0) EXCEPT !.payload = 2]}

Init ==
    /\ listens \in BOOLEAN
    /\ rxState = "READ_TYPE" /\ returnCode = NoCode /\ call = "none" /\ open = TRUE
    /\ rx = [type |-> 0, flags |-> 0, length |-> 0, multiplier |-> 1, buffer |-> <<>>,
             topicLength |-> 0, topic |-> 0, qos |-> 0, packetId |-> 0]
    /\ in = <<>> /\ wire = <<>> /\ packets = <<>> /\ last = 0 /\ sent = <<>>
    /\ got = [k \in 1 .. MaxPackets |-> 0]

(* PUBREL follows the PUBREC it answers.  A sketch without a callback gets *)
(* no empty message: behind one parseMessage() discards a byte of the next *)
(* packet, and nothing below would hold.                                   *)
Send(p) ==
    /\ open /\ Len(packets) < MaxPackets
    /\ p.type = PUBLISH /\ ~ listens => p.payload > 0
    /\ p.type = PUBREL => \E i \in DOMAIN sent : sent[i] = <<PUBREC, p.id>>
    /\ packets' = Append(packets, p)
    /\ wire' = wire \o Bytes(p, Len(packets) + 1)
    /\ UNCHANGED <<rxVars, call, open, in, last, got, sent>>

Arrive ==
    /\ open /\ wire # <<>>
    /\ \E n \in 1 .. Len(wire) :
         /\ in' = in \o SubSeq(wire, 1, n)
         /\ wire' = SubSeq(wire, n + 1, Len(wire))
    /\ UNCHANGED <<rxVars, call, open, packets, last, got, sent>>

PeerCloses ==
    /\ open /\ open' = FALSE /\ wire' = <<>>
    /\ UNCHANGED <<rxVars, call, in, packets, last, got, sent>>

-----------------------------------------------------------------------------
(* poll()                                                                  *)

CallPoll ==
    /\ call = "none" /\ call' = "poll"
    /\ rxState' = IF in = <<>> /\ ~ open THEN "READ_TYPE" ELSE rxState
    /\ UNCHANGED <<listens, rx, returnCode, open, in, wire, packets, last, got, sent>>

PollEnds ==
    /\ call = "poll" /\ in = <<>>
    /\ call' = "none"
    /\ UNCHANGED <<rxVars, open, in, wire, packets, last, got, sent>>

HasByte == call = "poll" /\ in # <<>>
b == Head(in).val

(* Taking a byte, in a poll() that looks for more afterwards.              *)
Take == /\ HasByte
        /\ in' = Tail(in) /\ last' = Head(in).of
        /\ UNCHANGED <<listens, wire, packets, got>>
Taken == Take /\ UNCHANGED <<call, open>>

(* stop(): the connection is closed and what it held is gone.              *)
Stop == /\ HasByte /\ call' = "none" /\ open' = FALSE /\ in' = <<>> /\ wire' = <<>>
        /\ last' = 0 /\ UNCHANGED <<listens, packets, got, sent>>

ReadType ==
    /\ rxState = "READ_TYPE" /\ Taken
    /\ rxState' = "READ_REMAINING_LENGTH"
    /\ rx' = [rx EXCEPT !.type = b \div 16, !.flags = b % 16, !.length = 0, !.multiplier = 1]
    /\ UNCHANGED <<returnCode, sent>>

Malformed(type, flags, length) ==
    CASE type \in {CONNACK, PUBACK, PUBREC, PUBCOMP, UNSUBACK} -> flags # 0 \/ length # 2
      [] type = PUBLISH -> (flags \div 2) % 4 = 3
      [] type = PUBREL -> flags # 2 \/ length # 2
      [] type = SUBACK -> flags # 0 \/ length # 3
      [] type = PINGRESP -> flags # 0 \/ length # 0
      [] OTHER -> TRUE

(* One digit of the remaining length; a fourth byte is not accepted.       *)
ReadRemainingLength ==
    LET length == rx.length + (b % Base) * rx.multiplier
        multiplier == rx.multiplier * Base
        long == multiplier > Base * Base * Base
        done == (b \div Base) % 2 = 0
        next == [rx EXCEPT !.length = length, !.multiplier = multiplier]
    IN
    /\ rxState = "READ_REMAINING_LENGTH" /\ HasByte
    /\ UNCHANGED returnCode
    /\ \/ /\ long \/ (done /\ Malformed(rx.type, rx.flags, length))
          /\ Stop /\ rx' = next /\ UNCHANGED rxState
       \/ /\ ~ long /\ ~ done
          /\ Taken /\ rx' = next /\ UNCHANGED <<rxState, sent>>
       \/ /\ ~ long /\ done /\ ~ Malformed(rx.type, rx.flags, length)
          /\ Taken /\ UNCHANGED sent
          /\ rx' = [next EXCEPT !.buffer = <<>>,
                                !.qos = IF rx.type = PUBLISH THEN (rx.flags \div 2) % 4 ELSE rx.qos]
          /\ rxState' = IF rx.type = PUBLISH THEN "READ_PUBLISH_TOPIC_LENGTH"
                        ELSE IF length = 0 THEN "READ_TYPE" ELSE "READ_VARIABLE_HEADER"

Word(buffer) == buffer[1] * 256 + buffer[2]

(* What a response does once its last byte is in.                          *)
Response(buffer) ==
    /\ returnCode' =
         CASE rx.type = CONNACK -> buffer[2]
           [] rx.type \in {PUBACK, PUBREC, PUBCOMP, UNSUBACK} /\ Word(buffer) = TxPacketId -> 0
           [] rx.type = SUBACK /\ Word(buffer) = TxPacketId -> buffer[3]
           [] OTHER -> returnCode
    /\ sent' = IF rx.type = PUBREL THEN Append(sent, <<PUBCOMP, Word(buffer)>>) ELSE sent

ReadVariableHeader ==
    LET buffer == Append(rx.buffer, b) IN
    /\ rxState = "READ_VARIABLE_HEADER" /\ Taken
    /\ rx' = [rx EXCEPT !.buffer = buffer]
    /\ IF Len(buffer) = rx.length
       THEN rxState' = "READ_TYPE" /\ Response(buffer)
       ELSE UNCHANGED <<rxState, returnCode, sent>>

(* The topic, and the packet id of a message that has one, must fit.       *)
Short(length, topicLength, qos) == length < topicLength + (IF qos > 0 THEN 2 ELSE 0)

ReadTopicLength ==
    LET buffer == Append(rx.buffer, b)
        next == [rx EXCEPT !.buffer = <<>>, !.topicLength = Word(buffer),
                           !.length = rx.length - 2, !.topic = 0]
    IN
    /\ rxState = "READ_PUBLISH_TOPIC_LENGTH" /\ HasByte
    /\ UNCHANGED returnCode
    /\ \/ /\ Len(buffer) < 2
          /\ Taken /\ rx' = [rx EXCEPT !.buffer = buffer] /\ UNCHANGED <<rxState, sent>>
       \/ /\ Len(buffer) = 2 /\ Short(rx.length - 2, Word(buffer), rx.qos)
          /\ Stop /\ rx' = next /\ UNCHANGED rxState
       \/ /\ Len(buffer) = 2 /\ ~ Short(rx.length - 2, Word(buffer), rx.qos)
          /\ Taken /\ rx' = next /\ UNCHANGED sent
          /\ rxState' = "READ_PUBLISH_TOPIC"

(* poll() leaves its loop with a message for the application, or calls the *)
(* callback first.                                                         *)
HandOver == /\ Take /\ UNCHANGED open
            /\ rxState' = "READ_PUBLISH_PAYLOAD"
            /\ call' = IF listens THEN "callback" ELSE "none"

ReadTopic ==
    /\ rxState = "READ_PUBLISH_TOPIC"
    /\ UNCHANGED <<returnCode, sent>>
    /\ IF rx.topic + 1 < rx.topicLength
       THEN Taken /\ rx' = [rx EXCEPT !.topic = @ + 1] /\ UNCHANGED rxState
       ELSE /\ rx' = [rx EXCEPT !.topic = @ + 1, !.length = @ - rx.topicLength]
            /\ IF rx.qos > 0
               THEN Taken /\ rxState' = "READ_PUBLISH_PACKET_ID"
               ELSE HandOver

(* ackRxMessage()                                                          *)
(* (a bug to be caught: the acknowledgement of the next lower quality)     *)
AckSwapped(qos, id) == IF qos > 0 THEN <<<<PUBACK, id>>>> ELSE <<>>
AckRxMessage(qos, id) ==
    CASE qos = 1 -> <<<<PUBACK, id>>>> [] qos = 2 -> <<<<PUBREC, id>>>> [] OTHER -> <<>>

(* Without a callback a message of no payload is acknowledged at once.     *)
AckAtOnce(length) == ~ listens /\ length = 0

ReadPacketId ==
    LET buffer == Append(rx.buffer, b) IN
    /\ rxState = "READ_PUBLISH_PACKET_ID" /\ HasByte
    /\ UNCHANGED returnCode
    /\ IF Len(buffer) < 2
       THEN Taken /\ rx' = [rx EXCEPT !.buffer = buffer] /\ UNCHANGED <<rxState, sent>>
       ELSE /\ HandOver
            /\ rx' = [rx EXCEPT !.buffer = <<>>, !.length = @ - 2, !.packetId = Word(buffer)]
            /\ sent' = IF AckAtOnce(rx.length - 2)
                       THEN sent \o AckRxMessage(rx.qos, Word(buffer)) ELSE sent

(* The callback returns into poll().  A message left unread keeps its      *)
(* state, and poll() returns to the sketch with it.                        *)
CallbackReturns ==
    /\ call = "callback"
    /\ call' = IF rxState = "READ_PUBLISH_PAYLOAD" /\ rx.length > 0 THEN "none" ELSE "poll"
    /\ rxState' = IF rx.length = 0 THEN "READ_TYPE" ELSE rxState
    /\ sent' = IF rx.length = 0 /\ rx.qos > 0
               THEN sent \o AckRxMessage(rx.qos, rx.packetId) ELSE sent
    /\ UNCHANGED <<listens, rx, returnCode, open, in, wire, packets, last, got>>

(* A byte of a message nobody reads.                                       *)
Less(length) == IF length > 0 THEN length - 1 ELSE 0
(* (a bug to be caught: a message left unread is not discarded)            *)
UnreadKept == {"DISCARD_PUBLISH_PAYLOAD"}
Unread == {"READ_PUBLISH_PAYLOAD", "DISCARD_PUBLISH_PAYLOAD"}
Discard ==
    /\ rxState \in Unread /\ Taken
    /\ rx' = [rx EXCEPT !.length = Less(@)]
    /\ rxState' = IF Less(rx.length) = 0 THEN "READ_TYPE" ELSE "DISCARD_PUBLISH_PAYLOAD"
    /\ UNCHANGED <<returnCode, sent>>

Poll == \/ CallPoll \/ PollEnds \/ ReadType \/ ReadRemainingLength \/ ReadVariableHeader
        \/ ReadTopicLength \/ ReadTopic \/ ReadPacketId \/ CallbackReturns \/ Discard

-----------------------------------------------------------------------------
(* The application                                                         *)

(* parseMessage(): what is left of the last message goes first.            *)
ParseMessage ==
    /\ call = "none" /\ call' = "poll"
    /\ rxState = "READ_PUBLISH_PAYLOAD" /\ rxState' = "DISCARD_PUBLISH_PAYLOAD"
    /\ in # <<>> \/ open
    /\ UNCHANGED <<listens, rx, returnCode, open, in, wire, packets, last, got, sent>>

(* read(buf, size), from the sketch or from the callback.  It waits up to  *)
(* a second for each byte; bytes that come meanwhile come before it here.  *)
Read(size) ==
    LET asked == IF size > rx.length THEN rx.length ELSE size
        result == IF asked > Len(in) THEN Len(in) ELSE asked
    IN
    /\ call \in {"none", "callback"} /\ rxState = "READ_PUBLISH_PAYLOAD" /\ result > 0
    /\ in' = SubSeq(in, result + 1, Len(in))
    /\ last' = in[result].of
    /\ got' = [got EXCEPT ![in[result].of] = @ + result]
    /\ rx' = [rx EXCEPT !.length = @ - result]
    /\ rxState' = IF rx.length = result THEN "READ_TYPE" ELSE rxState
    /\ sent' = IF rx.length = result THEN sent \o AckRxMessage(rx.qos, rx.packetId) ELSE sent
    /\ UNCHANGED <<listens, returnCode, call, open, wire, packets>>

(* connect(): a socket still open is closed first.                         *)
(* (a bug to be caught: the receiver goes on where it stood)               *)
RestartNot == rxState
Restart == "READ_TYPE"
Connect ==
    /\ call = "none"
    /\ rxState' = Restart /\ open' = TRUE /\ in' = <<>> /\ wire' = <<>> /\ last' = 0
    /\ UNCHANGED <<listens, rx, returnCode, call, packets, got, sent>>

Next == \/ \E p \in Kinds \cup {Ack(PUBREL, 2, k) : k \in 1 .. MaxPackets} : Send(p)
        \/ Arrive \/ PeerCloses \/ Poll
        \/ ParseMessage \/ (\E size \in Sizes : Read(size)) \/ Connect

Spec == Init /\ [][Next]_vars
FairSpec == Spec /\ WF_vars(Poll)

-----------------------------------------------------------------------------
Packet == {p \in [type : 0 .. 15, flags : 0 .. 15, id : Nat, payload : Nat] : Size(p) < Base * Base}
Byte   == [val : Nat, of : Nat, part : Nat]
Fields == [type : Nat, flags : Nat, length : Nat, multiplier : Nat, buffer : Seq(Nat),
           topicLength : Nat, topic : Nat, qos : Nat, packetId : Nat]

TypeOK ==
    /\ listens \in BOOLEAN /\ open \in BOOLEAN
    /\ rxState \in RxStates /\ call \in {"none", "poll", "callback"}
    /\ rx \in Fields /\ returnCode \in Nat
    /\ in \in Seq(Byte) /\ wire \in Seq(Byte)
    /\ packets \in Seq(Packet) /\ Len(packets) <= MaxPackets /\ last \in 0 .. Len(packets)
    /\ got \in [1 .. MaxPackets -> Nat] /\ sent \in Seq(Nat \X Nat)

(* What the broker has sent and nobody has taken: consecutive bytes, in    *)
(* whole packets as long as the connection stands.                         *)
Stream   == in \o wire
Total(k) == PacketSize(packets[k])
IsByte(x) ==
    /\ x.of \in 1 .. Len(packets) /\ x.part \in 1 .. Total(x.of)
    /\ x.val = Val(packets[x.of], x.of, x.part)
InOrder(s) ==
    /\ \A i \in 1 .. Len(s) : IsByte(s[i])
    /\ \A i \in 1 .. Len(s) :
         LET x == s[i]
             end == i + Total(x.of) - x.part
         IN  \A j \in i .. Len(s) : IF j <= end THEN s[j].of = x.of /\ s[j].part = x.part + (j - i)
                                    ELSE s[j].of > x.of
    /\ \A i \in 1 .. Len(s) - 1 : s[i].part = Total(s[i].of) => s[i + 1].part = 1
Whole(s) == \A i \in 1 .. Len(s) : i + Total(s[i].of) - s[i].part <= Len(s)
StreamKept == InOrder(Stream) /\ IF open THEN Whole(Stream) ELSE wire = <<>>

(* The bytes of the packet under way that are still to come, as the        *)
(* receiver's fields have it.                                              *)
BodyLength == Size(packets[last])
Left == CASE rxState = "READ_TYPE" -> 0
          [] rxState = "READ_REMAINING_LENGTH" ->
               BodyLength + IF rx.multiplier = 1 THEN Digits(BodyLength) ELSE 1
          [] OTHER -> rx.length - Len(rx.buffer)

(* Nothing more comes, and poll() or connect() will begin afresh.          *)
Over == ~ open /\ in = <<>> /\ call # "callback"

(* The next byte is the one the receiver takes it for.                     *)
InPlace ==
    IF Left > 0
    THEN /\ last > 0 /\ (open => Stream # <<>>)
         /\ Stream # <<>> => Stream[1].of = last /\ Stream[1].part = Total(last) - Left + 1
    ELSE Stream # <<>> => Stream[1].part = 1 /\ Stream[1].of > last

(* What has been copied of the packet is what it says there.               *)
Copied(n) == Len(rx.buffer) < n /\ \A i \in 1 .. Len(rx.buffer) :
                 rx.buffer[i] = Body(packets[last], last)[BodyLength - rx.length + i]

(* The receiver's fields say of the packet under way what is true.         *)
FieldsTrue ==
    LET p == packets[last] IN
    /\ rxState # "READ_TYPE" => last > 0
    /\ rxState = "READ_REMAINING_LENGTH" =>
         /\ rx.type = p.type /\ rx.flags = p.flags
         /\ \/ rx.multiplier = 1 /\ rx.length = 0
            \/ rx.multiplier = Base /\ rx.length = BodyLength % Base /\ BodyLength >= Base
    /\ rxState = "READ_VARIABLE_HEADER" =>
         /\ rx.type = p.type /\ p.type # PUBLISH
         /\ rx.length = BodyLength /\ Copied(rx.length)
    /\ rxState \in {"READ_PUBLISH_TOPIC_LENGTH", "READ_PUBLISH_TOPIC", "READ_PUBLISH_PACKET_ID"} =>
         p.type = PUBLISH /\ rx.qos = Qos(p)
    /\ rxState = "READ_PUBLISH_TOPIC_LENGTH" => rx.length = BodyLength /\ Copied(2)
    /\ rxState = "READ_PUBLISH_TOPIC" =>
         /\ rx.length = BodyLength - 2 /\ rx.topicLength = 1 /\ rx.topic = 0 /\ rx.buffer = <<>>
    /\ rxState = "READ_PUBLISH_PACKET_ID" =>
         /\ rx.qos > 0 /\ rx.length = p.payload + 2 /\ Copied(2)

(* So they do of the message the application has been handed; and what it  *)
(* has read is what the length says no more.                               *)
HandedOver == rxState \in {"READ_PUBLISH_PAYLOAD", "DISCARD_PUBLISH_PAYLOAD"} \/ call = "callback"
MessageTrue ==
    /\ HandedOver =>
         /\ last > 0 /\ packets[last].type = PUBLISH /\ rx.qos = Qos(packets[last])
         /\ rx.qos > 0 => rx.packetId = last
         /\ rx.length <= packets[last].payload /\ rx.buffer = <<>>
    /\ rxState = "READ_PUBLISH_PAYLOAD" => got[last] = packets[last].payload - rx.length
    /\ rxState = "DISCARD_PUBLISH_PAYLOAD" => call # "callback"
    /\ HandedOver /\ call # "callback" => rx.length > 0
    /\ call = "callback" =>
         /\ listens
         /\ \/ rxState = "READ_PUBLISH_PAYLOAD"
            \/ /\ rxState = "READ_TYPE" /\ rx.length = 0
               /\ got[last] = packets[last].payload

(* The receiver is where the stream is, and its fields are true.           *)
Placed == FieldsTrue /\ MessageTrue /\ InPlace

(* Nothing has been read of a message that has not been handed over.       *)
GotNothing ==
    /\ \A k \in 1 .. MaxPackets : k > Len(packets) => got[k] = 0
    /\ \A i \in 1 .. Len(Stream) : Stream[i].of > last => got[Stream[i].of] = 0
    /\ rxState \notin {"READ_TYPE", "READ_PUBLISH_PAYLOAD", "DISCARD_PUBLISH_PAYLOAD"} /\ last > 0
         => got[last] = 0

(* A sketch without a callback gets no empty message.                      *)
NoneEmpty ==
    ~ listens => \A k \in 1 .. Len(packets) : packets[k].type = PUBLISH => packets[k].payload > 0

(* The receiver looks for the type of a packet where a packet begins: it   *)
(* never loses the framing, whatever was read, discarded or closed.        *)
Aligned == rxState = "READ_TYPE" /\ in # <<>> => Head(in).part = 1

(* The length it promises (available(), the argument of the callback) is   *)
(* what is still to come of that message.                                  *)
RestOf(k) == Cardinality({i \in DOMAIN Stream : Stream[i].of = k})
LengthIsTrue ==
    open /\ rxState \in {"READ_PUBLISH_PAYLOAD", "DISCARD_PUBLISH_PAYLOAD"} /\ last # 0
        => rx.length = RestOf(last)

(* The invariant of the receiver: it never loses the framing, and what it  *)
(* says of a message is true, whatever was read, discarded or closed.      *)
ReceiverInv ==
    /\ TypeOK /\ StreamKept /\ (Over \/ Placed) /\ GotNothing /\ NoneEmpty
    /\ Aligned /\ LengthIsTrue

(* A message is acknowledged for its own quality of service, and only when *)
(* the application has read it to the end.                                 *)
AcksRead ==
    \A i \in DOMAIN sent :
        LET id == sent[i][2] IN
        sent[i][1] \in {PUBACK, PUBREC} =>
            /\ id \in DOMAIN packets /\ packets[id].type = PUBLISH
            /\ got[id] = packets[id].payload
            /\ Qos(packets[id]) = (IF sent[i][1] = PUBACK THEN 1 ELSE 2)

(* "ack zero length message": the acknowledgement behind the callback is   *)
(* for messages without payload.  One that a callback read to its end has  *)
(* been acknowledged before; without a callback each is acknowledged once. *)
AckedOnce ==
    \A i, j \in DOMAIN sent :
        i # j /\ sent[i][1] \in {PUBACK, PUBREC} => sent[i] # sent[j]

(* A message is acknowledged for its own quality, when it was read whole,  *)
(* and once where there is no callback.                                    *)
AckIsEarned == AcksRead /\ (~ listens => AckedOnce)

(* As long as the sketch polls, nothing stays in the socket's buffer.      *)
BytesTaken == (in # <<>>) ~> (in = <<>>)
=============================================================================

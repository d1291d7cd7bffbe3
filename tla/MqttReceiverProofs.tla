------------------------- MODULE MqttReceiverProofs -------------------------
(***************************************************************************)
(* The receiver keeps its framing and acknowledges what was read, for all  *)
(* payloads, numbers of packets and pieces in which the bytes come.        *)
(***************************************************************************)
EXTENDS MqttReceiver, FiniteSetTheorems, SequenceTheorems, TLAPS

-----------------------------------------------------------------------------
(* Packets and their bytes                                                 *)
-----------------------------------------------------------------------------
\* Division by a positive number.
LEMMA Divided ==
  ASSUME NEW m \in Nat \ {0}, NEW n \in Nat
  PROVE  n = (n \div m) * m + (n % m) /\ n \div m \in Nat /\ (n % m) \in 0 .. m - 1
OBVIOUS

\* The digits of the remaining length, taken apart again.
LEMMA DigitValues ==
  ASSUME NEW n \in Nat, n < Base * Base
  PROVE  /\ Digits(n) \in 1..2 /\ Len(Length(n)) = Digits(n)
         /\ \A i \in 1..Digits(n) : Length(n)[i] \in Nat
         /\ n < Base => Length(n)[1] % Base = n /\ (Length(n)[1] \div Base) % 2 = 0
         /\ n >= Base => /\ Length(n)[1] % Base = n % Base /\ (Length(n)[1] \div Base) % 2 = 1
                         /\ Length(n)[2] \div Base = 0
                         /\ (n % Base) + (Length(n)[2] % Base) * Base = n
<1>1. Base \in Nat /\ Base > 2
  BY ReceiverAssumption
<1>2. CASE n < Base
  <2>1. n % Base = n /\ n \div Base = 0
    BY <1>1, <1>2
  <2>2. Length(n) = <<n>> /\ Digits(n) = 1
    BY <1>2 DEF Length, Digits
  <2>3. QED BY <1>1, <1>2, <2>1, <2>2
<1>3. CASE n >= Base
  <2>1. PICK q \in Nat, r \in Nat : n = q * Base + r /\ r < Base /\ n \div Base = q /\ n % Base = r
    <3>1. /\ n = (n \div Base) * Base + (n % Base)
          /\ n \div Base \in Nat /\ (n % Base) \in 0..Base - 1
      <4>1. Base \in Nat \ {0}
        BY <1>1
      <4> QED BY <4>1, Divided, Zenon
    <3> QED BY <1>1, <3>1
  <2>2. q < Base
    <3>1. q >= Base => q * Base >= Base * Base
      BY <1>1
    <3> QED BY <1>1, <2>1, <3>1
  <2>3. q % Base = q /\ q \div Base = 0
    BY <1>1, <2>2
  <2>4. (Base + r) % Base = r /\ (Base + r) \div Base = 1
    BY <1>1, <2>1
  <2>5. Length(n) = <<Base + r, q>> /\ Digits(n) = 2
    BY <1>1, <1>3, <2>1 DEF Length, Digits
  <2>6. /\ Length(n)[1] = Base + r /\ Length(n)[2] = q /\ Len(Length(n)) = 2
        /\ Length(n)[1] \in Nat /\ Length(n)[2] \in Nat
    BY <1>1, <2>1, <2>5
  <2>7. (n % Base) + (Length(n)[2] % Base) * Base = n
    BY <1>1, <2>1, <2>3, <2>6
  <2>8. \A i \in 1..Digits(n) : Length(n)[i] \in Nat
    BY <2>5, <2>6
  <2>9. /\ Length(n)[1] % Base = n % Base /\ (Length(n)[1] \div Base) % 2 = 1
        /\ Length(n)[2] \div Base = 0
    BY <2>1, <2>3, <2>4, <2>6
  <2>10. ~ (n < Base) /\ Digits(n) \in 1..2 /\ Len(Length(n)) = Digits(n)
    BY <1>1, <1>3, <2>5, <2>6
  <2>11. QED BY <2>7, <2>8, <2>9, <2>10
<1>4. QED BY <1>1, <1>2, <1>3

\* The first byte, taken apart again.
LEMMA FirstByte ==
  ASSUME NEW p \in Packet, NEW k \in Nat
  PROVE  /\ Val(p, k, 1) = 16 * p.type + p.flags /\ Val(p, k, 1) \in Nat
         /\ Val(p, k, 1) \div 16 = p.type /\ Val(p, k, 1) % 16 = p.flags
<1>1. p.type \in 0..15 /\ p.flags \in 0..15
  BY DEF Packet
<1>2. QED BY <1>1 DEF Val

\* A payload of n bytes.
LEMMA Filled ==
  ASSUME NEW n \in Nat
  PROVE  Fill(n) \in Seq(Nat) /\ Len(Fill(n)) = n
BY DEF Fill

\* The quality of service of a message.
LEMMA QosType ==
  ASSUME NEW p \in Packet
  PROVE  Qos(p) \in 0..3 /\ Size(p) \in Nat /\ Size(p) < Base * Base
<1>1. p.flags \in Nat /\ p.payload \in Nat
  BY DEF Packet
<1>2. Qos(p) \in 0..3
  BY <1>1 DEF Qos
<1>3. QED BY <1>1, <1>2 DEF Size, Packet

\* What stands in the body of a packet.
LEMMA BodyIs ==
  ASSUME NEW p \in Packet, NEW k \in Nat
  PROVE  /\ Body(p, k) \in Seq(Nat) /\ Len(Body(p, k)) = Size(p)
         /\ p.type = PUBLISH =>
              /\ Size(p) = 3 + (IF Qos(p) > 0 THEN 2 ELSE 0) + p.payload
              /\ Body(p, k)[1] = 0 /\ Body(p, k)[2] = 1
              /\ Qos(p) > 0 => Body(p, k)[4] = 0 /\ Body(p, k)[5] = k
         /\ p.type # PUBLISH /\ Size(p) > 0 => Size(p) >= 2
         /\ p.type = SUBACK => Size(p) = 3
<1>1. p.payload \in Nat /\ p.id \in Nat
  BY DEF Packet
<1>2. Fill(p.payload) \in Seq(Nat) /\ Len(Fill(p.payload)) = p.payload
  BY <1>1, Filled
<1>3. CASE p.type = PUBLISH
  <2> DEFINE ids == IF Qos(p) > 0 THEN <<0, k>> ELSE <<>>
  <2>1. Body(p, k) = <<0, 1, 65>> \o ids \o Fill(p.payload)
    BY <1>3 DEF Body, MessageBody
  <2>2. Size(p) = 3 + (IF Qos(p) > 0 THEN 2 ELSE 0) + p.payload
    BY <1>3 DEF Size, PUBLISH, SUBACK, PINGRESP
  <2>3. QED BY <1>2, <1>3, <2>1, <2>2, QosType DEF PUBLISH, SUBACK
<1>4. CASE p.type = SUBACK
  BY <1>1, <1>4 DEF Body, AnswerBody, Size, PUBLISH, SUBACK, PINGRESP
<1>5. CASE p.type = PINGRESP
  BY <1>5 DEF Body, AnswerBody, Size, PUBLISH, SUBACK, PINGRESP
<1>6. CASE p.type \notin {PUBLISH, SUBACK, PINGRESP}
  <2>1. Body(p, k) = <<0, p.id>> \o Fill(p.payload) /\ Size(p) = 2 + p.payload
    BY <1>6 DEF Body, AnswerBody, Size
  <2>2. QED BY <1>1, <1>2, <1>6, <2>1
<1>7. QED BY <1>3, <1>4, <1>5, <1>6

\* A byte of the remaining length, and a byte of the body.
LEMMA ByteOf ==
  ASSUME NEW p \in Packet, NEW k \in Nat
  PROVE  /\ PacketSize(p) = 1 + Digits(Size(p)) + Size(p) /\ PacketSize(p) \in Nat
         /\ \A i \in 1..Digits(Size(p)) : Val(p, k, 1 + i) = Length(Size(p))[i]
         /\ \A i \in 1..Size(p) : Val(p, k, 1 + Digits(Size(p)) + i) = Body(p, k)[i]
         /\ \A i \in 1..PacketSize(p) : Val(p, k, i) \in Nat
<1>1. Digits(Size(p)) \in 1..2 /\ Size(p) \in Nat
  BY QosType, DigitValues
<1>2. ASSUME NEW i \in 1..Digits(Size(p)) PROVE Val(p, k, 1 + i) = Length(Size(p))[i]
  BY <1>1, <1>2 DEF Val
<1>3. ASSUME NEW i \in 1..Size(p)
      PROVE  Val(p, k, 1 + Digits(Size(p)) + i) = Body(p, k)[i]
  BY <1>1 DEF Val
<1>4. ASSUME NEW i \in 1..PacketSize(p) PROVE Val(p, k, i) \in Nat
  <2>1. CASE i = 1
    BY <2>1, FirstByte
  <2>2. CASE i \in 2..1 + Digits(Size(p))
    <3>1. i - 1 \in 1..Digits(Size(p)) /\ 1 + (i - 1) = i
      BY <1>1, <2>2
    <3>2. Length(Size(p))[i - 1] \in Nat
      BY <3>1, QosType, DigitValues
    <3> QED BY <1>2, <3>1, <3>2
  <2>3. CASE i > 1 + Digits(Size(p))
    <3> DEFINE j == i - 1 - Digits(Size(p))
    <3>1. j \in 1..Size(p) /\ i = 1 + Digits(Size(p)) + j
      BY <1>1, <2>3 DEF PacketSize
    <3>2. Body(p, k)[j] \in Nat
      <4>1. PICK s \in Seq(Nat) : s = Body(p, k) /\ Len(s) = Size(p)
        BY BodyIs
      <4> QED BY <3>1, <4>1
    <3> QED BY <1>3, <3>1, <3>2
  <2>4. QED BY <1>1, <2>1, <2>2, <2>3 DEF PacketSize
<1>5. QED BY <1>1, <1>2, <1>3, <1>4 DEF PacketSize

\* The packets the broker may send.
LEMMA KnownPackets ==
  ASSUME NEW p \in Kinds \cup {Ack(PUBREL, 2, k) : k \in 1..MaxPackets}
  PROVE  p \in Packet
<1>1. Base \in Nat /\ Base > 2 /\ TxPacketId \in Nat /\ MaxPackets \in Nat
  BY ReceiverAssumption
<1>2. Base * Base > 4
  <2>1. Base * Base >= 3 * Base
    BY <1>1
  <2> QED BY <1>1, <2>1
<1>3. ASSUME NEW q \in 0..2, NEW n \in Payloads, p = Message(q, n) PROVE p \in Packet
  <2>1. n \in Nat /\ n + 5 < Base * Base
    BY ReceiverAssumption
  <2>2. /\ p.type = 3 /\ p.payload = n
        /\ p \in [type : 0..15, flags : 0..15, id : Nat, payload : Nat]
    BY <1>3, <2>1 DEF Message, PUBLISH
  <2>3. Size(p) = 3 + (IF Qos(p) > 0 THEN 2 ELSE 0) + n
    BY <2>2 DEF Size, PUBLISH, SUBACK, PINGRESP
  <2>4. Size(p) <= n + 5
    BY <2>1, <2>3
  <2> QED BY <1>1, <2>1, <2>2, <2>3, <2>4 DEF Packet
<1>4. ASSUME NEW type \in 4..13, NEW flags \in 0..2, NEW id \in Nat, p = Ack(type, flags, id)
      PROVE  p \in Packet
  <2>1. /\ p.type # PUBLISH /\ p.payload = 0
        /\ p \in [type : 0..15, flags : 0..15, id : Nat, payload : Nat]
    BY <1>4 DEF Ack, PUBLISH
  <2>2. Size(p) \in {0, 2, 3}
    BY <2>1 DEF Size
  <2> QED BY <1>1, <1>2, <2>1, <2>2 DEF Packet
<1>5. ASSUME p = [Ack(PUBACK, 0, 0) EXCEPT !.payload = 2] PROVE p \in Packet
  <2>1. p = [type |-> 4, flags |-> 0, id |-> 0, payload |-> 2]
    BY <1>5 DEF Ack, PUBACK
  <2>2. Size(p) = 4
    BY <2>1 DEF Size, PUBLISH, SUBACK, PINGRESP
  <2> QED BY <1>2, <2>1, <2>2 DEF Packet
<1>6. CASE p \in Kinds
  BY <1>1, <1>3, <1>4, <1>5, <1>6 DEF Kinds, PUBACK, SUBACK, PINGRESP
<1>7. CASE p \in {Ack(PUBREL, 2, k) : k \in 1..MaxPackets}
  BY <1>1, <1>4, <1>7 DEF PUBREL
<1>8. QED BY <1>6, <1>7

-----------------------------------------------------------------------------
(* The stream of bytes                                                     *)
-----------------------------------------------------------------------------
\* Two pieces of a stream.
LEMMA Concat ==
  ASSUME NEW S, NEW a \in Seq(S), NEW c \in Seq(S)
  PROVE  /\ a \o c \in Seq(S) /\ Len(a \o c) = Len(a) + Len(c)
         /\ \A i \in 1..Len(a) : (a \o c)[i] = a[i]
         /\ \A i \in 1..Len(c) : (a \o c)[Len(a) + i] = c[i]
         /\ Len(a) \in Nat /\ Len(c) \in Nat
OBVIOUS

\* What is left of a stream when its first bytes have been taken.
LEMMA Dropped ==
  ASSUME NEW S, NEW s \in Seq(S), NEW n \in 1..Len(s)
  PROVE  /\ SubSeq(s, n + 1, Len(s)) \in Seq(S) /\ Len(SubSeq(s, n + 1, Len(s))) = Len(s) - n
         /\ \A i \in 1..Len(s) - n : SubSeq(s, n + 1, Len(s))[i] = s[i + n]
<1>1. Len(s) \in Nat /\ n \in Nat /\ n + 1 \in Nat /\ Len(s) - (n + 1) + 1 = Len(s) - n
  OBVIOUS
<1>2. SubSeq(s, n + 1, Len(s)) = [i \in 1..Len(s) - n |-> s[i + n]]
  BY <1>1
<1>3. \A i \in 1..Len(s) - n : s[i + n] \in S
  BY <1>1
<1>4. Len(s) - n \in Nat
  BY <1>1
<1>5. QED BY <1>2, <1>3, <1>4

\* The bytes of a packet that has been sent.
LEMMA TotalOf ==
  ASSUME TypeOK, NEW k \in 1..Len(packets)
  PROVE  /\ packets[k] \in Packet /\ Total(k) \in Nat /\ Total(k) > 1
         /\ Total(k) = 1 + Digits(Size(packets[k])) + Size(packets[k])
         /\ Size(packets[k]) \in Nat /\ Digits(Size(packets[k])) \in 1..2
<1>1. packets[k] \in Packet
  BY DEF TypeOK
<1>2. QED BY <1>1, ByteOf, QosType, DigitValues DEF Total

\* A byte of the stream has its place in a packet.
LEMMA BytePlace ==
  ASSUME TypeOK, NEW x, IsByte(x)
  PROVE  x.of \in 1..Len(packets) /\ x.part \in Nat /\ Total(x.of) \in Nat
         /\ 1 <= x.part /\ x.part <= Total(x.of)
<1>1. x.of \in 1..Len(packets) /\ x.part \in 1..Total(x.of)
  BY DEF IsByte
<1>2. Total(x.of) \in Nat
  BY <1>1, TotalOf
<1>3. QED BY <1>1, <1>2

\* The last part of a stream in order is in order.
LEMMA Suffix ==
  ASSUME TypeOK, NEW s \in Seq(Byte), NEW t \in Seq(Byte), NEW n \in Nat,
         n <= Len(s), Len(t) = Len(s) - n, \A i \in 1..Len(t) : t[i] = s[i + n], InOrder(s)
  PROVE  InOrder(t) /\ (Whole(s) => Whole(t))
<1>1. Len(s) \in Nat /\ Len(t) \in Nat
  OBVIOUS
<1>2. ASSUME NEW i \in 1..Len(t) PROVE i + n \in 1..Len(s) /\ t[i] = s[i + n]
  BY <1>1
<1>3. ASSUME NEW i \in 1..Len(t) PROVE IsByte(t[i])
  BY <1>2, <1>3 DEF InOrder
<1>4. ASSUME NEW i \in 1..Len(t)
      PROVE  t[i].part \in Int /\ Total(t[i].of) \in Int
  BY <1>3, <1>4, BytePlace
<1>5. ASSUME NEW i \in 1..Len(t), NEW j \in i..Len(t)
      PROVE  IF j <= i + Total(t[i].of) - t[i].part
             THEN t[j].of = t[i].of /\ t[j].part = t[i].part + (j - i)
             ELSE t[j].of > t[i].of
  <2>1. /\ j \in 1..Len(t) /\ i + n \in 1..Len(s) /\ j + n \in i + n..Len(s)
        /\ (j + n) - (i + n) = j - i
    BY <1>1
  <2>2. t[i] = s[i + n] /\ t[j] = s[j + n]
    BY <1>2, <2>1
  <2>3. IF j + n <= i + n + Total(t[i].of) - t[i].part
        THEN t[j].of = t[i].of /\ t[j].part = t[i].part + ((j + n) - (i + n))
        ELSE t[j].of > t[i].of
    BY <2>1, <2>2 DEF InOrder
  <2>4. PICK c \in Int, d \in Int : c = Total(t[i].of) /\ d = t[i].part
    BY <1>4
  <2>5. i \in Int /\ j \in Int /\ n \in Int
    BY <1>1
  <2>6. j + n <= i + n + c - d <=> j <= i + c - d
    <3>1. PICK a \in Int : a = i + c - d
      BY <2>5
    <3>2. i + n + c - d = a + n
      BY <2>5, <3>1
    <3>3. j + n <= a + n <=> j <= a
      BY <2>5, <3>1
    <3>4. QED BY <3>1, <3>2, <3>3
  <2>7. QED BY <2>1, <2>3, <2>4, <2>6
<1>6. ASSUME NEW i \in 1..Len(t) - 1, t[i].part = Total(t[i].of) PROVE t[i + 1].part = 1
  <2>1. /\ i \in 1..Len(t) /\ i + 1 \in 1..Len(t) /\ i + n \in 1..Len(s) - 1
        /\ (i + n) + 1 = (i + 1) + n
    BY <1>1
  <2>2. t[i] = s[i + n] /\ t[i + 1] = s[(i + 1) + n]
    BY <1>2, <2>1
  <2>3. s[i + n].part = Total(s[i + n].of) => s[(i + n) + 1].part = 1
    BY <2>1 DEF InOrder
  <2>4. QED BY <1>6, <2>1, <2>2, <2>3
<1>7. ASSUME Whole(s), NEW i \in 1..Len(t) PROVE i + Total(t[i].of) - t[i].part <= Len(t)
  <2>1. (i + n) + Total(t[i].of) - t[i].part <= Len(s)
    BY <1>2, <1>7 DEF Whole
  <2>2. PICK c \in Int, d \in Int : c = Total(t[i].of) /\ d = t[i].part
    BY <1>4
  <2>3. PICK l \in Nat, m \in Nat : l = Len(s) /\ m = Len(t) /\ m = l - n
    BY <1>1
  <2>4. (i + n) + c - d <= l
    BY <2>1, <2>2, <2>3
  <2>5. i \in Int /\ n \in Int
    BY <1>1
  <2>6. i + c - d <= m
    BY <2>3, <2>4, <2>5
  <2>7. QED BY <2>2, <2>3, <2>6
<1>8. InOrder(t)
  BY <1>3, <1>5, <1>6 DEF InOrder
<1>9. Whole(s) => Whole(t)
  BY <1>7 DEF Whole
<1>10. QED BY <1>8, <1>9

\* And so is its first part.
LEMMA Prefix ==
  ASSUME NEW s \in Seq(Byte), NEW t \in Seq(Byte), Len(t) <= Len(s),
         \A i \in 1..Len(t) : t[i] = s[i], InOrder(s)
  PROVE  InOrder(t)
<1>1. Len(s) \in Nat /\ Len(t) \in Nat
  OBVIOUS
<1>2. \A i \in 1..Len(t) : i \in 1..Len(s) /\ t[i] = s[i]
  BY <1>1
<1>3. \A i \in 1..Len(t) : IsByte(t[i])
  BY <1>2 DEF InOrder
<1>4. ASSUME NEW i \in 1..Len(t), NEW j \in i..Len(t)
      PROVE  IF j <= i + Total(t[i].of) - t[i].part
             THEN t[j].of = t[i].of /\ t[j].part = t[i].part + (j - i)
             ELSE t[j].of > t[i].of
  <2>1. j \in 1..Len(t) /\ j \in i..Len(s)
    BY <1>1
  <2>2. QED BY <1>2, <2>1 DEF InOrder
<1>5. ASSUME NEW i \in 1..Len(t) - 1, t[i].part = Total(t[i].of) PROVE t[i + 1].part = 1
  <2>1. i \in 1..Len(t) /\ i + 1 \in 1..Len(t) /\ i \in 1..Len(s) - 1
    BY <1>1
  <2>2. QED BY <1>2, <1>5, <2>1 DEF InOrder
<1>6. QED BY <1>3, <1>4, <1>5 DEF InOrder

\* A packet's bytes.
LEMMA BytesAre ==
  ASSUME NEW p \in Packet, NEW k \in Nat
  PROVE  /\ Bytes(p, k) \in Seq(Byte) /\ Len(Bytes(p, k)) = PacketSize(p) /\ PacketSize(p) \in Nat
         /\ PacketSize(p) > 1
         /\ \A i \in 1..PacketSize(p) :
               Bytes(p, k)[i] = [val |-> Val(p, k, i), of |-> k, part |-> i]
<1>1. PacketSize(p) \in Nat /\ \A i \in 1..PacketSize(p) : Val(p, k, i) \in Nat
  BY ByteOf
<1>2. PacketSize(p) > 1
  BY ByteOf, QosType, DigitValues
<1>3. \A i \in 1..PacketSize(p) : [val |-> Val(p, k, i), of |-> k, part |-> i] \in Byte
  BY <1>1 DEF Byte
<1>4. QED BY <1>1, <1>2, <1>3 DEF Bytes

\* The stream, and the part of it that is in the socket's buffer.
LEMMA StreamIs ==
  ASSUME TypeOK
  PROVE  /\ Stream \in Seq(Byte) /\ Len(Stream) = Len(in) + Len(wire)
         /\ Len(in) \in Nat /\ Len(wire) \in Nat
         /\ \A i \in 1..Len(in) : Stream[i] = in[i] /\ i \in 1..Len(Stream)
<1>1. in \in Seq(Byte) /\ wire \in Seq(Byte)
  BY DEF TypeOK
<1>2. /\ Stream \in Seq(Byte) /\ Len(Stream) = Len(in) + Len(wire)
      /\ Len(in) \in Nat /\ Len(wire) \in Nat
      /\ \A i \in 1..Len(in) : Stream[i] = in[i]
  BY <1>1, Concat DEF Stream
<1>3. QED BY <1>2

\* Every byte has the number of its packet.
LEMMA NumbersType ==
  ASSUME TypeOK
  PROVE  \A i \in 1..Len(Stream) : Stream[i].of \in Nat
<1>1. PICK s \in Seq(Byte) : s = Stream
  BY StreamIs
<1>2. ASSUME NEW i \in 1..Len(s) PROVE s[i].of \in Nat
  <2>1. s[i] \in Byte
    OBVIOUS
  <2>2. QED BY <2>1 DEF Byte
<1>3. QED BY <1>1, <1>2

\* Some bytes of one packet are taken.
LEMMA TakeSome ==
  ASSUME TypeOK, StreamKept, NEW n \in 1..Len(in), n <= Total(in[1].of) - in[1].part + 1,
         in' = SubSeq(in, n + 1, Len(in)), UNCHANGED <<wire, packets, open>>
  PROVE  /\ StreamKept' /\ in' \in Seq(Byte) /\ IsByte(in[1]) /\ in[n].of = in[1].of
         /\ \A i \in 1..Len(Stream') : i + n \in 1..Len(Stream) /\ Stream'[i] = Stream[i + n]
         /\ n < Total(in[1].of) - in[1].part + 1 =>
              /\ open => Stream' # <<>>
              /\ Stream' # <<>> =>
                   Stream'[1].of = in[1].of /\ Stream'[1].part = in[1].part + n
         /\ n = Total(in[1].of) - in[1].part + 1 /\ Stream' # <<>> =>
              Stream'[1].of > in[1].of /\ Stream'[1].part = 1
<1>1. /\ in \in Seq(Byte) /\ wire \in Seq(Byte) /\ Len(in) \in Nat /\ n \in 1..Len(in) /\ n \in Nat
      /\ 1 \in 1..Len(in)
  BY DEF TypeOK
<1>2. PICK rest \in Seq(Byte) : rest = in' /\ rest = SubSeq(in, n + 1, Len(in))
  BY <1>1, Dropped
<1>3. Len(rest) = Len(in) - n /\ \A i \in 1..Len(rest) : rest[i] = in[i + n]
  <2>1. Len(rest) = Len(in) - n
    BY <1>1, <1>2, Dropped
  <2>2. \A i \in 1..Len(in) - n : rest[i] = in[i + n]
    BY <1>1, <1>2, Dropped
  <2>3. QED BY <2>1, <2>2
<1>4. PICK s \in Seq(Byte) : s = Stream
  BY StreamIs
<1>5. PICK t \in Seq(Byte) : t = Stream'
  BY <1>1, <1>2, Concat DEF Stream
<1>6. /\ Len(s) = Len(in) + Len(wire) /\ Len(wire) \in Nat /\ Len(s) \in Nat
      /\ \A i \in 1..Len(in) : s[i] = in[i] /\ i \in 1..Len(s)
      /\ \A i \in 1..Len(wire) : s[Len(in) + i] = wire[i]
  BY <1>1, <1>4, Concat DEF Stream
<1>7. /\ Len(t) = Len(rest) + Len(wire) /\ Len(rest) \in Nat
      /\ \A i \in 1..Len(rest) : t[i] = rest[i]
      /\ \A i \in 1..Len(wire) : t[Len(rest) + i] = wire[i]
  <2>1. t = rest \o wire
    BY <1>2, <1>5 DEF Stream
  <2>2. QED BY <1>1, <2>1, Concat
<1>8. Len(t) = Len(s) - n /\ n <= Len(s) /\ Len(t) \in Nat
  <2>1. PICK l \in Nat, w \in Nat, m \in Nat :
           l = Len(in) /\ w = Len(wire) /\ m = Len(rest) /\ m = l - n
    BY <1>1, <1>3, <1>6, <1>7
  <2>2. Len(s) = l + w /\ Len(t) = m + w
    BY <1>6, <1>7, <2>1
  <2>3. n \in Nat /\ n <= l
    BY <1>1, <2>1
  <2>4. m + w = l + w - n /\ n <= l + w /\ m + w \in Nat
    BY <2>1, <2>3
  <2>5. QED BY <2>2, <2>4
<1>9. ASSUME NEW i \in 1..Len(t) PROVE i + n \in 1..Len(s) /\ t[i] = s[i + n]
  <2>1. CASE i <= Len(rest)
    <3>1. i \in 1..Len(rest) /\ n \in Nat
      BY <1>1, <1>7, <2>1
    <3>2. i + n \in 1..Len(in)
      BY <1>1, <1>3, <3>1
    <3>3. QED BY <1>3, <1>6, <1>7, <3>1, <3>2
  <2>2. CASE i > Len(rest)
    <3>1. PICK j \in 1..Len(wire) : i = Len(rest) + j
      <4>1. i - Len(rest) \in 1..Len(wire) /\ i = Len(rest) + (i - Len(rest))
        BY <1>7, <2>2
      <4> QED BY <4>1
    <3>2. i + n = Len(in) + j /\ i + n \in 1..Len(s)
      BY <1>1, <1>3, <1>6, <3>1
    <3> QED BY <1>6, <1>7, <3>1, <3>2
  <2>3. QED BY <1>7, <2>1, <2>2
<1>10. InOrder(s) /\ InOrder(t) /\ (Whole(s) => Whole(t))
  <2>1. InOrder(s)
    BY <1>4 DEF StreamKept
  <2>2. QED BY <1>1, <1>8, <1>9, <2>1, Suffix
<1>11. StreamKept'
  <2>1. InOrder(t)' /\ (Whole(t)' <=> Whole(t))
    BY <1>10 DEF InOrder, IsByte, Whole, Total
  <2>2. InOrder(Stream)' /\ (Whole(Stream)' <=> Whole(t))
    BY <1>5, <2>1 DEF InOrder, IsByte, Whole, Total
  <2>3. IF open THEN Whole(s) ELSE wire = <<>>
    BY <1>4 DEF StreamKept
  <2>4. QED BY <1>10, <2>2, <2>3 DEF StreamKept
<1>12. PICK x : x = in[1] /\ x = s[1]
  BY <1>1, <1>6
<1>13. IsByte(x)
  BY <1>1, <1>6, <1>10, <1>12 DEF InOrder
<1>14. PICK c \in Nat, d \in Nat : c = Total(x.of) /\ d = x.part /\ 1 <= d /\ d <= c
  BY <1>13, BytePlace
<1>15. n <= c - d + 1
  BY <1>12, <1>14
<1>16. ASSUME NEW j \in 1..Len(s)
       PROVE  IF j <= 1 + c - d THEN s[j].of = x.of /\ s[j].part = d + (j - 1) ELSE s[j].of > x.of
  <2>1. 1 \in 1..Len(s)
    BY <1>1, <1>6
  <2>2. IF j <= 1 + Total(s[1].of) - s[1].part
        THEN s[j].of = s[1].of /\ s[j].part = s[1].part + (j - 1) ELSE s[j].of > s[1].of
    BY <1>10, <2>1 DEF InOrder
  <2>3. QED BY <1>12, <1>14, <2>2
<1>17. in[n].of = x.of /\ s[n].part = d + (n - 1) /\ s[n].of = x.of
  <2>1. n \in 1..Len(s) /\ in[n] = s[n]
    BY <1>1, <1>6
  <2>2. n <= 1 + c - d
    BY <1>1, <1>15
  <2>3. QED BY <1>16, <2>1, <2>2
<1>18. t # <<>> => 1 \in 1..Len(t) /\ t[1] = s[n + 1] /\ n + 1 \in 1..Len(s)
  <2>1. t # <<>> => 1 \in 1..Len(t)
    BY <1>8
  <2>2. 1 \in 1..Len(t) => n + 1 \in 1..Len(s) /\ t[1] = s[1 + n]
    BY <1>1, <1>6, <1>9
  <2>3. n + 1 = 1 + n
    BY <1>1
  <2>4. QED BY <2>1, <2>2, <2>3
<1>19. ASSUME n < c - d + 1
       PROVE  (open => t # <<>>) /\ (t # <<>> => t[1].of = x.of /\ t[1].part = d + n)
  <2>1. ASSUME open PROVE t # <<>>
    <3>1. Whole(s)
      BY <1>4, <2>1 DEF StreamKept
    <3>2. 1 + c - d <= Len(s)
      <4>1. 1 \in 1..Len(s)
        BY <1>1, <1>6
      <4>2. 1 + Total(s[1].of) - s[1].part <= Len(s)
        BY <3>1, <4>1 DEF Whole
      <4> QED BY <1>12, <1>14, <4>2
    <3>3. Len(t) > 0
      <4>1. n \in Int /\ Len(s) \in Int
        BY <1>1, <1>6
      <4> QED BY <1>8, <1>19, <3>2, <4>1
    <3> QED BY <3>3
  <2>2. ASSUME t # <<>> PROVE t[1].of = x.of /\ t[1].part = d + n
    <3>1. n + 1 <= 1 + c - d /\ (n + 1) - 1 = n
      BY <1>1, <1>14, <1>19
    <3> QED BY <1>16, <1>18, <2>2, <3>1
  <2> QED BY <2>1, <2>2
<1>20. ASSUME n = c - d + 1, t # <<>> PROVE t[1].of > x.of /\ t[1].part = 1
  <2>1. ~ (n + 1 <= 1 + c - d)
    <3>1. n + 1 = 1 + c - d + 1
      BY <1>20
    <3>2. QED BY <3>1
  <2>2. t[1].of > x.of
    BY <1>16, <1>18, <1>20, <2>1
  <2>3. s[n].part = Total(s[n].of)
    <3>1. d + (n - 1) = c
      BY <1>1, <1>20
    <3> QED BY <1>14, <1>17, <3>1
  <2>4. n \in 1..Len(s) - 1
    BY <1>1, <1>6, <1>18, <1>20
  <2>5. s[n + 1].part = 1
    BY <1>10, <2>3, <2>4 DEF InOrder
  <2> QED BY <1>18, <1>20, <2>2, <2>5
<1>21. IsByte(in[1]) /\ in[n].of = in[1].of
  BY <1>12, <1>13, <1>17
<1>22. \A i \in 1..Len(Stream') : i + n \in 1..Len(Stream) /\ Stream'[i] = Stream[i + n]
  BY <1>4, <1>5, <1>9
<1>23. QED BY <1>2, <1>5, <1>11, <1>12, <1>14, <1>19, <1>20, <1>21, <1>22

-----------------------------------------------------------------------------
(* Where the receiver is in the stream                                     *)
-----------------------------------------------------------------------------
\* The inductive invariant, as far as the stream and the fields go.
Kept == TypeOK /\ StreamKept /\ (Over \/ Placed) /\ GotNothing /\ NoneEmpty

\* How much is to come is a number.
LEMMA LeftIs ==
  ASSUME TypeOK, FieldsTrue
  PROVE  Left \in Int
<1>1. rx.length \in Nat /\ Len(rx.buffer) \in Nat
  BY DEF TypeOK, Fields
<1>2. CASE rxState = "READ_REMAINING_LENGTH"
  <2>1. last \in 1..Len(packets)
    BY <1>2 DEF FieldsTrue, TypeOK
  <2>2. BodyLength \in Nat /\ Digits(BodyLength) \in Nat
    BY <2>1, TotalOf DEF BodyLength
  <2>3. Left = BodyLength + IF rx.multiplier = 1 THEN Digits(BodyLength) ELSE 1
    BY <1>2 DEF Left
  <2>4. QED BY <2>2, <2>3
<1>3. CASE rxState # "READ_REMAINING_LENGTH"
  BY <1>1, <1>3 DEF Left
<1>4. QED BY <1>2, <1>3

\* The byte that is next.
LEMMA NextByte ==
  ASSUME TypeOK, StreamKept, InPlace, in # <<>>
  PROVE  /\ in \in Seq(Byte) /\ Len(in) \in Nat /\ 1 \in 1..Len(in) /\ Head(in) = in[1]
         /\ Tail(in) = SubSeq(in, 1 + 1, Len(in)) /\ IsByte(in[1])
         /\ Left > 0 => /\ last \in 1..Len(packets) /\ in[1].of = last
                        /\ in[1].part = Total(last) - Left + 1
         /\ ~ (Left > 0) => in[1].part = 1 /\ in[1].of > last
<1>1. in \in Seq(Byte) /\ last \in 0..Len(packets)
  BY DEF TypeOK
<1>2. Len(in) \in Nat /\ 1 \in 1..Len(in) /\ Head(in) = in[1] /\ Tail(in) = SubSeq(in, 2, Len(in))
  BY <1>1
<1>3. Stream \in Seq(Byte) /\ Stream[1] = in[1] /\ 1 \in 1..Len(Stream)
  BY <1>2, StreamIs
<1>4. Stream # <<>>
  BY <1>3
<1>5. IsByte(in[1])
  BY <1>3 DEF StreamKept, InOrder
<1>6. Left > 0 => /\ last \in 1..Len(packets) /\ in[1].of = last
                  /\ in[1].part = Total(last) - Left + 1
  BY <1>1, <1>3, <1>4 DEF InPlace
<1>7. ~ (Left > 0) => in[1].part = 1 /\ in[1].of > last
  BY <1>3, <1>4 DEF InPlace
<1>8. 1 + 1 = 2
  OBVIOUS
<1>9. QED BY <1>1, <1>2, <1>5, <1>6, <1>7, <1>8

\* Some of the bytes that are left are taken.
LEMMA Advance ==
  ASSUME TypeOK, StreamKept, InPlace, Left \in Int, Left > 0, NEW n \in 1..Len(in), n <= Left,
         in' = SubSeq(in, n + 1, Len(in)), last' = in[n].of, UNCHANGED <<wire, packets, open>>,
         Left' = Left - n
  PROVE  /\ StreamKept' /\ InPlace' /\ in' \in Seq(Byte) /\ last' = last
         /\ \A i \in 1..Len(Stream') : i + n \in 1..Len(Stream) /\ Stream'[i] = Stream[i + n]
<1>1. in # <<>> /\ n \in Nat
  <2>1. in \in Seq(Byte)
    BY DEF TypeOK
  <2>2. QED BY <2>1
<1>2. last \in 1..Len(packets) /\ in[1].of = last /\ in[1].part = Total(last) - Left + 1
  BY <1>1, NextByte
<1>3. Total(last) \in Nat
  BY <1>2, TotalOf
<1>4. Total(in[1].of) - in[1].part + 1 = Left
  BY <1>2, <1>3
<1>5. /\ StreamKept' /\ in' \in Seq(Byte) /\ in[n].of = in[1].of
      /\ \A i \in 1..Len(Stream') : i + n \in 1..Len(Stream) /\ Stream'[i] = Stream[i + n]
      /\ n < Left => /\ open => Stream' # <<>>
                     /\ Stream' # <<>> => Stream'[1].of = last /\ Stream'[1].part = in[1].part + n
      /\ n = Left /\ Stream' # <<>> => Stream'[1].of > last /\ Stream'[1].part = 1
  BY <1>2, <1>4, TakeSome
<1>6. last' = last /\ Total(last)' = Total(last)
  BY <1>2, <1>5 DEF Total
<1>7. in[1].part + n = Total(last) - (Left - n) + 1
  BY <1>1, <1>2, <1>3
<1>8. CASE n < Left
  <2>1. Left' > 0 /\ last' > 0
    BY <1>1, <1>2, <1>6, <1>8 DEF TypeOK
  <2>2. (open => Stream' # <<>>) /\ (Stream' # <<>> =>
            Stream'[1].of = last' /\ Stream'[1].part = Total(last)' - Left' + 1)
    BY <1>5, <1>6, <1>7, <1>8
  <2>3. InPlace'
    BY <2>1, <2>2 DEF InPlace
  <2>4. QED BY <1>5, <1>6, <2>3
<1>9. CASE n = Left
  <2>1. ~ (Left' > 0)
    BY <1>1, <1>9
  <2>2. InPlace'
    BY <1>5, <1>6, <1>9, <2>1 DEF InPlace
  <2>3. QED BY <1>5, <1>6, <2>2
<1>10. QED BY <1>1, <1>8, <1>9

Header == {"READ_REMAINING_LENGTH", "READ_VARIABLE_HEADER", "READ_PUBLISH_TOPIC_LENGTH",
           "READ_PUBLISH_TOPIC", "READ_PUBLISH_PACKET_ID"}

\* Nothing has been read of what is to come, when some bytes have been taken.
LEMMA StillNothing ==
  ASSUME TypeOK, GotNothing, NEW n \in Nat, UNCHANGED <<packets, got>>,
         last' \in Nat, last' >= last,
         \A i \in 1..Len(Stream') : i + n \in 1..Len(Stream) /\ Stream'[i] = Stream[i + n],
         \A i \in 1..Len(Stream) : Stream[i].of \in Nat,
         rxState' \in RxStates, rxState' \in Header => got[last'] = 0
  PROVE  GotNothing'
<1>1. last \in Nat /\ rxState \in RxStates
  BY DEF TypeOK
<1>2. \A k \in 1..MaxPackets : k > Len(packets') => got'[k] = 0
  BY DEF GotNothing
<1>3. ASSUME NEW i \in 1..Len(Stream'), Stream'[i].of > last' PROVE got'[Stream'[i].of] = 0
  <2>1. i + n \in 1..Len(Stream) /\ Stream'[i] = Stream[i + n]
    OBVIOUS
  <2>2. Stream[i + n].of > last
    BY <1>1, <1>3, <2>1
  <2>3. QED BY <2>1, <2>2 DEF GotNothing
<1>4. rxState' \notin {"READ_TYPE", "READ_PUBLISH_PAYLOAD", "DISCARD_PUBLISH_PAYLOAD"}
         => rxState' \in Header
  BY DEF RxStates, Header
<1>5. QED BY <1>2, <1>3, <1>4 DEF GotNothing

\* One byte of the packet under way is taken.
LEMMA ByteTaken ==
  ASSUME TypeOK, StreamKept, InPlace, GotNothing, Left \in Int, Left > 0,
         Take, UNCHANGED open, Left' = Left - 1, rxState' \in RxStates,
         rxState \in Header \/ rxState' \notin Header
  PROVE  StreamKept' /\ InPlace' /\ GotNothing' /\ in' \in Seq(Byte) /\ last' = last
<1>1. in # <<>> /\ in' = Tail(in) /\ last' = Head(in).of /\ UNCHANGED <<wire, packets, open, got>>
  BY DEF Take, HasByte
<1>2. 1 \in 1..Len(in) /\ in' = SubSeq(in, 1 + 1, Len(in)) /\ last' = in[1].of /\ 1 <= Left
      /\ last \in 1..Len(packets)
  BY <1>1, NextByte
<1>3. /\ StreamKept' /\ InPlace' /\ in' \in Seq(Byte) /\ last' = last
      /\ \A i \in 1..Len(Stream') : i + 1 \in 1..Len(Stream) /\ Stream'[i] = Stream[i + 1]
  BY <1>1, <1>2, Advance
<1>4. \A i \in 1..Len(Stream) : Stream[i].of \in Nat
  BY NumbersType
<1>5. rxState' \in Header => got[last'] = 0
  BY <1>2, <1>3 DEF GotNothing, Header, TypeOK
<1>6. GotNothing'
  <2>1. last' \in Nat /\ last' >= last
    BY <1>2, <1>3 DEF TypeOK
  <2>2. QED BY <1>1, <1>3, <1>4, <1>5, <2>1, StillNothing
<1>7. QED BY <1>3, <1>6

\* Its value, by its place in the packet.
LEMMA NextValue ==
  ASSUME TypeOK, StreamKept, InPlace, Left \in Int, Left > 0, HasByte
  PROVE  /\ last \in 1..Len(packets) /\ packets[last] \in Packet
         /\ b = Val(packets[last], last, Total(last) - Left + 1) /\ b \in Nat
         /\ Left <= BodyLength => /\ BodyLength - Left + 1 \in 1..BodyLength
                                  /\ b = Body(packets[last], last)[BodyLength - Left + 1]
<1>1. in # <<>>
  BY DEF HasByte
<1>2. /\ last \in 1..Len(packets) /\ in[1].of = last /\ in[1].part = Total(last) - Left + 1
      /\ IsByte(in[1]) /\ Head(in) = in[1] /\ in \in Seq(Byte) /\ 1 \in 1..Len(in)
  BY <1>1, NextByte
<1>3. b = Val(packets[last], last, Total(last) - Left + 1)
  BY <1>2 DEF IsByte, b
<1>4. b \in Nat
  <2>1. in[1] \in Byte
    BY <1>2
  <2>2. in[1].val \in Nat
    BY <2>1 DEF Byte
  <2>3. QED BY <1>2, <2>2 DEF b
<1>5. /\ packets[last] \in Packet /\ last \in Nat
      /\ BodyLength \in Nat /\ Digits(BodyLength) \in Nat
      /\ Total(last) = 1 + Digits(BodyLength) + BodyLength
  <2>1. last \in 1..Len(packets)
    BY <1>2
  <2>2. /\ packets[last] \in Packet /\ BodyLength \in Nat /\ Digits(BodyLength) \in 1..2
        /\ Total(last) = 1 + Digits(BodyLength) + BodyLength
    BY <2>1, TotalOf DEF BodyLength
  <2>3. QED BY <2>1, <2>2
<1>6. ASSUME Left <= BodyLength
      PROVE  /\ BodyLength - Left + 1 \in 1..BodyLength
             /\ b = Body(packets[last], last)[BodyLength - Left + 1]
  <2>1. PICK i \in 1..BodyLength : i = BodyLength - Left + 1
    BY <1>5, <1>6
  <2>2. Total(last) - Left + 1 = 1 + Digits(BodyLength) + i
    BY <1>5, <2>1
  <2>3. Val(packets[last], last, 1 + Digits(BodyLength) + i) = Body(packets[last], last)[i]
    BY <1>5, ByteOf DEF BodyLength
  <2>4. QED BY <1>3, <2>1, <2>2, <2>3
<1>7. QED BY <1>2, <1>3, <1>4, <1>5, <1>6

\* A stream of nothing.
LEMMA NoStream ==
  ASSUME in' = <<>>, wire' = <<>>
  PROVE  Stream' = <<>> /\ Len(Stream') = 0 /\ StreamKept'
<1>1. Stream' = <<>> /\ Len(Stream') = 0
  BY DEF Stream
<1>2. InOrder(Stream)' /\ Whole(Stream)'
  BY <1>1 DEF InOrder, Whole
<1>3. QED BY <1>1, <1>2 DEF StreamKept

\* A byte can only be taken where the receiver is in place.
LEMMA NotOver ==
  ASSUME Kept, in # <<>> \/ open \/ call = "callback"
  PROVE  TypeOK /\ StreamKept /\ GotNothing /\ NoneEmpty /\ InPlace /\ FieldsTrue /\ MessageTrue
BY DEF Kept, Over, Placed

\* stop() leaves nothing to be taken.
LEMMA Stopped ==
  ASSUME Kept, Stop, rx' \in Fields, UNCHANGED <<rxState, returnCode>>
  PROVE  Kept'
<1>1. /\ in' = <<>> /\ wire' = <<>> /\ last' = 0 /\ call' = "none" /\ open' = FALSE
      /\ UNCHANGED <<listens, packets, got, sent>>
  BY DEF Stop
<1>2. Stream' = <<>> /\ Len(Stream') = 0 /\ StreamKept'
  BY <1>1, NoStream
<1>3. TypeOK'
  <2>1. TypeOK /\ <<>> \in Seq(Byte)
    BY DEF Kept
  <2>2. Len(packets) \in Nat
    BY <2>1 DEF TypeOK
  <2>3. 0 \in 0..Len(packets)
    BY <2>2
  <2>4. QED BY <1>1, <2>1, <2>3 DEF TypeOK
<1>4. Over'
  BY <1>1 DEF Over
<1>5. GotNothing'
  BY <1>1, <1>2 DEF Kept, GotNothing
<1>6. NoneEmpty'
  BY <1>1 DEF Kept, NoneEmpty
<1>7. QED BY <1>2, <1>3, <1>4, <1>5, <1>6 DEF Kept

-----------------------------------------------------------------------------
(* The steps of poll()                                                     *)
-----------------------------------------------------------------------------
\* No message is in the application's hands.
LEMMA NoMessage ==
  ASSUME rxState' \notin {"READ_PUBLISH_PAYLOAD", "DISCARD_PUBLISH_PAYLOAD"}, call' # "callback"
  PROVE  MessageTrue'
BY DEF MessageTrue, HandedOver

\* The first byte of a packet.
LEMMA ReadTypeKeeps ==
  ASSUME Kept, ReadType
  PROVE  Kept'
<1>1. /\ call = "poll" /\ in # <<>> /\ in' = Tail(in) /\ last' = Head(in).of
      /\ UNCHANGED <<listens, wire, packets, got, call, open, returnCode, sent>>
      /\ rxState = "READ_TYPE" /\ rxState' = "READ_REMAINING_LENGTH"
      /\ rx' = [rx EXCEPT !.type = b \div 16, !.flags = b % 16, !.length = 0, !.multiplier = 1]
  BY DEF ReadType, Taken, Take, HasByte
<1>2. TypeOK /\ StreamKept /\ GotNothing /\ NoneEmpty /\ InPlace
  BY <1>1, NotOver
<1>3. ~ (Left > 0)
  BY <1>1 DEF Left
<1>4. /\ in \in Seq(Byte) /\ 1 \in 1..Len(in) /\ Head(in) = in[1] /\ IsByte(in[1])
      /\ in' = SubSeq(in, 1 + 1, Len(in)) /\ in[1].part = 1 /\ in[1].of > last
  BY <1>1, <1>2, <1>3, NextByte
<1>5. PICK k \in 1..Len(packets) : k = in[1].of
  BY <1>2, <1>4, BytePlace
<1>6. PICK p \in Packet : p = packets[k]
  BY <1>2, <1>5, TotalOf
<1>7. /\ Total(k) \in Nat /\ Total(k) > 1 /\ Total(k) = 1 + Digits(Size(p)) + Size(p)
      /\ Size(p) \in Nat /\ Digits(Size(p)) \in Nat /\ k \in Nat
  <2>1. /\ Total(k) \in Nat /\ Total(k) > 1
        /\ Total(k) = 1 + Digits(Size(packets[k])) + Size(packets[k])
        /\ Size(packets[k]) \in Nat /\ Digits(Size(packets[k])) \in 1..2
    BY <1>2, <1>5, TotalOf
  <2>2. Digits(Size(p)) \in Nat
    BY <1>6, <2>1
  <2>3. k \in Nat
    BY <1>5
  <2>4. QED BY <1>6, <2>1, <2>2, <2>3
<1>8. b = Val(p, k, 1)
  BY <1>4, <1>5, <1>6 DEF IsByte, b
<1>9. b \div 16 = p.type /\ b % 16 = p.flags /\ p.type \in Nat /\ p.flags \in Nat
  <2>1. p.type \in 0..15 /\ p.flags \in 0..15
    BY DEF Packet
  <2>2. p.type \in Nat /\ p.flags \in Nat
    <3>1. \A x \in 0..15 : x \in Nat
      OBVIOUS
    <3>2. QED BY <2>1, <3>1
  <2>3. k \in Nat
    BY <1>7
  <2>4. Val(p, k, 1) \div 16 = p.type /\ Val(p, k, 1) % 16 = p.flags
    BY <2>3, FirstByte
  <2>5. QED BY <1>8, <2>2, <2>4
<1>10. rx' \in Fields /\ rx'.type = p.type /\ rx'.flags = p.flags /\ rx'.length = 0
       /\ rx'.multiplier = 1
  BY <1>1, <1>2, <1>9 DEF TypeOK, Fields
<1>11. /\ StreamKept' /\ in' \in Seq(Byte)
       /\ \A i \in 1..Len(Stream') : i + 1 \in 1..Len(Stream) /\ Stream'[i] = Stream[i + 1]
       /\ open => Stream' # <<>>
       /\ Stream' # <<>> => Stream'[1].of = k /\ Stream'[1].part = 1 + 1
  <2>1. Total(in[1].of) - in[1].part + 1 = Total(k)
    BY <1>4, <1>5, <1>7
  <2>2. 1 <= Total(k) /\ 1 < Total(k)
    BY <1>7
  <2>3. QED BY <1>1, <1>2, <1>4, <1>5, <2>1, <2>2, TakeSome
<1>12. last' = k /\ packets'[last'] = p
  BY <1>1, <1>4, <1>5, <1>6
<1>13. Left' = Size(p) + Digits(Size(p))
  BY <1>1, <1>10, <1>12 DEF Left, BodyLength
<1>14. InPlace'
  <2>1. Total(last)' = Total(k)
    BY <1>1, <1>12 DEF Total
  <2>2. Left' > 0 /\ Total(k) - Left' + 1 = 1 + 1 /\ k > 0
    BY <1>5, <1>7, <1>13
  <2>3. QED BY <1>1, <1>11, <1>12, <2>1, <2>2 DEF InPlace
<1>15. FieldsTrue'
  BY <1>1, <1>5, <1>10, <1>12 DEF FieldsTrue
<1>16. MessageTrue'
  BY <1>1, NoMessage
<1>17. TypeOK'
  BY <1>1, <1>2, <1>5, <1>10, <1>11, <1>12 DEF TypeOK, RxStates
<1>18. GotNothing'
  <2>1. Stream[1] = in[1] /\ 1 \in 1..Len(Stream)
    BY <1>2, <1>4, StreamIs
  <2>2. got[k] = 0
    BY <1>2, <1>4, <1>5, <2>1 DEF GotNothing
  <2>3. \A i \in 1..Len(Stream) : Stream[i].of \in Nat
    BY <1>2, NumbersType
  <2>4. last' \in Nat /\ last' >= last
    BY <1>2, <1>4, <1>5, <1>7, <1>12 DEF TypeOK
  <2>5. rxState' \in RxStates
    BY <1>1 DEF RxStates
  <2>6. QED BY <1>1, <1>2, <1>11, <1>12, <2>2, <2>3, <2>4, <2>5, StillNothing
<1>19. NoneEmpty'
  BY <1>1, <1>2 DEF NoneEmpty
<1>20. QED BY <1>11, <1>14, <1>15, <1>16, <1>17, <1>18, <1>19 DEF Kept, Placed

\* What a byte of the remaining length says.
LEMMA LengthByte ==
  ASSUME TypeOK, StreamKept, InPlace, FieldsTrue, rxState = "READ_REMAINING_LENGTH", HasByte
  PROVE  /\ last \in 1..Len(packets) /\ BodyLength \in Nat
         /\ Left \in Int /\ Left > 0 /\ b \in Nat
         /\ rx.length + (b % Base) * rx.multiplier \in Nat /\ rx.multiplier * Base \in Nat
         /\ ~ (rx.multiplier * Base > Base * Base * Base)
         /\ (b \div Base) % 2 = 0 =>
              /\ rx.length + (b % Base) * rx.multiplier = BodyLength /\ Left = BodyLength + 1
         /\ (b \div Base) % 2 # 0 =>
              /\ rx.length + (b % Base) * rx.multiplier = BodyLength % Base /\ BodyLength >= Base
              /\ rx.multiplier * Base = Base /\ Left = BodyLength + 2
<1>1. last \in 1..Len(packets) /\ Left \in Int
  BY LeftIs DEF FieldsTrue, TypeOK
<1>2. PICK S \in Nat : S = BodyLength /\ S < Base * Base
  BY <1>1, TotalOf, QosType DEF BodyLength
<1>3. Base \in Nat /\ Base > 2
  BY ReceiverAssumption
<1>4. /\ Digits(S) \in 1..2
      /\ S < Base => Length(S)[1] % Base = S /\ (Length(S)[1] \div Base) % 2 = 0
      /\ S >= Base => /\ Length(S)[1] % Base = S % Base /\ (Length(S)[1] \div Base) % 2 = 1
                      /\ Length(S)[2] \div Base = 0
                      /\ (S % Base) + (Length(S)[2] % Base) * Base = S
  BY <1>2, DigitValues
<1>5. Digits(S) = IF S < Base THEN 1 ELSE 2
  BY DEF Digits
<1>6. Left = S + IF rx.multiplier = 1 THEN Digits(S) ELSE 1
  BY <1>2 DEF Left
<1>7. Left > 0
  BY <1>2, <1>4, <1>6
<1>8. /\ packets[last] \in Packet /\ last \in Nat /\ b \in Nat
      /\ b = Val(packets[last], last, Total(last) - Left + 1)
  BY <1>1, <1>7, NextValue
<1>9. Total(last) = 1 + Digits(S) + S
  BY <1>1, <1>2, TotalOf DEF BodyLength
<1>10. \A i \in 1..Digits(S) : Val(packets[last], last, 1 + i) = Length(S)[i]
  BY <1>2, <1>8, ByteOf DEF BodyLength
<1>11. Base * Base * Base > Base * Base /\ Base * Base > Base /\ Base * Base * Base \in Nat
       /\ Base * Base \in Nat
  <2>1. Base * Base > Base /\ Base * Base \in Nat
    BY <1>3
  <2>2. PICK q \in Nat : q = Base * Base
    BY <2>1
  <2>3. q * Base > q /\ q * Base \in Nat
    BY <1>3, <2>1, <2>2
  <2>4. QED BY <1>3, <2>1, <2>2, <2>3
<1>12. CASE rx.multiplier = 1 /\ rx.length = 0
  <2>1. Total(last) - Left + 1 = 1 + 1 /\ 1 \in 1..Digits(S)
    BY <1>2, <1>4, <1>6, <1>9, <1>12
  <2>2. b = Length(S)[1]
    BY <1>8, <1>10, <2>1
  <2>3. b % Base \in Nat
    BY <1>3, <1>8
  <2>4. rx.length + (b % Base) * rx.multiplier = b % Base /\ rx.multiplier * Base = Base
    BY <1>3, <1>12, <2>3
  <2>5. ~ (Base > Base * Base * Base)
    BY <1>3, <1>11
  <2>6. CASE S < Base
    BY <1>1, <1>2, <1>3, <1>4, <1>5, <1>6, <1>7, <1>8, <1>12, <2>2, <2>3, <2>4, <2>5, <2>6
  <2>7. CASE S >= Base
    <3>1. (b \div Base) % 2 = 1 /\ b % Base = S % Base
      BY <1>4, <2>2, <2>7
    <3>2. Left = S + 2
      BY <1>2, <1>3, <1>5, <1>6, <1>12, <2>7
    <3> QED BY <1>1, <1>2, <1>3, <1>7, <1>8, <2>3, <2>4, <2>5, <2>7, <3>1, <3>2
  <2>8. QED BY <1>2, <1>3, <2>6, <2>7
<1>13. CASE rx.multiplier = Base /\ rx.length = S % Base /\ S >= Base
  <2>1. Digits(S) = 2 /\ Left = S + 1
    BY <1>2, <1>3, <1>5, <1>6, <1>13
  <2>2. Total(last) - Left + 1 = 1 + 2 /\ 2 \in 1..Digits(S)
    BY <1>2, <1>9, <2>1
  <2>3. b = Length(S)[2]
    BY <1>8, <1>10, <2>2
  <2>4. rx.length + (b % Base) * rx.multiplier = S
    BY <1>4, <1>13, <2>3
  <2>5. b \div Base = 0
    BY <1>4, <1>13, <2>3
  <2>6. (b \div Base) % 2 = 0
    BY <2>5
  <2>7. rx.multiplier * Base = Base * Base
    BY <1>13
  <2>8. ~ (Base * Base > Base * Base * Base) /\ Base * Base \in Nat
    BY <1>11
  <2>9. QED BY <1>1, <1>2, <1>7, <1>8, <2>1, <2>4, <2>6, <2>7, <2>8
<1>14. QED BY <1>2, <1>12, <1>13 DEF FieldsTrue

\* A byte of the remaining length.
LEMMA ReadRemainingLengthKeeps ==
  ASSUME Kept, ReadRemainingLength
  PROVE  Kept'
<1> DEFINE length == rx.length + (b % Base) * rx.multiplier
           multiplier == rx.multiplier * Base
           long == multiplier > Base * Base * Base
           done == (b \div Base) % 2 = 0
           next == [rx EXCEPT !.length = length, !.multiplier = multiplier]
<1>1. /\ rxState = "READ_REMAINING_LENGTH" /\ HasByte /\ in # <<>> /\ call = "poll"
      /\ returnCode' = returnCode
  BY DEF ReadRemainingLength, HasByte
<1>2. \/ /\ long \/ (done /\ Malformed(rx.type, rx.flags, length))
         /\ Stop /\ rx' = next /\ UNCHANGED rxState
      \/ /\ ~ long /\ ~ done
         /\ Taken /\ rx' = next /\ UNCHANGED <<rxState, sent>>
      \/ /\ ~ long /\ done /\ ~ Malformed(rx.type, rx.flags, length)
         /\ Taken /\ UNCHANGED sent
         /\ rx' = [next EXCEPT !.buffer = <<>>,
                               !.qos = IF rx.type = PUBLISH THEN (rx.flags \div 2) % 4 ELSE rx.qos]
         /\ rxState' = IF rx.type = PUBLISH THEN "READ_PUBLISH_TOPIC_LENGTH"
                       ELSE IF length = 0 THEN "READ_TYPE" ELSE "READ_VARIABLE_HEADER"
  BY Zenon DEF ReadRemainingLength
<1>3. /\ TypeOK /\ StreamKept /\ GotNothing /\ NoneEmpty /\ InPlace /\ FieldsTrue
  BY <1>1, NotOver
<1>4. /\ last \in 1..Len(packets) /\ BodyLength \in Nat /\ Left \in Int /\ Left > 0
      /\ length \in Nat /\ multiplier \in Nat /\ ~ long
      /\ done => length = BodyLength /\ Left = BodyLength + 1
      /\ ~ done => /\ length = BodyLength % Base /\ BodyLength >= Base
                   /\ multiplier = Base /\ Left = BodyLength + 2
  BY <1>1, <1>3, LengthByte
<1> HIDE DEF length, multiplier, long, done
<1>5. rx.type = packets[last].type /\ rx.flags = packets[last].flags
  BY <1>1, <1>3 DEF FieldsTrue
<1>6. next \in Fields /\ next.length = length /\ next.multiplier = multiplier
      /\ next.type = rx.type /\ next.flags = rx.flags
  BY <1>3, <1>4 DEF TypeOK, Fields
<1>7. CASE Stop /\ rx' = next /\ UNCHANGED rxState
  BY <1>1, <1>6, <1>7, Stopped
<1>8. CASE ~ done /\ Taken /\ rx' = next /\ UNCHANGED <<rxState, sent>>
  <2>1. Take /\ UNCHANGED <<call, open, listens, wire, packets, got>>
    BY <1>8 DEF Taken, Take
  <2>2. BodyLength' = IF last' = last THEN BodyLength ELSE BodyLength'
    BY <2>1 DEF BodyLength
  <2>3. last' = last /\ BodyLength' = BodyLength
    <3>1. last' = last
      <4>1. in[1].of = last /\ Head(in) = in[1]
        BY <1>1, <1>3, <1>4, NextByte
      <4> QED BY <2>1, <4>1 DEF Take
    <3> QED BY <2>2, <3>1
  <2>4. Left' = Left - 1
    <3>1. Base # 1
      BY ReceiverAssumption
    <3>2. Left' = BodyLength + 1
      BY <1>1, <1>4, <1>6, <1>8, <2>3, <3>1 DEF Left
    <3> QED BY <1>4, <1>8, <3>2
  <2>5. rxState' \in RxStates /\ rxState \in Header
    BY <1>1, <1>8 DEF RxStates, Header
  <2>6. StreamKept' /\ InPlace' /\ GotNothing' /\ in' \in Seq(Byte)
    BY <1>3, <1>4, <2>1, <2>4, <2>5, ByteTaken
  <2>7. FieldsTrue'
    BY <1>1, <1>4, <1>5, <1>6, <1>8, <2>1, <2>3 DEF FieldsTrue
  <2>8. MessageTrue'
    BY <1>1, <1>8, <2>1, NoMessage
  <2>9. TypeOK'
    BY <1>1, <1>3, <1>6, <1>8, <2>1, <2>3, <2>5, <2>6 DEF TypeOK
  <2>10. NoneEmpty'
    BY <1>3, <2>1 DEF NoneEmpty
  <2>11. QED BY <2>6, <2>7, <2>8, <2>9, <2>10 DEF Kept, Placed
<1>9. CASE /\ done /\ Taken /\ UNCHANGED sent
           /\ rx' = [next EXCEPT !.buffer = <<>>,
                         !.qos = IF rx.type = PUBLISH THEN (rx.flags \div 2) % 4 ELSE rx.qos]
           /\ rxState' = IF rx.type = PUBLISH THEN "READ_PUBLISH_TOPIC_LENGTH"
                         ELSE IF length = 0 THEN "READ_TYPE" ELSE "READ_VARIABLE_HEADER"
  <2>1. Take /\ UNCHANGED <<call, open, listens, wire, packets, got>>
    BY <1>9 DEF Taken, Take
  <2>2. last' = last
    <3>1. in[1].of = last /\ Head(in) = in[1]
      BY <1>1, <1>3, <1>4, NextByte
    <3> QED BY <2>1, <3>1 DEF Take
  <2>3. BodyLength' = BodyLength
    BY <2>1, <2>2 DEF BodyLength
  <2>4. PICK q \in Nat : q = IF rx.type = PUBLISH THEN (rx.flags \div 2) % 4 ELSE rx.qos
    <3>1. rx.flags \in Nat /\ rx.qos \in Nat
      BY <1>3 DEF TypeOK, Fields
    <3>2. (rx.flags \div 2) % 4 \in Nat
      BY <3>1
    <3> QED BY <3>1, <3>2
  <2>5. /\ rx' \in Fields /\ rx'.length = length /\ rx'.buffer = <<>> /\ rx'.type = rx.type
        /\ rx'.qos = q
    <3>1. rx' = [next EXCEPT !.buffer = <<>>, !.qos = q]
      BY <1>9, <2>4
    <3> HIDE DEF next
    <3>2. <<>> \in Seq(Nat)
      OBVIOUS
    <3> QED BY <1>6, <3>1, <3>2 DEF Fields
  <2>6. Left' = Left - 1
    <3>1. Left' = BodyLength
      BY <1>4, <1>9, <2>5 DEF Left
    <3> QED BY <1>4, <1>9, <3>1
  <2>7. rxState' \in RxStates /\ rxState \in Header
    BY <1>1, <1>9 DEF RxStates, Header
  <2>8. StreamKept' /\ InPlace' /\ GotNothing' /\ in' \in Seq(Byte)
    BY <1>3, <1>4, <2>1, <2>6, <2>7, ByteTaken
  <2>9. FieldsTrue'
    <3>1. packets'[last'] = packets[last] /\ last' > 0
      BY <1>4, <2>1, <2>2
    <3>2. Len(rx'.buffer) = 0
      BY <2>5
    <3>3. rx.type = PUBLISH => rx'.qos = Qos(packets[last])
      BY <1>5, <2>4, <2>5 DEF Qos
    <3>4. CASE rx.type = PUBLISH
      BY <1>4, <1>5, <1>9, <2>3, <2>5, <3>1, <3>2, <3>3, <3>4 DEF FieldsTrue, Copied
    <3>5. CASE rx.type # PUBLISH /\ length = 0
      BY <1>9, <3>5 DEF FieldsTrue
    <3>6. CASE rx.type # PUBLISH /\ length # 0
      BY <1>4, <1>5, <1>9, <2>3, <2>5, <3>1, <3>2, <3>6 DEF FieldsTrue, Copied
    <3>7. QED BY <3>4, <3>5, <3>6
  <2>10. MessageTrue'
    BY <1>1, <1>9, <2>1, NoMessage
  <2>11. TypeOK'
    BY <1>1, <1>3, <1>9, <2>1, <2>2, <2>5, <2>7, <2>8 DEF TypeOK
  <2>12. NoneEmpty'
    BY <1>3, <2>1 DEF NoneEmpty
  <2>13. QED BY <2>8, <2>9, <2>10, <2>11, <2>12 DEF Kept, Placed
<1>10. QED BY <1>2, <1>7, <1>8, <1>9

\* The byte taken belongs to the packet under way.
LEMMA SamePacket ==
  ASSUME TypeOK, StreamKept, InPlace, Left > 0, Take
  PROVE  last' = last /\ packets' = packets /\ packets'[last'] = packets[last]
         /\ BodyLength' = BodyLength
<1>1. in[1].of = last /\ Head(in) = in[1]
  BY NextByte DEF Take, HasByte
<1>2. last' = last /\ packets' = packets
  BY <1>1 DEF Take
<1>3. QED BY <1>2 DEF BodyLength

\* What a step that takes a byte of the header has to show.
LEMMA HeaderTaken ==
  ASSUME Kept, rxState \in Header, Left \in Int, Left > 0, Take, UNCHANGED open, Left' = Left - 1,
         rx' \in Fields, rxState' \in RxStates, returnCode' \in Nat,
         call' \in {"none", "poll", "callback"}, sent' \in Seq(Nat \X Nat),
         FieldsTrue', MessageTrue'
  PROVE  Kept'
<1>1. /\ in # <<>> /\ UNCHANGED <<listens, wire, packets, got>>
  BY DEF Take, HasByte
<1>2. TypeOK /\ StreamKept /\ GotNothing /\ NoneEmpty /\ InPlace
  BY <1>1, NotOver
<1>3. StreamKept' /\ InPlace' /\ GotNothing' /\ in' \in Seq(Byte) /\ last' = last
  BY <1>2, ByteTaken
<1>4. TypeOK'
  BY <1>1, <1>2, <1>3 DEF TypeOK
<1>5. NoneEmpty'
  BY <1>1, <1>2 DEF NoneEmpty
<1>6. QED BY <1>3, <1>4, <1>5 DEF Kept, Placed

\* Where the receiver is when it takes a byte of the body of a header.
LEMMA InHeader ==
  ASSUME Kept, HasByte, rxState \in Header, rxState # "READ_REMAINING_LENGTH"
  PROVE  /\ TypeOK /\ StreamKept /\ GotNothing /\ NoneEmpty /\ InPlace /\ FieldsTrue
         /\ last \in 1..Len(packets) /\ packets[last] \in Packet /\ last \in Nat
         /\ BodyLength \in Nat /\ BodyLength = Size(packets[last])
         /\ Left \in Int /\ Left = rx.length - Len(rx.buffer)
         /\ rx \in Fields /\ rx.buffer \in Seq(Nat) /\ rx.length \in Nat
         /\ call = "poll"
         /\ Left > 0 => /\ b \in Nat
                        /\ Left <= BodyLength =>
                             /\ BodyLength - Left + 1 \in 1..BodyLength
                             /\ b = Body(packets[last], last)[BodyLength - Left + 1]
<1>1. /\ TypeOK /\ StreamKept /\ GotNothing /\ NoneEmpty /\ InPlace /\ FieldsTrue /\ call = "poll"
  BY NotOver DEF HasByte
<1>2. last \in 1..Len(packets) /\ last \in Nat
  BY <1>1 DEF FieldsTrue, TypeOK, Header
<1>3. packets[last] \in Packet /\ BodyLength \in Nat /\ BodyLength = Size(packets[last])
  BY <1>1, <1>2, TotalOf DEF BodyLength
<1>4. Left \in Int /\ Left = rx.length - Len(rx.buffer)
  BY <1>1, LeftIs DEF Left, Header
<1>5. rx \in Fields /\ rx.buffer \in Seq(Nat) /\ rx.length \in Nat
  BY <1>1 DEF TypeOK, Fields
<1>6. Left > 0 => /\ b \in Nat
                  /\ Left <= BodyLength =>
                       /\ BodyLength - Left + 1 \in 1..BodyLength
                       /\ b = Body(packets[last], last)[BodyLength - Left + 1]
  BY <1>1, <1>4, NextValue
<1>7. QED BY <1>1, <1>2, <1>3, <1>4, <1>5, <1>6

\* A byte more of a copied part.
LEMMA OneMore ==
  ASSUME NEW s \in Seq(Nat), NEW x \in Nat, NEW n \in Nat, n = Len(s),
         NEW t, \A i \in 1..n : s[i] = t[i], x = t[n + 1]
  PROVE  /\ Append(s, x) \in Seq(Nat) /\ Len(Append(s, x)) = n + 1
         /\ \A i \in 1..n + 1 : Append(s, x)[i] = t[i]
<1>1. /\ Append(s, x) \in Seq(Nat) /\ Len(Append(s, x)) = n + 1
      /\ \A i \in 1..n : Append(s, x)[i] = s[i]
      /\ Append(s, x)[n + 1] = x
  OBVIOUS
<1>2. \A i \in 1..n + 1 : i \in 1..n \/ i = n + 1
  OBVIOUS
<1>3. QED BY <1>1, <1>2

\* A byte of an answer.
LEMMA ReadVariableHeaderKeeps ==
  ASSUME Kept, ReadVariableHeader
  PROVE  Kept'
<1>1. HasByte /\ rxState = "READ_VARIABLE_HEADER" /\ rxState \in Header
  BY DEF ReadVariableHeader, Taken, Take, Header
<1>2. /\ TypeOK /\ StreamKept /\ GotNothing /\ NoneEmpty /\ InPlace /\ FieldsTrue
      /\ last \in 1..Len(packets) /\ packets[last] \in Packet /\ last \in Nat
      /\ BodyLength \in Nat /\ BodyLength = Size(packets[last]) /\ Left \in Int
      /\ Left = rx.length - Len(rx.buffer)
      /\ rx \in Fields /\ rx.buffer \in Seq(Nat) /\ rx.length \in Nat /\ call = "poll"
  BY <1>1, InHeader
<1>3. /\ rx.type = packets[last].type /\ packets[last].type # PUBLISH
      /\ rx.length = BodyLength /\ Len(rx.buffer) < BodyLength
      /\ \A i \in 1..Len(rx.buffer) : rx.buffer[i] = Body(packets[last], last)[i]
  <2>1. BodyLength - BodyLength = 0 /\ \A i \in 1..Len(rx.buffer) : 0 + i = i
    BY <1>2
  <2>2. QED BY <1>1, <1>2, <2>1 DEF FieldsTrue, Copied
<1>4. PICK n \in Nat : n = Len(rx.buffer) /\ n < BodyLength /\ Left = BodyLength - n
  BY <1>2, <1>3
<1>5. b \in Nat /\ b = Body(packets[last], last)[n + 1]
  <2>1. PICK S \in Nat, l \in Int : S = BodyLength /\ l = Left
    BY <1>2
  <2>2. l = S - n /\ n < S
    BY <1>4, <2>1
  <2>3. l > 0 /\ l <= S /\ S - l + 1 = n + 1
    BY <2>2
  <2>4. QED BY <1>1, <2>1, <2>3, InHeader
<1>6. PICK s \in Seq(Nat) : /\ s = Append(rx.buffer, b) /\ Len(s) = n + 1
                            /\ \A i \in 1..n + 1 : s[i] = Body(packets[last], last)[i]
  <2> DEFINE t == Body(packets[last], last)
  <2>1. \A i \in 1..n : rx.buffer[i] = t[i]
    BY <1>2, <1>3, <1>4, <1>5
  <2>2. rx.buffer \in Seq(Nat) /\ b \in Nat /\ n \in Nat /\ n = Len(rx.buffer) /\ b = t[n + 1]
    BY <1>2, <1>3, <1>4, <1>5
  <2> HIDE DEF t
  <2>3. /\ Append(rx.buffer, b) \in Seq(Nat) /\ Len(Append(rx.buffer, b)) = n + 1
        /\ \A i \in 1..n + 1 : Append(rx.buffer, b)[i] = t[i]
    BY <2>1, <2>2, OneMore
  <2>4. QED BY <2>3 DEF t
<1>7. Take /\ UNCHANGED <<call, open>>
  BY DEF ReadVariableHeader, Taken
<1>8. rx' = [rx EXCEPT !.buffer = s]
  BY <1>6 DEF ReadVariableHeader
<1>9. rx' \in Fields /\ rx'.buffer = s /\ rx'.length = BodyLength /\ rx'.type = rx.type
  BY <1>2, <1>3, <1>6, <1>8 DEF Fields
<1>10. last' = last /\ packets'[last'] = packets[last] /\ BodyLength' = BodyLength
       /\ packets' = packets
  BY <1>2, <1>4, <1>7, SamePacket
<1>11. CASE n + 1 = BodyLength
  <2>1. rxState' = "READ_TYPE" /\ Response(s)
    BY <1>3, <1>6, <1>11 DEF ReadVariableHeader
  <2>2. Left' = Left - 1
    BY <1>4, <1>11, <2>1 DEF Left
  <2>3. BodyLength >= 2 /\ (rx.type = SUBACK => BodyLength = 3)
    <3>1. BodyLength > 0
      BY <1>2, <1>4
    <3>2. QED BY <1>2, <1>3, <3>1, BodyIs
  <2>4. /\ s[1] \in Nat /\ s[2] \in Nat /\ (rx.type = SUBACK => s[3] \in Nat) /\ Word(s) \in Nat
    <3>1. Len(s) >= 2 /\ (rx.type = SUBACK => Len(s) = 3)
      BY <1>6, <1>11, <2>3
    <3>2. s[1] \in Nat /\ s[2] \in Nat /\ (rx.type = SUBACK => s[3] \in Nat)
      BY <1>6, <3>1
    <3>3. QED BY <3>2 DEF Word
  <2>5. returnCode' \in Nat
    <3>1. returnCode' \in {s[2], 0, returnCode} \/ (rx.type = SUBACK /\ returnCode' = s[3])
      BY <2>1 DEF Response
    <3>2. returnCode \in Nat
      BY <1>2 DEF TypeOK
    <3>3. QED BY <2>4, <3>1, <3>2
  <2>6. sent' \in Seq(Nat \X Nat)
    <3>1. sent' \in {sent, Append(sent, <<PUBCOMP, Word(s)>>)}
      BY <2>1 DEF Response
    <3>2. <<PUBCOMP, Word(s)>> \in Nat \X Nat
      BY <2>4 DEF PUBCOMP
    <3>3. sent \in Seq(Nat \X Nat)
      BY <1>2 DEF TypeOK
    <3>4. Append(sent, <<PUBCOMP, Word(s)>>) \in Seq(Nat \X Nat)
      BY <3>2, <3>3
    <3>5. QED BY <3>1, <3>3, <3>4
  <2>7. FieldsTrue'
    BY <2>1 DEF FieldsTrue
  <2>8. MessageTrue'
    BY <1>2, <1>7, <2>1, NoMessage
  <2>9. rxState' \in RxStates
    BY <2>1 DEF RxStates
  <2>10. Left > 0
    BY <1>2, <1>4
  <2>11. QED BY <1>1, <1>2, <1>7, <1>9, <2>2, <2>5, <2>6, <2>7, <2>8, <2>9, <2>10, HeaderTaken
<1>12. CASE n + 1 # BodyLength
  <2>1. UNCHANGED <<rxState, returnCode, sent>>
    BY <1>3, <1>6, <1>12 DEF ReadVariableHeader
  <2>2. Left' = Left - 1
    <3>1. Left' = BodyLength - (n + 1)
      BY <1>1, <1>6, <1>9, <2>1 DEF Left
    <3>2. QED BY <1>2, <1>4, <3>1
  <2>3. FieldsTrue'
    <3>1. Len(rx'.buffer) < BodyLength
      BY <1>2, <1>4, <1>6, <1>9, <1>12
    <3>2. \A i \in 1..Len(rx'.buffer) :
             rx'.buffer[i] = Body(packets[last], last)[BodyLength - BodyLength + i]
      <4>1. BodyLength - BodyLength = 0 /\ \A i \in 1..Len(s) : 0 + i = i
        BY <1>2, <1>6
      <4>2. QED BY <1>6, <1>9, <4>1
    <3>3. QED BY <1>1, <1>2, <1>3, <1>9, <1>10, <2>1, <3>1, <3>2 DEF FieldsTrue, Copied
  <2>4. MessageTrue'
    BY <1>1, <1>2, <1>7, <2>1, NoMessage
  <2>5. /\ rxState' \in RxStates /\ returnCode' \in Nat /\ sent' \in Seq(Nat \X Nat)
        /\ call' \in {"none", "poll", "callback"} /\ Left > 0
    BY <1>2, <1>4, <1>7, <2>1 DEF TypeOK
  <2>6. QED BY <1>1, <1>2, <1>7, <1>9, <2>2, <2>3, <2>4, <2>5, HeaderTaken
<1>13. QED BY <1>11, <1>12

\* A byte of the length of the topic.
LEMMA ReadTopicLengthKeeps ==
  ASSUME Kept, ReadTopicLength
  PROVE  Kept'
<1>1. HasByte /\ rxState = "READ_PUBLISH_TOPIC_LENGTH" /\ rxState \in Header
      /\ returnCode' = returnCode
  BY DEF ReadTopicLength, Header
<1>2. /\ TypeOK /\ StreamKept /\ GotNothing /\ NoneEmpty /\ InPlace /\ FieldsTrue
      /\ last \in 1..Len(packets) /\ packets[last] \in Packet /\ last \in Nat
      /\ BodyLength \in Nat /\ BodyLength = Size(packets[last]) /\ Left \in Int
      /\ Left = rx.length - Len(rx.buffer)
      /\ rx \in Fields /\ rx.buffer \in Seq(Nat) /\ rx.length \in Nat /\ call = "poll"
  BY <1>1, InHeader
<1>3. /\ packets[last].type = PUBLISH /\ rx.qos = Qos(packets[last])
      /\ rx.length = BodyLength /\ Len(rx.buffer) < 2
      /\ \A i \in 1..Len(rx.buffer) : rx.buffer[i] = Body(packets[last], last)[i]
  <2>1. BodyLength - BodyLength = 0 /\ \A i \in 1..Len(rx.buffer) : 0 + i = i
    BY <1>2
  <2>2. rx.length = BodyLength /\ Copied(2)
    BY <1>1, <1>2 DEF FieldsTrue
  <2>3. packets[last].type = PUBLISH /\ rx.qos = Qos(packets[last])
    BY <1>1, <1>2 DEF FieldsTrue
  <2>4. QED BY <2>1, <2>2, <2>3 DEF Copied
<1>4. /\ BodyLength = 3 + (IF Qos(packets[last]) > 0 THEN 2 ELSE 0) + packets[last].payload
      /\ Body(packets[last], last)[1] = 0 /\ Body(packets[last], last)[2] = 1
      /\ packets[last].payload \in Nat /\ Qos(packets[last]) \in Nat
  <2>1. packets[last].payload \in Nat
    BY <1>2 DEF Packet
  <2>2. Qos(packets[last]) \in Nat
    <3>1. PICK p \in Packet : p = packets[last]
      BY <1>2
    <3>2. QED BY <3>1, QosType
  <2>3. QED BY <1>2, <1>3, <2>1, <2>2, BodyIs
<1>5. PICK n \in {0, 1} : n = Len(rx.buffer) /\ Left = BodyLength - n /\ BodyLength >= 3
  <2>1. PICK n \in Nat : n = Len(rx.buffer) /\ n < 2 /\ Left = BodyLength - n
    BY <1>2, <1>3
  <2>2. BodyLength >= 3
    BY <1>4
  <2>3. n \in {0, 1}
    <3>1. n < 2
      BY <2>1
    <3>2. QED BY <3>1
  <2>4. QED BY <2>1, <2>2, <2>3
<1>6. Left > 0 /\ b \in Nat /\ b = Body(packets[last], last)[n + 1]
  <2>1. PICK S \in Nat, l \in Int : S = BodyLength /\ l = Left
    BY <1>2
  <2>2. l = S - n /\ S >= 3
    BY <1>5, <2>1
  <2>3. l > 0 /\ l <= S /\ S - l + 1 = n + 1
    BY <2>2
  <2>4. QED BY <1>1, <2>1, <2>3, InHeader
<1>7. PICK s \in Seq(Nat) : /\ s = Append(rx.buffer, b) /\ Len(s) = n + 1
                            /\ \A i \in 1..n + 1 : s[i] = Body(packets[last], last)[i]
  <2> DEFINE t == Body(packets[last], last)
  <2>1. \A i \in 1..n : rx.buffer[i] = t[i]
    BY <1>2, <1>3, <1>5, <1>6
  <2>2. rx.buffer \in Seq(Nat) /\ b \in Nat /\ n \in Nat /\ n = Len(rx.buffer) /\ b = t[n + 1]
    BY <1>2, <1>3, <1>5, <1>6
  <2> HIDE DEF t
  <2>3. /\ Append(rx.buffer, b) \in Seq(Nat) /\ Len(Append(rx.buffer, b)) = n + 1
        /\ \A i \in 1..n + 1 : Append(rx.buffer, b)[i] = t[i]
    BY <2>1, <2>2, OneMore
  <2>4. QED BY <2>3 DEF t
<1>8. CASE n = 0
  <2>1. Taken /\ rx' = [rx EXCEPT !.buffer = s] /\ UNCHANGED <<rxState, sent>>
    BY <1>7, <1>8 DEF ReadTopicLength
  <2>2. Take /\ UNCHANGED <<call, open>>
    BY <2>1 DEF Taken
  <2>3. last' = last /\ packets'[last'] = packets[last] /\ BodyLength' = BodyLength
    BY <1>2, <1>6, <2>2, SamePacket
  <2>4. /\ rx' \in Fields /\ rx'.buffer = s /\ rx'.length = BodyLength /\ rx'.qos = rx.qos
    BY <1>2, <1>3, <1>7, <2>1 DEF Fields
  <2>5. Left' = Left - 1
    <3>1. Left' = BodyLength - 1
      BY <1>1, <1>7, <1>8, <2>1, <2>4 DEF Left
    <3>2. Left = BodyLength - 0
      BY <1>5, <1>8
    <3>3. QED BY <1>2, <3>1, <3>2
  <2>6. FieldsTrue'
    <3>1. Len(rx'.buffer) < 2
      BY <1>7, <1>8, <2>4
    <3>2. \A i \in 1..Len(rx'.buffer) :
             rx'.buffer[i] = Body(packets[last], last)[BodyLength - BodyLength + i]
      <4>1. BodyLength - BodyLength = 0 /\ \A i \in 1..Len(s) : 0 + i = i
        BY <1>2, <1>7
      <4>2. QED BY <1>7, <2>4, <4>1
    <3>3. QED BY <1>1, <1>2, <1>3, <2>1, <2>3, <2>4, <3>1, <3>2 DEF FieldsTrue, Copied
  <2>7. MessageTrue'
    BY <1>1, <1>2, <2>1, <2>2, NoMessage
  <2>8. /\ rxState' \in RxStates /\ returnCode' \in Nat /\ sent' \in Seq(Nat \X Nat)
        /\ call' \in {"none", "poll", "callback"}
    BY <1>1, <1>2, <2>1, <2>2 DEF TypeOK
  <2>9. QED BY <1>1, <1>2, <1>6, <2>2, <2>4, <2>5, <2>6, <2>7, <2>8, HeaderTaken
<1>9. CASE n = 1
  <2>1. Len(s) = 2 /\ s[1] = 0 /\ s[2] = 1 /\ Word(s) = 1
    <3>1. Len(s) = 2 /\ s[1] = 0 /\ s[2] = 1
      BY <1>4, <1>7, <1>9
    <3>2. QED BY <3>1 DEF Word
  <2>2. ~ Short(rx.length - 2, Word(s), rx.qos)
    <3>1. packets[last].payload \in Nat
      BY <1>2 DEF Packet
    <3>2. rx.qos \in Nat
      BY <1>2 DEF TypeOK, Fields
    <3>3. PICK z \in Nat, q \in Nat : z = packets[last].payload /\ q = rx.qos
      BY <3>1, <3>2
    <3>4. rx.length = 3 + (IF q > 0 THEN 2 ELSE 0) + z
      BY <1>3, <1>4, <3>3
    <3>5. PICK y \in Nat : y = rx.length - 2 /\ y = 1 + (IF q > 0 THEN 2 ELSE 0) + z
      <4>1. CASE q > 0
        BY <3>4, <4>1
      <4>2. CASE ~ (q > 0)
        BY <3>4, <4>2
      <4>3. QED BY <4>1, <4>2
    <3>6. ~ (y < 1 + IF q > 0 THEN 2 ELSE 0)
      BY <3>5
    <3>7. QED BY <2>1, <3>3, <3>5, <3>6 DEF Short
  <2>3. /\ Taken /\ UNCHANGED sent /\ rxState' = "READ_PUBLISH_TOPIC"
        /\ rx' = [rx EXCEPT !.buffer = <<>>, !.topicLength = Word(s),
                            !.length = rx.length - 2, !.topic = 0]
    BY <1>7, <2>1, <2>2 DEF ReadTopicLength
  <2>4. Take /\ UNCHANGED <<call, open>>
    BY <2>3 DEF Taken
  <2>5. last' = last /\ packets'[last'] = packets[last] /\ BodyLength' = BodyLength
    BY <1>2, <1>6, <2>4, SamePacket
  <2>6. /\ rx' \in Fields /\ rx'.buffer = <<>> /\ rx'.length = BodyLength - 2 /\ rx'.qos = rx.qos
        /\ rx'.topicLength = 1 /\ rx'.topic = 0
    <3>1. <<>> \in Seq(Nat) /\ BodyLength - 2 \in Nat
      BY <1>2, <1>5
    <3>2. rx' = [rx EXCEPT !.buffer = <<>>, !.topicLength = 1, !.length = BodyLength - 2,
                           !.topic = 0]
      BY <1>3, <2>1, <2>3
    <3>3. QED BY <1>2, <3>1, <3>2 DEF Fields
  <2>7. Left' = Left - 1
    <3>1. Left' = (BodyLength - 2) - Len(<<>>) /\ Len(<<>>) = 0
      BY <2>3, <2>6 DEF Left
    <3>2. Left = BodyLength - 1
      BY <1>5, <1>9
    <3>3. QED BY <1>2, <3>1, <3>2
  <2>8. FieldsTrue'
    BY <1>2, <1>3, <2>3, <2>5, <2>6 DEF FieldsTrue
  <2>9. MessageTrue'
    BY <1>2, <2>3, <2>4, NoMessage
  <2>10. /\ rxState' \in RxStates /\ returnCode' \in Nat /\ sent' \in Seq(Nat \X Nat)
         /\ call' \in {"none", "poll", "callback"}
    BY <1>1, <1>2, <2>3, <2>4 DEF TypeOK, RxStates
  <2>11. QED BY <1>1, <1>2, <1>6, <2>4, <2>6, <2>7, <2>8, <2>9, <2>10, HeaderTaken
<1>10. QED BY <1>5, <1>8, <1>9

\* The message is handed over with its length, its quality and its number.
LEMMA HandedOverNow ==
  ASSUME TypeOK, GotNothing, NoneEmpty, HandOver, rxState \in Header,
         last' = last, last \in 1..Len(packets),
         packets[last].type = PUBLISH, packets[last].payload \in Nat,
         rx'.qos = Qos(packets[last]), rx'.qos > 0 => rx'.packetId = last,
         rx'.length = packets[last].payload, rx'.buffer = <<>>
  PROVE  /\ FieldsTrue' /\ MessageTrue' /\ rxState' \in RxStates
         /\ call' \in {"none", "poll", "callback"}
<1>1. /\ rxState' = "READ_PUBLISH_PAYLOAD" /\ call' = (IF listens THEN "callback" ELSE "none")
      /\ UNCHANGED <<open, listens, wire, packets, got>>
  BY DEF HandOver, Take
<1>2. last > 0 /\ last \in Nat
  BY DEF TypeOK
<1>3. got[last] = 0
  BY <1>2 DEF GotNothing, Header
<1>4. FieldsTrue'
  BY <1>1, <1>2 DEF FieldsTrue
<1>5. ~ listens => packets[last].payload > 0
  BY DEF NoneEmpty
<1>6. packets'[last'] = packets[last] /\ got'[last'] = 0 /\ last' > 0
  BY <1>1, <1>2, <1>3
<1>7. got'[last'] = packets'[last'].payload - rx'.length
  BY <1>6
<1>8. MessageTrue'
  BY <1>1, <1>2, <1>5, <1>6, <1>7 DEF MessageTrue, HandedOver
<1>9. rxState' \in RxStates /\ call' \in {"none", "poll", "callback"}
  BY <1>1 DEF RxStates
<1>10. QED BY <1>4, <1>8, <1>9

\* The byte of the topic.
LEMMA ReadTopicKeeps ==
  ASSUME Kept, ReadTopic
  PROVE  Kept'
<1>1. /\ HasByte /\ rxState = "READ_PUBLISH_TOPIC" /\ rxState \in Header
      /\ returnCode' = returnCode /\ sent' = sent
  BY DEF ReadTopic, Taken, Take, HandOver, Header
<1>2. /\ TypeOK /\ StreamKept /\ GotNothing /\ NoneEmpty /\ InPlace /\ FieldsTrue
      /\ last \in 1..Len(packets) /\ packets[last] \in Packet /\ last \in Nat
      /\ BodyLength \in Nat /\ BodyLength = Size(packets[last]) /\ Left \in Int
      /\ Left = rx.length - Len(rx.buffer) /\ rx \in Fields /\ call = "poll"
  BY <1>1, InHeader
<1>3. /\ packets[last].type = PUBLISH /\ rx.qos = Qos(packets[last])
      /\ rx.length = BodyLength - 2 /\ rx.topicLength = 1 /\ rx.topic = 0 /\ rx.buffer = <<>>
  BY <1>1, <1>2 DEF FieldsTrue
<1>4. PICK n \in Nat : n = packets[last].payload
  BY <1>2 DEF Packet
<1>5. BodyLength = 3 + (IF rx.qos > 0 THEN 2 ELSE 0) + n
  BY <1>2, <1>3, <1>4, BodyIs
<1>6. Left = BodyLength - 2 /\ Left > 0
  <2>1. Left = (BodyLength - 2) - Len(<<>>) /\ Len(<<>>) = 0
    BY <1>2, <1>3
  <2>2. BodyLength >= 3
    BY <1>5
  <2>3. QED BY <1>2, <2>1, <2>2
<1>7. /\ rx' = [rx EXCEPT !.topic = 1, !.length = BodyLength - 3]
      /\ IF rx.qos > 0 THEN Taken /\ rxState' = "READ_PUBLISH_PACKET_ID" ELSE HandOver
  <2>1. ~ (rx.topic + 1 < rx.topicLength)
    BY <1>3
  <2>2. /\ rx' = [rx EXCEPT !.topic = rx.topic + 1, !.length = rx.length - rx.topicLength]
        /\ IF rx.qos > 0 THEN Taken /\ rxState' = "READ_PUBLISH_PACKET_ID" ELSE HandOver
    BY <2>1 DEF ReadTopic
  <2>3. rx.length - rx.topicLength = BodyLength - 3 /\ rx.topic + 1 = 1
    BY <1>2, <1>3
  <2>4. QED BY <2>2, <2>3
<1>8. rx' \in Fields /\ rx'.length = BodyLength - 3 /\ rx'.buffer = <<>> /\ rx'.qos = rx.qos
  <2>1. BodyLength - 3 \in Nat
    BY <1>4, <1>5
  <2>2. QED BY <1>2, <1>3, <1>7, <2>1 DEF Fields
<1>9. Take /\ UNCHANGED open
  BY <1>7 DEF Taken, HandOver
<1>10. last' = last /\ packets'[last'] = packets[last]
  BY <1>2, <1>6, <1>9, SamePacket
<1>11. rxState' \notin {"READ_TYPE", "READ_REMAINING_LENGTH"}
  BY <1>7 DEF HandOver
<1>12. Left' = Left - 1
  <2>1. Left' = (BodyLength - 3) - Len(<<>>) /\ Len(<<>>) = 0
    BY <1>8, <1>11 DEF Left
  <2>2. QED BY <1>2, <1>6, <2>1
<1>13. returnCode' \in Nat /\ sent' \in Seq(Nat \X Nat)
  BY <1>1, <1>2 DEF TypeOK
<1>14. CASE rx.qos > 0
  <2>1. Taken /\ rxState' = "READ_PUBLISH_PACKET_ID"
    BY <1>7, <1>14
  <2>2. FieldsTrue'
    <3>1. BodyLength - 3 = n + 2 /\ last > 0
      BY <1>2, <1>5, <1>14
    <3>2. Len(rx'.buffer) = 0
      BY <1>8
    <3>3. QED BY <1>3, <1>4, <1>8, <1>10, <1>14, <2>1, <3>1, <3>2 DEF FieldsTrue, Copied
  <2>3. MessageTrue'
    BY <1>2, <2>1, NoMessage DEF Taken
  <2>4. rxState' \in RxStates /\ call' \in {"none", "poll", "callback"}
    BY <1>2, <2>1 DEF Taken, RxStates
  <2>5. QED BY <1>1, <1>2, <1>6, <1>8, <1>9, <1>12, <1>13, <2>2, <2>3, <2>4, HeaderTaken
<1>15. CASE ~ (rx.qos > 0)
  <2>1. HandOver /\ rx'.length = n
    <3>1. BodyLength - 3 = n
      BY <1>2, <1>5, <1>15
    <3>2. QED BY <1>7, <1>8, <1>15, <3>1
  <2>2. /\ FieldsTrue' /\ MessageTrue' /\ rxState' \in RxStates
        /\ call' \in {"none", "poll", "callback"}
    BY <1>1, <1>2, <1>3, <1>4, <1>8, <1>10, <1>15, <2>1, HandedOverNow
  <2>3. QED BY <1>1, <1>2, <1>6, <1>8, <1>9, <1>12, <1>13, <2>2, HeaderTaken
<1>16. QED BY <1>14, <1>15

\* A byte of the packet id.
LEMMA ReadPacketIdKeeps ==
  ASSUME Kept, ReadPacketId
  PROVE  Kept' /\ sent' = sent
<1>1. /\ HasByte /\ rxState = "READ_PUBLISH_PACKET_ID" /\ rxState \in Header
      /\ returnCode' = returnCode
  BY DEF ReadPacketId, Header
<1>2. /\ TypeOK /\ StreamKept /\ GotNothing /\ NoneEmpty /\ InPlace /\ FieldsTrue
      /\ last \in 1..Len(packets) /\ packets[last] \in Packet /\ last \in Nat
      /\ BodyLength \in Nat /\ BodyLength = Size(packets[last]) /\ Left \in Int
      /\ Left = rx.length - Len(rx.buffer)
      /\ rx \in Fields /\ rx.buffer \in Seq(Nat) /\ rx.length \in Nat /\ call = "poll"
  BY <1>1, InHeader
<1>3. /\ packets[last].type = PUBLISH /\ rx.qos = Qos(packets[last])
      /\ rx.qos > 0 /\ rx.length = packets[last].payload + 2 /\ Copied(2)
  BY <1>1, <1>2 DEF FieldsTrue
<1>4. PICK m \in Nat : m = packets[last].payload
  BY <1>2 DEF Packet
<1>5. /\ BodyLength = 5 + m /\ rx.length = m + 2
      /\ Body(packets[last], last)[4] = 0 /\ Body(packets[last], last)[5] = last
  BY <1>2, <1>3, <1>4, BodyIs
<1>6. PICK n \in {0, 1} : n = Len(rx.buffer) /\ Left = m + 2 - n
  <2>1. PICK n \in Nat : n = Len(rx.buffer)
    BY <1>2
  <2>2. n < 2
    BY <1>3, <2>1 DEF Copied
  <2>3. n \in {0, 1}
    BY <2>2
  <2>4. Left = m + 2 - n
    BY <1>2, <1>5, <2>1
  <2>5. QED BY <2>1, <2>3, <2>4
<1>7. \A i \in 1..n : rx.buffer[i] = Body(packets[last], last)[3 + i]
  <2>1. \A i \in 1..n : BodyLength - rx.length + i = 3 + i
    BY <1>5
  <2>2. QED BY <1>3, <1>6, <2>1 DEF Copied
<1>8. Left > 0 /\ b \in Nat /\ b = Body(packets[last], last)[4 + n]
  <2>1. Left > 0 /\ Left <= BodyLength /\ BodyLength - Left + 1 = 4 + n
    <3>1. PICK l \in Int : l = Left /\ l = m + 2 - n
      BY <1>2, <1>6
    <3>2. l > 0 /\ l <= 5 + m /\ 5 + m - l + 1 = 4 + n
      <4>1. l = m + 2 - n
        BY <3>1
      <4>2. QED BY <4>1
    <3>3. QED BY <1>5, <3>1, <3>2
  <2>2. QED BY <1>1, <2>1, InHeader
<1>9. PICK s \in Seq(Nat) : /\ s = Append(rx.buffer, b) /\ Len(s) = n + 1
                            /\ \A i \in 1..n : s[i] = rx.buffer[i]
                            /\ s[n + 1] = b
  <2>1. PICK r \in Seq(Nat), x \in Nat : r = rx.buffer /\ x = b
    BY <1>2, <1>8
  <2>2. /\ Append(r, x) \in Seq(Nat) /\ Len(Append(r, x)) = Len(r) + 1
        /\ \A i \in 1..Len(r) : Append(r, x)[i] = r[i]
        /\ Append(r, x)[Len(r) + 1] = x
    OBVIOUS
  <2>3. QED BY <1>6, <2>1, <2>2
<1>10. CASE n = 0
  <2>1. /\ Taken /\ rx' = [rx EXCEPT !.buffer = s] /\ UNCHANGED <<rxState, sent>>
    BY <1>9, <1>10 DEF ReadPacketId
  <2>2. Take /\ UNCHANGED <<call, open>>
    BY <2>1 DEF Taken
  <2>3. last' = last /\ packets'[last'] = packets[last] /\ BodyLength' = BodyLength
    BY <1>2, <1>8, <2>2, SamePacket
  <2>4. rx' \in Fields /\ rx'.buffer = s /\ rx'.length = m + 2 /\ rx'.qos = rx.qos
    BY <1>2, <1>5, <1>9, <2>1 DEF Fields
  <2>5. Left' = Left - 1
    <3>1. Left' = (m + 2) - 1
      BY <1>1, <1>9, <1>10, <2>1, <2>4 DEF Left
    <3>2. Left = m + 2 - 0
      BY <1>6, <1>10
    <3>3. QED BY <3>1, <3>2
  <2>6. FieldsTrue'
    <3>1. Len(rx'.buffer) = 1 /\ rx'.buffer[1] = 0
      BY <1>5, <1>8, <1>9, <1>10, <2>4
    <3>2. \A i \in 1..Len(rx'.buffer) :
             rx'.buffer[i] = Body(packets[last], last)[BodyLength - (m + 2) + i]
      <4>1. BodyLength - (m + 2) + 1 = 4
        BY <1>5
      <4>2. \A i \in 1..Len(rx'.buffer) : i = 1
        BY <3>1
      <4>3. QED BY <1>5, <3>1, <4>1, <4>2
    <3>3. last > 0 /\ Len(rx'.buffer) < 2
      BY <1>2, <3>1
    <3>4. QED BY <1>1, <1>3, <1>4, <2>1, <2>3, <2>4, <3>2, <3>3 DEF FieldsTrue, Copied
  <2>7. MessageTrue'
    BY <1>1, <1>2, <2>1, <2>2, NoMessage
  <2>8. /\ rxState' \in RxStates /\ returnCode' \in Nat /\ sent' \in Seq(Nat \X Nat)
        /\ call' \in {"none", "poll", "callback"}
    BY <1>1, <1>2, <2>1, <2>2 DEF TypeOK
  <2>9. QED BY <1>1, <1>2, <1>8, <2>1, <2>2, <2>4, <2>5, <2>6, <2>7, <2>8, HeaderTaken
<1>11. CASE n = 1
  <2>1. Len(s) = 2 /\ s[1] = 0 /\ s[2] = last /\ Word(s) = last
    <3>1. rx.buffer[1] = Body(packets[last], last)[3 + 1]
      BY <1>7, <1>11
    <3>2. Len(s) = 2 /\ s[1] = 0 /\ s[2] = last
      BY <1>5, <1>8, <1>9, <1>11, <3>1
    <3>3. QED BY <1>2, <3>2 DEF Word
  <2>2. /\ HandOver
        /\ rx' = [rx EXCEPT !.buffer = <<>>, !.length = rx.length - 2, !.packetId = last]
        /\ sent' = IF AckAtOnce(rx.length - 2) THEN sent \o AckRxMessage(rx.qos, last) ELSE sent
    BY <1>9, <2>1 DEF ReadPacketId
  <2>3. rx.length - 2 = m
    BY <1>5
  <2>4. Take /\ UNCHANGED open
    BY <2>2 DEF HandOver
  <2>5. last' = last
    BY <1>2, <1>8, <2>4, SamePacket
  <2>6. /\ rx' \in Fields /\ rx'.buffer = <<>> /\ rx'.length = m /\ rx'.qos = rx.qos
        /\ rx'.packetId = last
    <3>1. <<>> \in Seq(Nat)
      OBVIOUS
    <3>2. rx' = [rx EXCEPT !.buffer = <<>>, !.length = m, !.packetId = last]
      BY <2>2, <2>3
    <3>3. QED BY <1>2, <3>1, <3>2 DEF Fields
  <2>7. sent' = sent
    <3>1. ~ listens => m > 0
      BY <1>2, <1>3, <1>4 DEF NoneEmpty
    <3>2. ~ AckAtOnce(m)
      BY <3>1 DEF AckAtOnce
    <3>3. QED BY <2>2, <2>3, <3>2
  <2>8. Left' = Left - 1
    <3>1. Left' = m - Len(<<>>) /\ Len(<<>>) = 0
      BY <2>2, <2>6 DEF Left, HandOver
    <3>2. Left = m + 2 - 1
      BY <1>6, <1>11
    <3>3. QED BY <3>1, <3>2
  <2>9. /\ FieldsTrue' /\ MessageTrue' /\ rxState' \in RxStates
        /\ call' \in {"none", "poll", "callback"}
    BY <1>1, <1>2, <1>3, <1>4, <2>2, <2>5, <2>6, HandedOverNow
  <2>10. returnCode' \in Nat /\ sent' \in Seq(Nat \X Nat)
    BY <1>1, <1>2, <2>7 DEF TypeOK
  <2>11. QED BY <1>1, <1>2, <1>8, <2>4, <2>6, <2>7, <2>8, <2>9, <2>10, HeaderTaken
<1>12. QED BY <1>6, <1>10, <1>11

\* A step that takes nothing from the stream.
LEMMA StreamSame ==
  ASSUME TypeOK, StreamKept, GotNothing, NoneEmpty,
         UNCHANGED <<listens, open, in, wire, packets, last, got>>,
         rxState' \in RxStates, rxState' \notin Header \/ rxState' = rxState
  PROVE  /\ StreamKept' /\ GotNothing' /\ NoneEmpty' /\ Stream' = Stream
         /\ InPlace /\ Left' = Left => InPlace'
<1>1. Stream' = Stream
  BY DEF Stream
<1>2. StreamKept'
  BY <1>1 DEF StreamKept, InOrder, IsByte, Whole, Total
<1>3. GotNothing'
  BY <1>1 DEF GotNothing, Header, RxStates
<1>4. NoneEmpty'
  BY DEF NoneEmpty
<1>5. InPlace /\ Left' = Left => InPlace'
  BY <1>1 DEF InPlace, Total
<1>6. QED BY <1>1, <1>2, <1>3, <1>4, <1>5

\* A step that changes no more than the state and the call, or the fields and the answers.
LEMMA StillPlaced ==
  ASSUME TypeOK, StreamKept, GotNothing, NoneEmpty, InPlace,
         UNCHANGED <<listens, open, in, wire, packets, last, got>>,
         rxState' \in RxStates, rxState' \notin Header \/ rxState' = rxState, Left' = Left,
         rx' \in Fields, returnCode' \in Nat, sent' \in Seq(Nat \X Nat),
         call' \in {"none", "poll", "callback"}, FieldsTrue', MessageTrue'
  PROVE  Kept'
<1>1. StreamKept' /\ GotNothing' /\ NoneEmpty' /\ InPlace'
  BY StreamSame
<1>2. TypeOK'
  BY DEF TypeOK
<1>3. QED BY <1>1, <1>2 DEF Kept, Placed

\* poll() is called; it begins afresh when the connection is gone.
LEMMA CallPollKeeps ==
  ASSUME Kept, CallPoll
  PROVE  Kept'
<1>1. /\ call = "none" /\ call' = "poll"
      /\ rxState' = (IF in = <<>> /\ ~ open THEN "READ_TYPE" ELSE rxState)
      /\ UNCHANGED <<listens, rx, returnCode, open, in, wire, packets, last, got, sent>>
  BY DEF CallPoll
<1>2. TypeOK /\ StreamKept /\ GotNothing /\ NoneEmpty
  BY DEF Kept
<1>3. rxState' \in RxStates /\ (rxState' \notin Header \/ rxState' = rxState)
  BY <1>1, <1>2 DEF TypeOK, RxStates, Header
<1>4. CASE in = <<>> /\ ~ open
  <2>1. Over'
    BY <1>1, <1>4 DEF Over
  <2>2. StreamKept' /\ GotNothing' /\ NoneEmpty'
    BY <1>1, <1>2, <1>3, StreamSame
  <2>3. TypeOK'
    BY <1>1, <1>2, <1>3 DEF TypeOK
  <2>4. QED BY <2>1, <2>2, <2>3 DEF Kept
<1>5. CASE ~ (in = <<>> /\ ~ open)
  <2>1. InPlace /\ FieldsTrue /\ MessageTrue /\ rxState' = rxState
    BY <1>1, <1>5 DEF Kept, Over, Placed
  <2>2. Left' = Left
    BY <1>1, <2>1 DEF Left, BodyLength
  <2>3. FieldsTrue'
    BY <1>1, <2>1 DEF FieldsTrue, Copied, BodyLength
  <2>4. MessageTrue'
    BY <1>1, <2>1 DEF MessageTrue, HandedOver
  <2>5. /\ rx' \in Fields /\ returnCode' \in Nat /\ sent' \in Seq(Nat \X Nat)
        /\ call' \in {"none", "poll", "callback"}
    BY <1>1, <1>2 DEF TypeOK
  <2>6. QED BY <1>1, <1>2, <1>3, <2>1, <2>2, <2>3, <2>4, <2>5, StillPlaced
<1>6. QED BY <1>4, <1>5

\* poll() returns.
LEMMA PollEndsKeeps ==
  ASSUME Kept, PollEnds
  PROVE  Kept'
<1>1. /\ call = "poll" /\ call' = "none" /\ in = <<>>
      /\ UNCHANGED <<listens, rxState, rx, returnCode, open, in, wire, packets, last, got, sent>>
  BY DEF PollEnds, rxVars
<1>2. TypeOK /\ StreamKept /\ GotNothing /\ NoneEmpty
  BY DEF Kept
<1>3. rxState' \in RxStates /\ rxState' = rxState
  BY <1>1, <1>2 DEF TypeOK
<1>4. CASE Over
  <2>1. Over'
    BY <1>1, <1>4 DEF Over
  <2>2. StreamKept' /\ GotNothing' /\ NoneEmpty'
    BY <1>1, <1>2, <1>3, StreamSame
  <2>3. TypeOK'
    BY <1>1, <1>2 DEF TypeOK
  <2>4. QED BY <2>1, <2>2, <2>3 DEF Kept
<1>5. CASE Placed
  <2>1. InPlace /\ FieldsTrue /\ MessageTrue
    BY <1>5 DEF Placed
  <2>2. Left' = Left
    BY <1>1 DEF Left, BodyLength
  <2>3. FieldsTrue'
    BY <1>1, <2>1 DEF FieldsTrue, Copied, BodyLength
  <2>4. MessageTrue'
    BY <1>1, <2>1 DEF MessageTrue, HandedOver
  <2>5. /\ rx' \in Fields /\ returnCode' \in Nat /\ sent' \in Seq(Nat \X Nat)
        /\ call' \in {"none", "poll", "callback"}
    BY <1>1, <1>2 DEF TypeOK
  <2>6. QED BY <1>1, <1>2, <1>3, <2>1, <2>2, <2>3, <2>4, <2>5, StillPlaced
<1>6. QED BY <1>4, <1>5 DEF Kept

\* An acknowledgement is a type and a number.
LEMMA Acks ==
  ASSUME NEW qos \in Nat, NEW id \in Nat, NEW s \in Seq(Nat \X Nat)
  PROVE  /\ AckRxMessage(qos, id) \in Seq(Nat \X Nat) /\ Len(AckRxMessage(qos, id)) \in {0, 1}
         /\ \A i \in 1..Len(AckRxMessage(qos, id)) :
               AckRxMessage(qos, id)[i] = <<IF qos = 1 THEN PUBACK ELSE PUBREC, id>>
               /\ qos \in {1, 2}
         /\ s \o AckRxMessage(qos, id) \in Seq(Nat \X Nat)
<1>1. CASE qos = 1
  BY <1>1 DEF AckRxMessage, PUBACK
<1>2. CASE qos = 2
  BY <1>2 DEF AckRxMessage, PUBREC
<1>3. CASE qos \notin {1, 2}
  BY <1>3 DEF AckRxMessage
<1>4. QED BY <1>1, <1>2, <1>3

\* The callback returns.
LEMMA CallbackReturnsKeeps ==
  ASSUME Kept, CallbackReturns
  PROVE  Kept'
<1>1. /\ call = "callback"
      /\ call' = (IF rxState = "READ_PUBLISH_PAYLOAD" /\ rx.length > 0 THEN "none" ELSE "poll")
      /\ rxState' = (IF rx.length = 0 THEN "READ_TYPE" ELSE rxState)
      /\ sent' = (IF rx.length = 0 /\ rx.qos > 0
                  THEN sent \o AckRxMessage(rx.qos, rx.packetId) ELSE sent)
      /\ UNCHANGED <<listens, rx, returnCode, open, in, wire, packets, last, got>>
  BY DEF CallbackReturns
<1>2. TypeOK /\ StreamKept /\ GotNothing /\ NoneEmpty /\ InPlace /\ FieldsTrue /\ MessageTrue
  BY <1>1, NotOver
<1>3. /\ rx \in Fields /\ rx.length \in Nat /\ rx.qos \in Nat /\ rx.packetId \in Nat
      /\ returnCode \in Nat /\ sent \in Seq(Nat \X Nat)
  BY <1>2 DEF TypeOK, Fields
<1>4. /\ last > 0 /\ packets[last].type = PUBLISH /\ rx.qos = Qos(packets[last])
      /\ rx.qos > 0 => rx.packetId = last
      /\ rx.length <= packets[last].payload /\ rx.buffer = <<>>
      /\ \/ rxState = "READ_PUBLISH_PAYLOAD"
         \/ rxState = "READ_TYPE" /\ rx.length = 0
  BY <1>1, <1>2 DEF MessageTrue, HandedOver
<1>5. rxState' \in {"READ_TYPE", "READ_PUBLISH_PAYLOAD"} /\ rxState' \in RxStates
      /\ rxState' \notin Header
  BY <1>1, <1>4 DEF RxStates, Header
<1>6. sent' \in Seq(Nat \X Nat)
  BY <1>1, <1>3, Acks
<1>7. Left' = Left
  <2>1. rx.length - Len(<<>>) = rx.length
    BY <1>3
  <2>2. Left = rx.length
    BY <1>3, <1>4, <2>1 DEF Left
  <2>3. Left' = IF rxState' = "READ_TYPE" THEN 0 ELSE rx.length
    BY <1>1, <1>4, <1>5, <2>1 DEF Left
  <2>4. QED BY <1>1, <1>4, <2>2, <2>3
<1>8. FieldsTrue'
  BY <1>1, <1>4, <1>5 DEF FieldsTrue
<1>9. MessageTrue'
  <2>1. CASE rx.length = 0
    BY <1>1, <2>1, NoMessage
  <2>2. CASE rx.length # 0
    <3>1. rxState = "READ_PUBLISH_PAYLOAD" /\ rxState' = rxState /\ rx.length > 0 /\ call' = "none"
      BY <1>1, <1>3, <1>4, <2>2
    <3>2. QED BY <1>1, <1>2, <1>4, <3>1 DEF MessageTrue, HandedOver
  <2>3. QED BY <2>1, <2>2
<1>10. rx' \in Fields /\ returnCode' \in Nat /\ call' \in {"none", "poll", "callback"}
  BY <1>1, <1>3
<1>11. QED BY <1>1, <1>2, <1>5, <1>6, <1>7, <1>8, <1>9, <1>10, StillPlaced

\* A byte is discarded.
LEMMA DiscardKeeps ==
  ASSUME Kept, Discard
  PROVE  Kept'
<1>1. /\ HasByte /\ in # <<>> /\ call = "poll" /\ rxState \in Unread
      /\ rx' = [rx EXCEPT !.length = Less(rx.length)]
      /\ rxState' = (IF Less(rx.length) = 0 THEN "READ_TYPE" ELSE "DISCARD_PUBLISH_PAYLOAD")
      /\ Take /\ UNCHANGED <<call, open, returnCode, sent>>
  BY DEF Discard, Taken, Take, HasByte
<1>2. TypeOK /\ StreamKept /\ GotNothing /\ NoneEmpty /\ InPlace /\ FieldsTrue /\ MessageTrue
  BY <1>1, NotOver
<1>3. /\ rx \in Fields /\ rx.length \in Nat /\ returnCode \in Nat /\ sent \in Seq(Nat \X Nat)
  BY <1>2 DEF TypeOK, Fields
<1>4. /\ last > 0 /\ packets[last].type = PUBLISH /\ rx.qos = Qos(packets[last])
      /\ rx.qos > 0 => rx.packetId = last
      /\ rx.length <= packets[last].payload /\ rx.buffer = <<>> /\ rx.length > 0
  BY <1>1, <1>2 DEF MessageTrue, HandedOver, Unread
<1>5. PICK l \in Nat : l = Less(rx.length) /\ l = rx.length - 1 /\ l <= packets[last].payload
  <2>1. PICK m \in Nat : m = packets[last].payload
    <3>1. last \in 1..Len(packets)
      BY <1>2, <1>4 DEF TypeOK
    <3>2. packets[last] \in Packet
      BY <1>2, <3>1, TotalOf
    <3>3. QED BY <3>2 DEF Packet
  <2>2. QED BY <1>3, <1>4, <2>1 DEF Less
<1>6. rx' \in Fields /\ rx'.length = l /\ rx'.buffer = <<>> /\ rx'.qos = rx.qos
      /\ rx'.packetId = rx.packetId
  BY <1>1, <1>3, <1>4, <1>5 DEF Fields
<1>7. Left = rx.length /\ Left' = l
  <2>1. rx.length - Len(<<>>) = rx.length /\ l - Len(<<>>) = l
    BY <1>3, <1>5
  <2>2. Left = rx.length
    BY <1>1, <1>4, <2>1 DEF Left, Unread
  <2>3. Left' = l
    BY <1>1, <1>5, <1>6, <2>1 DEF Left
  <2>4. QED BY <2>2, <2>3
<1>8. Left \in Int /\ Left > 0 /\ Left' = Left - 1
  BY <1>3, <1>4, <1>5, <1>7
<1>9. rxState' \in RxStates /\ rxState' \notin Header
  BY <1>1 DEF RxStates, Header
<1>10. StreamKept' /\ InPlace' /\ GotNothing' /\ in' \in Seq(Byte) /\ last' = last
  BY <1>1, <1>2, <1>8, <1>9, ByteTaken
<1>11. UNCHANGED <<listens, wire, packets, got>>
  BY <1>1 DEF Take
<1>12. TypeOK'
  BY <1>1, <1>2, <1>6, <1>9, <1>10, <1>11 DEF TypeOK
<1>13. NoneEmpty'
  BY <1>2, <1>11 DEF NoneEmpty
<1>14. FieldsTrue'
  BY <1>1, <1>4, <1>10 DEF FieldsTrue
<1>15. MessageTrue'
  <2>1. rxState' = "DISCARD_PUBLISH_PAYLOAD" => l > 0
    <3>1. rxState' = "DISCARD_PUBLISH_PAYLOAD" => l # 0
      BY <1>1, <1>5
    <3>2. l # 0 => l > 0
      OBVIOUS
    <3>3. QED BY <3>1, <3>2
  <2>2. rxState' \in {"READ_TYPE", "DISCARD_PUBLISH_PAYLOAD"} /\ call' = "poll"
    BY <1>1
  <2>3. packets'[last'] = packets[last] /\ last' = last
    BY <1>10, <1>11
  <2>4. QED BY <1>4, <1>5, <1>6, <2>1, <2>2, <2>3 DEF MessageTrue, HandedOver
<1>16. QED BY <1>10, <1>12, <1>13, <1>14, <1>15 DEF Kept, Placed

\* parseMessage() begins to discard.
LEMMA ParseMessageKeeps ==
  ASSUME Kept, ParseMessage
  PROVE  Kept'
<1>1. /\ call = "none" /\ call' = "poll" /\ (in # <<>> \/ open)
      /\ rxState = "READ_PUBLISH_PAYLOAD" /\ rxState' = "DISCARD_PUBLISH_PAYLOAD"
      /\ UNCHANGED <<listens, rx, returnCode, open, in, wire, packets, last, got, sent>>
  BY DEF ParseMessage
<1>2. TypeOK /\ StreamKept /\ GotNothing /\ NoneEmpty /\ InPlace /\ FieldsTrue /\ MessageTrue
  BY <1>1, NotOver
<1>3. Left' = Left
  BY <1>1 DEF Left
<1>4. FieldsTrue'
  BY <1>1, <1>2 DEF FieldsTrue
<1>5. MessageTrue'
  BY <1>1, <1>2 DEF MessageTrue, HandedOver
<1>6. /\ rx' \in Fields /\ returnCode' \in Nat /\ sent' \in Seq(Nat \X Nat)
      /\ call' \in {"none", "poll", "callback"}
      /\ rxState' \in RxStates /\ rxState' \notin Header
  BY <1>1, <1>2 DEF TypeOK, RxStates, Header
<1>7. QED BY <1>1, <1>2, <1>3, <1>4, <1>5, <1>6, StillPlaced

-----------------------------------------------------------------------------
(* The application, the broker and the network                             *)
-----------------------------------------------------------------------------
\* read() takes bytes of the message, and counts them.
LEMMA ReadKeeps ==
  ASSUME Kept, NEW size \in Sizes, Read(size)
  PROVE  /\ Kept' /\ last' = last /\ last \in 1..Len(packets)
         /\ packets[last].type = PUBLISH /\ rx.qos = Qos(packets[last])
         /\ rx.qos > 0 => rx.packetId = last
         /\ got[last] < packets[last].payload
         /\ got' = [got EXCEPT ![last] = got'[last]]
         /\ sent' = sent \/ (got'[last] = packets[last].payload
                               /\ sent' = sent \o AckRxMessage(rx.qos, rx.packetId))
<1> DEFINE asked == IF size > rx.length THEN rx.length ELSE size
           result == IF asked > Len(in) THEN Len(in) ELSE asked
<1>1. /\ call \in {"none", "callback"} /\ rxState = "READ_PUBLISH_PAYLOAD" /\ result > 0
      /\ in' = SubSeq(in, result + 1, Len(in)) /\ last' = in[result].of
      /\ got' = [got EXCEPT ![in[result].of] = @ + result]
      /\ rx' = [rx EXCEPT !.length = rx.length - result]
      /\ rxState' = (IF rx.length = result THEN "READ_TYPE" ELSE rxState)
      /\ sent' = (IF rx.length = result
                  THEN sent \o AckRxMessage(rx.qos, rx.packetId) ELSE sent)
      /\ UNCHANGED <<listens, returnCode, call, open, wire, packets>>
  BY DEF Read
<1>2. TypeOK
  BY DEF Kept
<1>3. /\ size \in Nat /\ Len(in) \in Nat /\ rx \in Fields /\ rx.length \in Nat /\ in \in Seq(Byte)
      /\ rx.qos \in Nat /\ rx.packetId \in Nat /\ sent \in Seq(Nat \X Nat)
      /\ got \in [1..MaxPackets -> Nat]
  <2>1. size \in Nat
    BY ReceiverAssumption
  <2>2. rx \in Fields /\ in \in Seq(Byte) /\ sent \in Seq(Nat \X Nat)
        /\ got \in [1..MaxPackets -> Nat]
    BY <1>2 DEF TypeOK
  <2>3. rx.length \in Nat /\ rx.qos \in Nat /\ rx.packetId \in Nat
    BY <2>2 DEF Fields
  <2>4. Len(in) \in Nat
    BY <2>2
  <2>5. QED BY <2>1, <2>2, <2>3, <2>4
<1>4. PICK n \in 1..Len(in) : n = result /\ n <= rx.length
  <2>1. result \in Nat /\ result <= Len(in) /\ result <= rx.length
    BY <1>3
  <2>2. result \in 1..Len(in)
    BY <1>1, <1>3, <2>1
  <2>3. QED BY <2>1, <2>2
<1> HIDE DEF result
<1>5. in # <<>>
  BY <1>3, <1>4
<1>6. StreamKept /\ GotNothing /\ NoneEmpty /\ InPlace /\ FieldsTrue /\ MessageTrue
  BY <1>5, NotOver
<1>7. /\ last > 0 /\ packets[last].type = PUBLISH /\ rx.qos = Qos(packets[last])
      /\ rx.qos > 0 => rx.packetId = last
      /\ rx.length <= packets[last].payload /\ rx.buffer = <<>>
      /\ got[last] = packets[last].payload - rx.length
      /\ call = "callback" => listens
  BY <1>1, <1>6 DEF MessageTrue, HandedOver
<1>8. last \in 1..Len(packets) /\ last \in 1..MaxPackets
  BY <1>2, <1>7, ReceiverAssumption DEF TypeOK
<1>9. PICK m \in Nat : m = packets[last].payload
  <2>1. packets[last] \in Packet
    BY <1>2, <1>8, TotalOf
  <2>2. QED BY <2>1 DEF Packet
<1>10. PICK l \in Nat : l = rx.length - n /\ l + n = rx.length /\ l + n <= m /\ n > 0
  <2>1. n \in Nat /\ n > 0
    BY <1>3
  <2>2. rx.length - n \in Nat
    BY <1>3, <1>4, <2>1
  <2>3. QED BY <1>3, <1>7, <1>9, <2>1, <2>2
<1>11. rx' \in Fields /\ rx'.length = l /\ rx'.buffer = <<>> /\ rx'.qos = rx.qos
       /\ rx'.packetId = rx.packetId
  BY <1>1, <1>3, <1>4, <1>7, <1>10 DEF Fields
<1>12. rxState' = IF l = 0 THEN "READ_TYPE" ELSE "READ_PUBLISH_PAYLOAD"
  <2>1. rx.length = n <=> l = 0
    BY <1>10
  <2>2. QED BY <1>1, <1>4, <2>1
<1>13. Left = l + n /\ Left' = l
  <2>1. rx.length - Len(<<>>) = rx.length /\ l - Len(<<>>) = l
    BY <1>3
  <2>2. Left = rx.length
    BY <1>1, <1>7, <2>1 DEF Left
  <2>3. Left' = l
    BY <1>11, <1>12, <2>1 DEF Left
  <2>4. QED BY <1>10, <2>2, <2>3
<1>14. /\ StreamKept' /\ InPlace' /\ in' \in Seq(Byte) /\ last' = last
       /\ \A i \in 1..Len(Stream') : i + n \in 1..Len(Stream) /\ Stream'[i] = Stream[i + n]
  <2>1. Left \in Int /\ Left > 0 /\ n <= Left /\ Left' = Left - n
    BY <1>10, <1>13
  <2>2. QED BY <1>1, <1>2, <1>4, <1>6, <2>1, Advance
<1>15. got' = [got EXCEPT ![last] = got[last] + n] /\ got[last] = m - (l + n)
       /\ got[last] + n = m - l
  <2>1. in[result].of = last
    BY <1>1, <1>14
  <2>2. got[last] = m - (l + n)
    BY <1>7, <1>9, <1>10
  <2>3. QED BY <1>1, <1>4, <1>10, <2>1, <2>2
<1>16. got' \in [1..MaxPackets -> Nat] /\ got'[last] = m - l
       /\ \A k \in 1..MaxPackets : k # last => got'[k] = got[k]
  <2>1. m - l \in Nat
    BY <1>10
  <2>2. QED BY <1>3, <1>8, <1>15, <2>1
<1>17. sent' \in Seq(Nat \X Nat)
  BY <1>1, <1>3, Acks
<1>18. TypeOK'
  BY <1>1, <1>2, <1>11, <1>12, <1>14, <1>16, <1>17 DEF TypeOK, RxStates
<1>19. FieldsTrue'
  BY <1>7, <1>12, <1>14 DEF FieldsTrue
<1>20. MessageTrue'
  <2>1. packets'[last'] = packets[last] /\ last' > 0 /\ call' = call /\ listens' = listens
    BY <1>1, <1>7, <1>14
  <2>2. l <= packets[last].payload
    BY <1>9, <1>10
  <2>3. got'[last'] = packets[last].payload - l
    BY <1>9, <1>14, <1>16
  <2>4. CASE l = 0
    <3>1. got'[last'] = packets[last].payload
      BY <1>9, <2>3, <2>4
    <3>2. QED BY <1>1, <1>7, <1>11, <1>12, <1>14, <2>1, <2>2, <2>4, <3>1 DEF MessageTrue, HandedOver
  <2>5. CASE l # 0
    <3>1. l > 0
      BY <2>5
    <3>2. QED BY <1>1, <1>7, <1>11, <1>12, <1>14, <2>1, <2>2, <2>3, <2>5, <3>1
              DEF MessageTrue, HandedOver
  <2>6. QED BY <2>4, <2>5
<1>21. GotNothing'
  <2>1. ASSUME NEW k \in 1..MaxPackets, k > Len(packets') PROVE got'[k] = 0
    <3>1. k # last /\ k > Len(packets)
      BY <1>1, <1>8, <2>1
    <3>2. QED BY <1>6, <1>16, <3>1 DEF GotNothing
  <2>2. ASSUME NEW i \in 1..Len(Stream'), Stream'[i].of > last' PROVE got'[Stream'[i].of] = 0
    <3>1. PICK k \in Nat : k = Stream'[i].of /\ k > last
      <4>1. Stream'[i].of \in Nat
        BY <1>2, <1>14, NumbersType
      <4>2. QED BY <1>14, <2>2, <4>1
    <3>2. i + n \in 1..Len(Stream) /\ Stream[i + n].of = k
      BY <1>14, <3>1
    <3>3. got[k] = 0 /\ k \in 1..Len(packets)
      <4>1. IsByte(Stream[i + n])
        BY <1>6, <3>2 DEF StreamKept, InOrder
      <4>2. QED BY <1>6, <3>1, <3>2, <4>1 DEF GotNothing, IsByte
    <3>4. k \in 1..MaxPackets /\ k # last
      <4>1. Len(packets) <= MaxPackets /\ Len(packets) \in Nat /\ MaxPackets \in Nat
        BY <1>2, ReceiverAssumption DEF TypeOK
      <4>2. last \in Nat
        BY <1>8
      <4>3. QED BY <3>1, <3>3, <4>1, <4>2
    <3>5. QED BY <1>16, <3>1, <3>3, <3>4
  <2>3. QED BY <1>12, <2>1, <2>2 DEF GotNothing
<1>22. NoneEmpty'
  BY <1>1, <1>6 DEF NoneEmpty
<1>23. Kept'
  BY <1>14, <1>18, <1>19, <1>20, <1>21, <1>22 DEF Kept, Placed
<1>24. got[last] < packets[last].payload
  BY <1>9, <1>10, <1>15
<1>25. sent' = sent \/ (got'[last] = packets[last].payload
                          /\ sent' = sent \o AckRxMessage(rx.qos, rx.packetId))
  <2>1. CASE rx.length = result
    <3>1. l = 0 /\ m - l = m
      BY <1>4, <1>9, <1>10, <2>1
    <3>2. QED BY <1>1, <1>9, <1>16, <2>1, <3>1
  <2>2. CASE rx.length # result
    BY <1>1, <2>2
  <2>3. QED BY <2>1, <2>2
<1>26. QED BY <1>7, <1>8, <1>14, <1>15, <1>16, <1>23, <1>24, <1>25

\* Two packets' worth of a stream, one behind the other.
LEMMA Extended ==
  ASSUME TypeOK, NEW p \in Packet, NEW s \in Seq(Byte), NEW t \in Seq(Byte), NEW L \in Nat,
         L = Len(packets), packets' = Append(packets, p), InOrder(s), Whole(s),
         t = s \o Bytes(p, L + 1)
  PROVE  InOrder(t)' /\ Whole(t)'
<1>1. PICK B \in Seq(Byte) : B = Bytes(p, L + 1)
  BY BytesAre
<1>2. PICK N \in Nat : N = PacketSize(p) /\ N > 1 /\ Len(B) = N
  BY <1>1, BytesAre
<1>3. \A i \in 1..N : B[i] = [val |-> Val(p, L + 1, i), of |-> L + 1, part |-> i]
  BY <1>1, <1>2, BytesAre
<1>4. PICK M \in Nat : M = Len(s)
  OBVIOUS
<1>5. /\ Len(t) = M + N
      /\ \A i \in 1..M : t[i] = s[i]
      /\ \A i \in 1..N : t[M + i] = B[i]
  <2>1. t = s \o B
    BY <1>1
  <2>2. /\ Len(s \o B) = Len(s) + Len(B)
        /\ \A i \in 1..Len(s) : (s \o B)[i] = s[i]
        /\ \A i \in 1..Len(B) : (s \o B)[Len(s) + i] = B[i]
    BY <1>1, Concat
  <2>3. QED BY <1>2, <1>4, <2>1, <2>2
<1>6. /\ packets'[L + 1] = p /\ Len(packets') = L + 1
      /\ \A k \in 1..L : packets'[k] = packets[k] /\ k \in 1..Len(packets')
      /\ L + 1 \in 1..Len(packets')
  BY DEF TypeOK
<1>7. (\A k \in 1..L : PacketSize(packets'[k]) = Total(k)) /\ PacketSize(packets'[L + 1]) = N
  BY <1>2, <1>6 DEF Total
<1>8. ASSUME NEW i \in 1..Len(t)
      PROVE  i \in 1..M \/ \E u \in 1..N : i = M + u
  <2>1. i <= M => i \in 1..M
    BY <1>5
  <2>2. i > M => i - M \in 1..N /\ i = M + (i - M)
    BY <1>5
  <2>3. QED BY <1>5, <2>1, <2>2
<1>9. ASSUME NEW i \in 1..M
      PROVE  /\ IsByte(s[i]) /\ s[i].of \in 1..L /\ s[i].part \in Nat
             /\ PacketSize(packets'[s[i].of]) = Total(s[i].of) /\ Total(s[i].of) \in Nat
             /\ i + Total(s[i].of) - s[i].part <= M
  <2>1. IsByte(s[i])
    BY <1>4 DEF InOrder
  <2>2. s[i].of \in 1..L /\ s[i].part \in Nat /\ Total(s[i].of) \in Nat
    BY <2>1, BytePlace
  <2>3. i + Total(s[i].of) - s[i].part <= M
    BY <1>4 DEF Whole
  <2>4. QED BY <1>7, <2>1, <2>2, <2>3
<1>10. ASSUME NEW u \in 1..N
       PROVE  /\ t[M + u].of = L + 1 /\ t[M + u].part = u
              /\ t[M + u].val = Val(p, L + 1, u)
              /\ PacketSize(packets'[t[M + u].of]) = N
  <2>1. PICK v : v = Val(p, L + 1, u)
    OBVIOUS
  <2>2. PICK k : k = L + 1
    OBVIOUS
  <2>3. PICK x : x = t[M + u]
    OBVIOUS
  <2>4. x = [val |-> v, of |-> k, part |-> u]
    BY <1>3, <1>5, <2>1, <2>2, <2>3
  <2>5. x.of = k /\ x.part = u /\ x.val = v
    BY <2>4
  <2>6. /\ t[M + u].of = L + 1 /\ t[M + u].part = u
        /\ t[M + u].val = Val(p, L + 1, u)
    BY <2>1, <2>2, <2>3, <2>5
  <2>7. QED BY <1>7, <2>6
<1>11. ASSUME NEW i \in 1..Len(t) PROVE IsByte(t[i])'
  <2>1. CASE i \in 1..M
    <3>1. t[i] = s[i]
      BY <1>5, <2>1
    <3>2. PICK k \in 1..L : k = s[i].of
      BY <1>9, <2>1
    <3>3. s[i].part \in 1..Total(k) /\ s[i].val = Val(packets[k], k, s[i].part)
      BY <1>9, <2>1, <3>2 DEF IsByte
    <3>4. QED BY <1>6, <1>7, <3>1, <3>2, <3>3 DEF IsByte, Total
  <2>2. CASE \E u \in 1..N : i = M + u
    <3>1. PICK u \in 1..N : i = M + u
      BY <2>2
    <3>2. t[i].of = L + 1 /\ t[i].part = u /\ t[i].val = Val(p, L + 1, u)
      BY <1>10, <3>1
    <3>3. QED BY <1>6, <1>7, <3>1, <3>2 DEF IsByte, Total
  <2>3. QED BY <1>8, <2>1, <2>2
<1>12. ASSUME NEW i \in 1..Len(t), NEW j \in i..Len(t)
       PROVE  IF j <= i + PacketSize(packets'[t[i].of]) - t[i].part
              THEN t[j].of = t[i].of /\ t[j].part = t[i].part + (j - i)
              ELSE t[j].of > t[i].of
  <2>0. i \in Nat /\ j \in Nat /\ i <= j /\ j \in 1..Len(t)
    BY <1>5
  <2>1. CASE i \in 1..M
    <3>1. PICK c \in Nat, d \in Nat, k \in 1..L :
             /\ c = Total(s[i].of) /\ d = s[i].part /\ k = s[i].of /\ i + c - d <= M
             /\ PacketSize(packets'[k]) = c
      BY <1>9, <2>1
    <3>2. t[i] = s[i] /\ t[i].of = k /\ t[i].part = d
      BY <1>5, <2>1, <3>1
    <3>3. CASE j \in 1..M
      <4>1. j \in i..Len(s) /\ i \in 1..Len(s)
        BY <1>4, <2>0, <2>1, <3>3
      <4>2. IF j <= i + c - d THEN s[j].of = k /\ s[j].part = d + (j - i) ELSE s[j].of > k
        BY <3>1, <4>1 DEF InOrder
      <4>3. t[j] = s[j]
        BY <1>5, <3>3
      <4>4. QED BY <3>1, <3>2, <4>2, <4>3
    <3>4. CASE \E u \in 1..N : j = M + u
      <4>0. PICK u \in 1..N : j = M + u
        BY <3>4
      <4>1. t[j].of = L + 1
        BY <1>10, <4>0
      <4>2. ~ (j <= i + c - d)
        <5>1. i + c - d \in Int
          BY <2>0
        <5>2. PICK a \in Int : a = i + c - d /\ a <= M
          BY <3>1, <5>1
        <5>3. j > M
          BY <4>0
        <5>4. QED BY <2>0, <5>2, <5>3
      <4>3. t[j].of > k
        <5>1. L + 1 > k
          OBVIOUS
        <5>2. QED BY <4>1, <5>1
      <4>4. QED BY <3>1, <3>2, <4>2, <4>3
    <3>5. QED BY <1>8, <2>0, <3>3, <3>4
  <2>2. CASE \E u \in 1..N : i = M + u
    <3>1. PICK u \in 1..N : i = M + u
      BY <2>2
    <3>2. PICK v \in 1..N : j = M + v /\ u <= v
      <4>1. j - M \in 1..N /\ j = M + (j - M) /\ u <= j - M
        BY <1>5, <2>0, <3>1
      <4>2. QED BY <4>1
    <3>3. /\ t[i].of = L + 1 /\ t[i].part = u /\ PacketSize(packets'[t[i].of]) = N
          /\ t[j].of = L + 1 /\ t[j].part = v
      BY <1>10, <3>1, <3>2
    <3>4. j <= i + N - u /\ v = u + (j - i)
      BY <3>1, <3>2
    <3>5. QED BY <3>3, <3>4
  <2>3. QED BY <1>8, <2>1, <2>2
<1>13. ASSUME NEW i \in 1..Len(t) - 1, t[i].part = PacketSize(packets'[t[i].of])
       PROVE  t[i + 1].part = 1
  <2>1. i \in 1..Len(t)
    BY <1>5
  <2>2. CASE i \in 1..M
    <3>1. s[i].part = Total(s[i].of)
      BY <1>5, <1>9, <1>13, <2>2
    <3>2. CASE i < M
      <4>1. i \in 1..Len(s) - 1 /\ i + 1 \in 1..M
        BY <1>4, <2>2, <3>2
      <4>2. s[i + 1].part = 1
        BY <3>1, <4>1 DEF InOrder
      <4>3. QED BY <1>5, <4>1, <4>2
    <3>3. CASE i = M
      <4>1. 1 \in 1..N
        BY <1>2
      <4>2. QED BY <1>10, <3>3, <4>1
    <3>4. QED BY <2>2, <3>2, <3>3
  <2>3. CASE \E u \in 1..N : i = M + u
    <3>1. PICK u \in 1..N : i = M + u
      BY <2>3
    <3>2. u = N
      BY <1>10, <1>13, <3>1
    <3>3. QED BY <1>5, <3>1, <3>2
  <2>4. QED BY <1>8, <2>1, <2>2, <2>3
<1>14. ASSUME NEW i \in 1..Len(t)
       PROVE  i + PacketSize(packets'[t[i].of]) - t[i].part <= Len(t)
  <2>1. CASE i \in 1..M
    <3>1. t[i] = s[i] /\ i + Total(s[i].of) - s[i].part <= M
      BY <1>5, <1>9, <2>1
    <3>2. PICK c \in Nat : c = Total(s[i].of) /\ c = PacketSize(packets'[t[i].of])
      BY <1>9, <2>1, <3>1
    <3>3. PICK d \in Nat : d = s[i].part
      BY <1>9, <2>1
    <3>4. i + c - d <= M
      BY <3>1, <3>2, <3>3
    <3>5. i \in Nat /\ M \in Nat /\ N \in Nat
      BY <1>2, <1>4, <2>1
    <3>6. i + c - d <= M + N
      BY <3>4, <3>5
    <3>7. QED BY <1>5, <3>1, <3>2, <3>3, <3>6
  <2>2. CASE \E u \in 1..N : i = M + u
    <3>1. PICK u \in 1..N : i = M + u
      BY <2>2
    <3>2. t[i].part = u /\ PacketSize(packets'[t[i].of]) = N
      BY <1>10, <3>1
    <3>3. M + u + N - u <= M + N
      BY <1>2, <1>4, <3>1
    <3>4. QED BY <1>5, <3>1, <3>2, <3>3
  <2>3. QED BY <1>8, <2>1, <2>2
<1>15. InOrder(t)'
  BY <1>11, <1>12, <1>13 DEF InOrder, Total
<1>16. Whole(t)'
  BY <1>14 DEF Whole, Total
<1>17. QED BY <1>15, <1>16

\* Three sequences one behind the other.
LEMMA Regrouped ==
  ASSUME NEW S, NEW x \in Seq(S), NEW y \in Seq(S), NEW z \in Seq(S)
  PROVE  (x \o y) \o z = x \o (y \o z)
OBVIOUS

\* The broker sends a packet.
LEMMA SendKeeps ==
  ASSUME Kept, NEW p \in Packet, Send(p)
  PROVE  Kept'
<1>1. /\ open /\ Len(packets) < MaxPackets /\ (p.type = PUBLISH /\ ~ listens => p.payload > 0)
      /\ packets' = Append(packets, p) /\ wire' = wire \o Bytes(p, Len(packets) + 1)
      /\ UNCHANGED <<listens, rxState, rx, returnCode, call, open, in, last, got, sent>>
  BY DEF Send, rxVars
<1>2. TypeOK /\ StreamKept /\ GotNothing /\ NoneEmpty /\ InPlace /\ FieldsTrue /\ MessageTrue
  BY <1>1, NotOver
<1>3. PICK L \in Nat : L = Len(packets) /\ L < MaxPackets /\ last \in 0..L
  BY <1>1, <1>2 DEF TypeOK
<1>4. MaxPackets \in Nat /\ L + 1 \in 1..MaxPackets /\ packets \in Seq(Packet)
  BY <1>2, <1>3, ReceiverAssumption DEF TypeOK
<1>5. /\ packets' \in Seq(Packet) /\ Len(packets') = L + 1 /\ packets'[L + 1] = p
      /\ \A k \in 1..L : packets'[k] = packets[k]
  BY <1>1, <1>3, <1>4
<1>6. PICK B \in Seq(Byte) : /\ B = Bytes(p, L + 1) /\ Len(B) > 1 /\ 1 \in 1..Len(B)
                             /\ B[1].of = L + 1 /\ B[1].part = 1
                             /\ \A i \in 1..Len(B) : B[i].of = L + 1
  <2>1. PICK B \in Seq(Byte) : B = Bytes(p, L + 1)
    BY BytesAre
  <2>2. PICK N \in Nat : N = PacketSize(p) /\ N > 1 /\ Len(B) = N
    BY <2>1, BytesAre
  <2>3. ASSUME NEW i \in 1..N PROVE B[i].of = L + 1 /\ B[i].part = i
    <3>1. PICK v : v = Val(p, L + 1, i)
      OBVIOUS
    <3>2. B[i] = [val |-> v, of |-> L + 1, part |-> i]
      BY <2>1, <2>2, <3>1, BytesAre
    <3>3. QED BY <3>2
  <2>4. 1 \in 1..N
    BY <2>2
  <2>5. QED BY <2>1, <2>2, <2>3, <2>4
<1>7. PICK s \in Seq(Byte) : s = Stream
  BY <1>2, StreamIs
<1>8. wire' \in Seq(Byte) /\ in' \in Seq(Byte) /\ wire' = wire \o B
  <2>1. wire \in Seq(Byte) /\ in \in Seq(Byte)
    BY <1>2 DEF TypeOK
  <2>2. QED BY <1>1, <1>3, <1>6, <2>1, Concat
<1>9. PICK t \in Seq(Byte) : t = Stream' /\ t = s \o B
  <2>1. Stream' = in \o (wire \o B)
    BY <1>1, <1>8 DEF Stream
  <2>2. in \in Seq(Byte) /\ wire \in Seq(Byte)
    BY <1>2 DEF TypeOK
  <2>3. (in \o wire) \o B = in \o (wire \o B)
    <3>1. PICK x \in Seq(Byte), y \in Seq(Byte) : x = in /\ y = wire
      BY <2>2
    <3>2. (x \o y) \o B = x \o (y \o B)
      BY Regrouped, SMTT(40)
    <3>3. QED BY <3>1, <3>2
  <2>4. Stream' = s \o B
    BY <1>7, <2>1, <2>3 DEF Stream
  <2>5. s \o B \in Seq(Byte)
    BY <1>6, <1>7, Concat
  <2>6. QED BY <2>4, <2>5
<1>10. /\ Len(t) = Len(s) + Len(B) /\ Len(s) \in Nat /\ Len(B) \in Nat
       /\ \A i \in 1..Len(s) : t[i] = s[i]
       /\ \A i \in 1..Len(B) : t[Len(s) + i] = B[i]
  <2>1. /\ Len(s \o B) = Len(s) + Len(B) /\ Len(s) \in Nat /\ Len(B) \in Nat
        /\ \A i \in 1..Len(s) : (s \o B)[i] = s[i]
        /\ \A i \in 1..Len(B) : (s \o B)[Len(s) + i] = B[i]
    BY <1>6, <1>7, Concat
  <2>2. QED BY <1>9, <2>1
<1>11. ASSUME NEW i \in 1..Len(t)
       PROVE  (i \in 1..Len(s) /\ t[i] = s[i]) \/ t[i].of = L + 1
  <2>1. i <= Len(s) => i \in 1..Len(s)
    BY <1>10
  <2>2. i > Len(s) => i - Len(s) \in 1..Len(B) /\ i = Len(s) + (i - Len(s))
    BY <1>10
  <2>3. ASSUME i > Len(s) PROVE t[i].of = L + 1
    <3>1. PICK u \in 1..Len(B) : i = Len(s) + u
      BY <2>2, <2>3
    <3>2. t[i] = B[u]
      BY <1>10, <3>1
    <3>3. QED BY <1>6, <3>2
  <2>4. i <= Len(s) \/ i > Len(s)
    BY <1>10
  <2>5. QED BY <1>10, <2>1, <2>3, <2>4
<1>12. StreamKept'
  <2>1. InOrder(s) /\ Whole(s)
    BY <1>1, <1>2, <1>7 DEF StreamKept
  <2>2. InOrder(t)' /\ Whole(t)'
    BY <1>1, <1>2, <1>3, <1>6, <1>7, <1>9, <2>1, Extended
  <2>3. InOrder(Stream)' /\ Whole(Stream)'
    BY <1>9, <2>2 DEF InOrder, IsByte, Whole, Total
  <2>4. QED BY <1>1, <2>3 DEF StreamKept
<1>13. t # <<>> /\ 1 \in 1..Len(t)
       /\ IF s = <<>> THEN t[1].of = L + 1 /\ t[1].part = 1 ELSE t[1] = s[1]
  <2>1. 1 \in 1..Len(t) /\ t # <<>>
    BY <1>6, <1>10
  <2>2. CASE s = <<>>
    <3>1. Len(s) = 0
      BY <2>2
    <3>2. t[0 + 1] = B[1]
      BY <1>6, <1>10, <3>1
    <3>3. QED BY <1>6, <2>1, <2>2, <3>2
  <2>3. CASE s # <<>>
    <3>1. 1 \in 1..Len(s)
      BY <1>7, <1>10, <2>3
    <3>2. QED BY <1>10, <2>1, <2>3, <3>1
  <2>4. QED BY <2>2, <2>3
<1>14. last > 0 => packets'[last] = packets[last] /\ Total(last)' = Total(last)
  <2>1. last > 0 => last \in 1..L
    BY <1>3
  <2>2. QED BY <1>1, <1>5, <2>1 DEF Total
<1>15. Left' = Left
  <2>1. CASE rxState = "READ_REMAINING_LENGTH"
    <3>1. last > 0
      BY <1>2, <2>1 DEF FieldsTrue
    <3>2. BodyLength' = BodyLength
      BY <1>1, <1>14, <3>1 DEF BodyLength
    <3>3. QED BY <1>1, <2>1, <3>2 DEF Left
  <2>2. CASE rxState # "READ_REMAINING_LENGTH"
    BY <1>1, <2>2 DEF Left
  <2>3. QED BY <2>1, <2>2
<1>16. InPlace'
  <2>1. CASE Left > 0
    <3>1. last > 0 /\ s # <<>> /\ s[1].of = last /\ s[1].part = Total(last) - Left + 1
      BY <1>1, <1>2, <1>7, <2>1 DEF InPlace
    <3>2. t[1].of = last' /\ t[1].part = Total(last)' - Left' + 1
      BY <1>1, <1>13, <1>14, <1>15, <3>1
    <3>3. QED BY <1>1, <1>9, <1>13, <1>15, <2>1, <3>1, <3>2 DEF InPlace, Total
  <2>2. CASE ~ (Left > 0)
    <3>1. s # <<>> => s[1].part = 1 /\ s[1].of > last
      BY <1>2, <1>7, <2>2 DEF InPlace
    <3>2. L + 1 > last
      BY <1>3
    <3>3. t[1].part = 1 /\ t[1].of > last'
      BY <1>1, <1>13, <3>1, <3>2
    <3>4. QED BY <1>9, <1>15, <2>2, <3>3 DEF InPlace
  <2>3. QED BY <2>1, <2>2
<1>17. FieldsTrue'
  <2>1. CASE rxState = "READ_TYPE"
    BY <1>1, <2>1 DEF FieldsTrue
  <2>2. CASE rxState # "READ_TYPE"
    <3>1. last > 0
      BY <1>2, <2>2 DEF FieldsTrue
    <3>2. packets'[last'] = packets[last] /\ BodyLength' = BodyLength
      BY <1>1, <1>14, <3>1 DEF BodyLength
    <3>3. QED BY <1>1, <1>2, <3>2 DEF FieldsTrue, Copied
  <2>3. QED BY <2>1, <2>2
<1>18. MessageTrue'
  <2>1. CASE HandedOver
    <3>1. last > 0
      BY <1>2, <2>1 DEF MessageTrue
    <3>2. packets'[last'] = packets[last]
      BY <1>1, <1>14, <3>1
    <3>3. QED BY <1>1, <1>2, <3>2 DEF MessageTrue, HandedOver
  <2>2. CASE ~ HandedOver
    BY <1>1, <2>2, NoMessage DEF HandedOver
  <2>3. QED BY <2>1, <2>2
<1>19. GotNothing'
  <2>1. \A k \in 1..MaxPackets : k > L => got[k] = 0
    BY <1>2, <1>3 DEF GotNothing
  <2>2. got[L + 1] = 0
    BY <1>3, <1>4, <2>1
  <2>3. \A k \in 1..MaxPackets : k > L + 1 => got[k] = 0
    BY <1>3, <2>1
  <2>4. ASSUME NEW i \in 1..Len(t), t[i].of > last PROVE got[t[i].of] = 0
    BY <1>2, <1>7, <1>11, <2>2, <2>4 DEF GotNothing
  <2>5. QED BY <1>1, <1>2, <1>5, <1>9, <2>3, <2>4 DEF GotNothing
<1>20. NoneEmpty'
  <2>1. ASSUME ~ listens, NEW k \in 1..L + 1, packets'[k].type = PUBLISH
        PROVE  packets'[k].payload > 0
    <3>1. k \in 1..L \/ k = L + 1
      BY <1>3
    <3>2. QED BY <1>1, <1>2, <1>3, <1>5, <2>1, <3>1 DEF NoneEmpty
  <2>2. QED BY <1>1, <1>5, <2>1 DEF NoneEmpty
<1>21. TypeOK'
  <2>1. L + 1 <= MaxPackets /\ last' \in 0..L + 1
    BY <1>1, <1>3, <1>4
  <2>2. QED BY <1>1, <1>2, <1>5, <1>8, <2>1 DEF TypeOK
<1>22. QED BY <1>12, <1>16, <1>17, <1>18, <1>19, <1>20, <1>21 DEF Kept, Placed

\* The stream stays what it is while its bytes arrive.
LEMMA ArriveKeeps ==
  ASSUME Kept, Arrive
  PROVE  Kept'
<1>1. PICK n \in 1..Len(wire) :
         /\ in' = in \o SubSeq(wire, 1, n) /\ wire' = SubSeq(wire, n + 1, Len(wire))
  BY DEF Arrive
<1>2. open /\ UNCHANGED <<listens, rxState, rx, returnCode, call, open, packets, last, got, sent>>
  BY DEF Arrive, rxVars
<1>3. TypeOK /\ StreamKept /\ GotNothing /\ NoneEmpty /\ InPlace /\ FieldsTrue /\ MessageTrue
  BY <1>2, NotOver
<1>4. in \in Seq(Byte) /\ wire \in Seq(Byte)
  BY <1>3 DEF TypeOK
<1>5. PICK w \in Seq(Byte) : w = wire'
  BY <1>1, <1>4, Dropped
<1>6. PICK v \in Seq(Byte) : v = SubSeq(wire, 1, n)
  <2>1. 1 \in Int /\ n \in Int /\ \A i \in 1..n : wire[i] \in Byte
    BY <1>4
  <2>2. SubSeq(wire, 1, n) \in Seq(Byte)
    BY <2>1, SubSeqProperties
  <2>3. QED BY <2>2
<1>7. v \o w = wire
  <2>1. 1 \in 1..Len(wire) + 1 /\ n \in 1 - 1..Len(wire) /\ Len(wire) \in n..Len(wire)
    BY <1>4
  <2>2. SubSeq(wire, 1, n) \o SubSeq(wire, n + 1, Len(wire)) = SubSeq(wire, 1, Len(wire))
    BY <1>4, <2>1, ConcatAdjacentSubSeq
  <2>3. SubSeq(wire, 1, Len(wire)) = wire
    BY <1>4, SubSeqFull
  <2>4. QED BY <1>1, <1>5, <1>6, <2>2, <2>3
<1>8. Stream' = Stream
  <2>1. Stream' = (in \o v) \o w
    BY <1>1, <1>5, <1>6 DEF Stream
  <2>2. PICK x \in Seq(Byte) : x = in
    BY <1>4
  <2>3. (x \o v) \o w = x \o (v \o w)
    BY Regrouped
  <2>4. QED BY <1>7, <2>1, <2>2, <2>3 DEF Stream
<1>9. in' \in Seq(Byte)
  BY <1>1, <1>4, <1>6, Concat
<1>10. StreamKept'
  BY <1>2, <1>3, <1>8 DEF StreamKept, InOrder, IsByte, Whole, Total
<1>11. Left' = Left
  BY <1>2 DEF Left, BodyLength
<1>12. InPlace'
  BY <1>2, <1>3, <1>8, <1>11 DEF InPlace, Total
<1>13. FieldsTrue'
  BY <1>2, <1>3 DEF FieldsTrue, Copied, BodyLength
<1>14. MessageTrue'
  BY <1>2, <1>3 DEF MessageTrue, HandedOver
<1>15. GotNothing'
  BY <1>2, <1>3, <1>8 DEF GotNothing
<1>16. NoneEmpty'
  BY <1>2, <1>3 DEF NoneEmpty
<1>17. TypeOK'
  BY <1>2, <1>3, <1>5, <1>9 DEF TypeOK
<1>18. QED BY <1>10, <1>12, <1>13, <1>14, <1>15, <1>16, <1>17 DEF Kept, Placed

\* What was under way is gone when the peer closes; what has arrived is not.
LEMMA PeerClosesKeeps ==
  ASSUME Kept, PeerCloses
  PROVE  Kept'
<1>1. /\ open /\ open' = FALSE /\ wire' = <<>>
      /\ UNCHANGED <<listens, rxState, rx, returnCode, call, in, packets, last, got, sent>>
  BY DEF PeerCloses, rxVars
<1>2. TypeOK /\ StreamKept /\ GotNothing /\ NoneEmpty /\ InPlace /\ FieldsTrue /\ MessageTrue
  BY <1>1, NotOver
<1>3. in \in Seq(Byte) /\ wire \in Seq(Byte) /\ <<>> \in Seq(Byte)
  BY <1>2 DEF TypeOK
<1>4. PICK s \in Seq(Byte) : s = Stream
  BY <1>2, StreamIs
<1>5. PICK t \in Seq(Byte) : t = in /\ t = Stream'
  <2>1. in \o <<>> = in
    BY <1>3, ConcatEmptySeq
  <2>2. Stream' = in
    BY <1>1, <2>1 DEF Stream
  <2>3. QED BY <1>3, <2>2
<1>6. /\ Len(t) <= Len(s) /\ Len(t) \in Nat
      /\ \A i \in 1..Len(t) : t[i] = s[i] /\ i \in 1..Len(s)
  <2>1. /\ Len(s) = Len(in) + Len(wire) /\ Len(in) \in Nat /\ Len(wire) \in Nat
        /\ \A i \in 1..Len(in) : s[i] = in[i] /\ i \in 1..Len(s)
    BY <1>2, <1>4, StreamIs
  <2>2. QED BY <1>5, <2>1
<1>7. StreamKept'
  <2>1. InOrder(s)
    BY <1>2, <1>4 DEF StreamKept
  <2>2. InOrder(t)
    BY <1>6, <2>1, Prefix
  <2>3. InOrder(Stream)'
    BY <1>1, <1>5, <2>2 DEF InOrder, IsByte, Total
  <2>4. QED BY <1>1, <2>3 DEF StreamKept
<1>8. Left' = Left
  BY <1>1 DEF Left, BodyLength
<1>9. t # <<>> => s # <<>> /\ t[1] = s[1]
  <2>1. t # <<>> => 1 \in 1..Len(t)
    BY <1>6
  <2>2. 1 \in 1..Len(t) => s # <<>> /\ t[1] = s[1]
    BY <1>4, <1>6
  <2>3. QED BY <2>1, <2>2
<1>10. InPlace'
  <2>1. Left > 0 => last > 0 /\ (s # <<>> => s[1].of = last /\ s[1].part = Total(last) - Left + 1)
    BY <1>2, <1>4 DEF InPlace
  <2>2. ~ (Left > 0) => (s # <<>> => s[1].part = 1 /\ s[1].of > last)
    BY <1>2, <1>4 DEF InPlace
  <2>3. Left > 0 => last > 0 /\ (t # <<>> => t[1].of = last /\ t[1].part = Total(last) - Left + 1)
    BY <1>9, <2>1
  <2>4. ~ (Left > 0) => (t # <<>> => t[1].part = 1 /\ t[1].of > last)
    BY <1>9, <2>2
  <2>5. Total(last)' = Total(last)
    BY <1>1 DEF Total
  <2>6. QED BY <1>1, <1>5, <1>8, <2>3, <2>4, <2>5 DEF InPlace, Total
<1>11. FieldsTrue'
  BY <1>1, <1>2 DEF FieldsTrue, Copied, BodyLength
<1>12. MessageTrue'
  BY <1>1, <1>2 DEF MessageTrue, HandedOver
<1>13. GotNothing'
  <2>1. \A i \in 1..Len(t) : t[i].of > last => got[t[i].of] = 0
    BY <1>2, <1>4, <1>6 DEF GotNothing
  <2>2. QED BY <1>1, <1>2, <1>5, <2>1 DEF GotNothing
<1>14. NoneEmpty'
  BY <1>1, <1>2 DEF NoneEmpty
<1>15. TypeOK'
  BY <1>1, <1>2, <1>3 DEF TypeOK
<1>16. QED BY <1>7, <1>10, <1>11, <1>12, <1>13, <1>14, <1>15 DEF Kept, Placed

\* A new connection begins with nothing on it.
LEMMA ConnectKeeps ==
  ASSUME Kept, Connect
  PROVE  Kept'
<1>1. /\ call = "none" /\ rxState' = "READ_TYPE" /\ open' = TRUE /\ in' = <<>> /\ wire' = <<>>
      /\ last' = 0 /\ UNCHANGED <<listens, rx, returnCode, call, packets, got, sent>>
  BY DEF Connect, Restart
<1>2. TypeOK /\ GotNothing /\ NoneEmpty
  BY DEF Kept
<1>3. Stream' = <<>> /\ Len(Stream') = 0 /\ StreamKept'
  BY <1>1, NoStream
<1>4. InPlace'
  <2>1. Left' = 0
    BY <1>1 DEF Left
  <2>2. QED BY <1>3, <2>1 DEF InPlace
<1>5. FieldsTrue'
  BY <1>1 DEF FieldsTrue
<1>6. MessageTrue'
  BY <1>1, NoMessage
<1>7. GotNothing'
  BY <1>1, <1>2, <1>3 DEF GotNothing
<1>8. NoneEmpty'
  BY <1>1, <1>2 DEF NoneEmpty
<1>9. TypeOK'
  <2>1. Len(packets) \in Nat /\ <<>> \in Seq(Byte)
    BY <1>2 DEF TypeOK
  <2>2. 0 \in 0..Len(packets)
    BY <2>1
  <2>3. QED BY <1>1, <1>2, <2>1, <2>2 DEF TypeOK, RxStates
<1>10. QED BY <1>3, <1>4, <1>5, <1>6, <1>7, <1>8, <1>9 DEF Kept, Placed

-----------------------------------------------------------------------------
(* The invariant                                                           *)
-----------------------------------------------------------------------------
\* Nothing has been sent in the beginning.
LEMMA KeptAtFirst == Init => Kept
<1> SUFFICES ASSUME Init PROVE Kept
  OBVIOUS
<1>1. /\ listens \in BOOLEAN /\ rxState = "READ_TYPE" /\ returnCode = NoCode /\ call = "none"
      /\ open = TRUE
      /\ rx = [type |-> 0, flags |-> 0, length |-> 0, multiplier |-> 1, buffer |-> <<>>,
               topicLength |-> 0, topic |-> 0, qos |-> 0, packetId |-> 0]
      /\ in = <<>> /\ wire = <<>> /\ packets = <<>> /\ last = 0 /\ sent = <<>>
      /\ got = [k \in 1 .. MaxPackets |-> 0]
  BY DEF Init
<1>2. Stream = <<>> /\ Len(Stream) = 0 /\ Len(packets) = 0
  BY <1>1 DEF Stream
<1>3. TypeOK
  <2>1. rx \in Fields
    BY <1>1 DEF Fields
  <2>2. in \in Seq(Byte) /\ wire \in Seq(Byte) /\ packets \in Seq(Packet)
        /\ sent \in Seq(Nat \X Nat) /\ got \in [1..MaxPackets -> Nat] /\ returnCode \in Nat
    BY <1>1 DEF NoCode
  <2>3. Len(packets) <= MaxPackets /\ last \in 0..Len(packets)
    BY <1>1, <1>2, ReceiverAssumption
  <2>4. open \in BOOLEAN
    BY <1>1
  <2>5. QED BY <1>1, <2>1, <2>2, <2>3, <2>4 DEF TypeOK, RxStates
<1>4. StreamKept
  BY <1>1, <1>2 DEF StreamKept, InOrder, Whole
<1>5. InPlace
  <2>1. Left = 0
    BY <1>1 DEF Left
  <2>2. QED BY <1>2, <2>1 DEF InPlace
<1>6. FieldsTrue
  BY <1>1 DEF FieldsTrue
<1>7. MessageTrue
  BY <1>1 DEF MessageTrue, HandedOver
<1>8. GotNothing
  BY <1>1, <1>2 DEF GotNothing
<1>9. NoneEmpty
  BY <1>2 DEF NoneEmpty
<1>10. QED BY <1>3, <1>4, <1>5, <1>6, <1>7, <1>8, <1>9 DEF Kept, Placed

\* A step that changes nothing keeps it.
LEMMA KeptAtRest ==
  ASSUME Kept, UNCHANGED vars
  PROVE  Kept'
<1>1. UNCHANGED <<listens, rxState, rx, returnCode, call, open, in, wire, packets, last, got, sent>>
  BY DEF vars
<1>2. Stream' = Stream /\ Left' = Left
  BY <1>1 DEF Stream, Left, BodyLength
<1>3. TypeOK'
  BY <1>1 DEF Kept, TypeOK
<1>4. StreamKept'
  BY <1>1, <1>2 DEF Kept, StreamKept, InOrder, IsByte, Whole, Total
<1>5. GotNothing' /\ NoneEmpty'
  BY <1>1, <1>2 DEF Kept, GotNothing, NoneEmpty
<1>6. Over => Over'
  BY <1>1 DEF Over
<1>7. ASSUME Placed PROVE Placed'
  <2>1. InPlace'
    BY <1>1, <1>2, <1>7 DEF Placed, InPlace, Total
  <2>2. FieldsTrue'
    BY <1>1, <1>7 DEF Placed, FieldsTrue, Copied, BodyLength
  <2>3. MessageTrue'
    BY <1>1, <1>7 DEF Placed, MessageTrue, HandedOver
  <2>4. QED BY <2>1, <2>2, <2>3 DEF Placed
<1>8. QED BY <1>3, <1>4, <1>5, <1>6, <1>7 DEF Kept

\* Every step keeps it.
LEMMA KeptByNext ==
  ASSUME Kept, [Next]_vars
  PROVE  Kept'
<1>1. ASSUME NEW p \in Kinds \cup {Ack(PUBREL, 2, k) : k \in 1..MaxPackets}, Send(p)
      PROVE  Kept'
  <2>1. p \in Packet
    BY KnownPackets
  <2>2. QED BY <1>1, <2>1, SendKeeps
<1>2. ASSUME NEW size \in Sizes, Read(size) PROVE Kept'
  BY <1>2, ReadKeeps
<1>3. ASSUME Poll PROVE Kept'
  BY <1>3, CallPollKeeps, PollEndsKeeps, ReadTypeKeeps, ReadRemainingLengthKeeps,
     ReadVariableHeaderKeeps, ReadTopicLengthKeeps, ReadTopicKeeps, ReadPacketIdKeeps,
     CallbackReturnsKeeps, DiscardKeeps DEF Poll
<1>4. QED BY <1>1, <1>2, <1>3, ArriveKeeps, PeerClosesKeeps, ParseMessageKeeps, ConnectKeeps,
             KeptAtRest DEF Next

\* The receiver is aligned, and the length it promises is what is still to come.
LEMMA KeptSays ==
  ASSUME Kept
  PROVE  Aligned /\ LengthIsTrue
<1>1. TypeOK
  BY DEF Kept
<1>2. Aligned
  <2>1. SUFFICES ASSUME rxState = "READ_TYPE", in # <<>> PROVE Head(in).part = 1
    BY DEF Aligned
  <2>2. StreamKept /\ InPlace
    BY <2>1, NotOver
  <2>3. Left = 0
    BY <2>1 DEF Left
  <2>4. QED BY <1>1, <2>1, <2>2, <2>3, NextByte
<1>3. LengthIsTrue
  <2>1. SUFFICES ASSUME open, rxState \in {"READ_PUBLISH_PAYLOAD", "DISCARD_PUBLISH_PAYLOAD"},
                        last # 0
                 PROVE  rx.length = RestOf(last)
    BY DEF LengthIsTrue
  <2>2. StreamKept /\ InPlace /\ MessageTrue
    BY <2>1, NotOver
  <2>3. rx.buffer = <<>>
    BY <2>1, <2>2 DEF MessageTrue, HandedOver
  <2>4. PICK l \in Nat : l = rx.length /\ Left = l
    <3>1. rx.length \in Nat /\ rx.length - Len(<<>>) = rx.length
      BY <1>1 DEF TypeOK, Fields
    <3>2. Left = rx.length
      BY <2>1, <2>3, <3>1 DEF Left
    <3>3. QED BY <3>1, <3>2
  <2>5. PICK s \in Seq(Byte) : s = Stream
    BY <1>1, StreamIs
  <2>6. InOrder(s) /\ Whole(s)
    BY <2>1, <2>2, <2>5 DEF StreamKept
  <2>7. Len(s) \in Nat /\ DOMAIN s = 1..Len(s) /\ last \in Nat
    BY <1>1, <2>5 DEF TypeOK
  <2>8. ASSUME NEW j \in 1..Len(s)
        PROVE  /\ s[j].of \in Nat /\ s[1].of \in Nat
               /\ IF j <= 1 + Total(s[1].of) - s[1].part THEN s[j].of = s[1].of
                                                       ELSE s[j].of > s[1].of
    <3>1. 1 \in 1..Len(s) /\ j \in 1..Len(s)
      BY <2>7
    <3>2. s[j].of \in Nat /\ s[1].of \in Nat
      BY <1>1, <2>5, <3>1, NumbersType
    <3>3. QED BY <2>6, <3>1, <3>2 DEF InOrder
  <2>9. {i \in DOMAIN s : s[i].of = last} = 1..l
    <3>1. CASE l = 0
      <4>1. ASSUME NEW j \in 1..Len(s) PROVE s[j].of # last
        <5>1. s # <<>>
          BY <2>7
        <5>2. s[1].of > last
          BY <2>2, <2>4, <2>5, <3>1, <5>1 DEF InPlace
        <5>3. s[j].of >= s[1].of /\ s[j].of \in Nat /\ s[1].of \in Nat
          BY <2>8
        <5>4. QED BY <2>7, <5>2, <5>3
      <4>2. 1..l = {}
        BY <3>1
      <4>3. QED BY <2>7, <4>1, <4>2
    <3>2. CASE l > 0
      <4>1. s # <<>> /\ s[1].of = last /\ s[1].part = Total(last) - l + 1 /\ last > 0
        BY <2>1, <2>2, <2>4, <2>5, <3>2 DEF InPlace
      <4>2. last \in 1..Len(packets)
        BY <1>1, <4>1 DEF TypeOK
      <4>3. Total(last) \in Nat
        BY <1>1, <4>2, TotalOf
      <4>4. 1 + Total(s[1].of) - s[1].part = l
        BY <4>1, <4>3
      <4>5. 1 \in 1..Len(s)
        BY <2>7, <4>1
      <4>6. l <= Len(s)
        BY <2>6, <4>4, <4>5 DEF Whole
      <4>7. ASSUME NEW j \in 1..Len(s) PROVE s[j].of = last <=> j <= l
        <5>1. IF j <= l THEN s[j].of = last ELSE s[j].of > last
          BY <2>8, <4>1, <4>4
        <5>2. s[j].of \in Nat
          BY <2>8
        <5>3. QED BY <2>7, <5>1, <5>2
      <4>8. \A j \in 1..l : j \in 1..Len(s) /\ j <= l
        BY <2>7, <4>6
      <4>9. QED BY <2>7, <4>7, <4>8
    <3>3. QED BY <2>4, <3>1, <3>2
  <2>10. Cardinality(1..l) = l
    <3>1. Cardinality(1..l) = IF 1 > l THEN 0 ELSE l - 1 + 1
      BY FS_Interval
    <3>2. QED BY <3>1
  <2>11. QED BY <2>4, <2>5, <2>9, <2>10 DEF RestOf
<1>4. QED BY <1>2, <1>3

\* The receiver keeps its framing and promises of each message what is still
\* to come of it, however the bytes arrive and whatever the application reads,
\* leaves, closes or opens again (poll(), parseMessage(), read(), connect()).
THEOREM ReceiverHolds == Spec => []ReceiverInv
<1>1. Init => Kept
  BY KeptAtFirst
<1>2. Kept /\ [Next]_vars => Kept'
  BY KeptByNext
<1>3. Kept => ReceiverInv
  BY KeptSays DEF Kept, ReceiverInv
<1>4. QED BY <1>1, <1>2, <1>3, PTL DEF Spec

-----------------------------------------------------------------------------
(* The acknowledgements                                                    *)
-----------------------------------------------------------------------------
\* What one acknowledgement says is true of its message.
Earned(e) ==
    e[1] \in {PUBACK, PUBREC} =>
        /\ e[2] \in 1..Len(packets) /\ packets[e[2]].type = PUBLISH
        /\ got[e[2]] = packets[e[2]].payload
        /\ Qos(packets[e[2]]) = (IF e[1] = PUBACK THEN 1 ELSE 2)

LEMMA AcksAre ==
  ASSUME TypeOK
  PROVE  AcksRead <=> \A i \in 1..Len(sent) : Earned(sent[i])
<1>1. DOMAIN sent = 1..Len(sent) /\ DOMAIN packets = 1..Len(packets)
  BY DEF TypeOK
<1>2. QED BY <1>1 DEF AcksRead, Earned

\* An answer behind the others.
LEMMA Answered ==
  ASSUME NEW s \in Seq(Nat \X Nat), NEW x \in Seq(Nat \X Nat), Len(x) \in {0, 1}
  PROVE  /\ DOMAIN (s \o x) = 1..Len(s \o x) /\ Len(s) \in Nat
         /\ \A i \in 1..Len(s \o x) :
               \/ i \in 1..Len(s) /\ (s \o x)[i] = s[i]
               \/ i = Len(s) + 1 /\ 1 \in 1..Len(x) /\ (s \o x)[i] = x[1]
<1>1. PICK t \in Seq(Nat \X Nat) : t = s \o x
  BY Concat
<1>2. PICK l \in Nat, c \in {0, 1} : l = Len(s) /\ c = Len(x) /\ Len(t) = l + c
  <2>1. Len(t) = Len(s) + Len(x) /\ Len(s) \in Nat
    BY <1>1, Concat
  <2>2. QED BY <2>1
<1>3. (\A i \in 1..l : t[i] = s[i]) /\ (\A i \in 1..c : t[l + i] = x[i])
  BY <1>1, <1>2, Concat
<1>4. ASSUME NEW i \in 1..l + c
      PROVE  (i \in 1..l /\ t[i] = s[i]) \/ (i = l + 1 /\ 1 \in 1..c /\ t[i] = x[1])
  <2>1. CASE i <= l
    BY <1>3, <2>1
  <2>2. CASE i > l
    <3>1. i = l + 1 /\ 1 \in 1..c
      BY <2>2
    <3>2. QED BY <1>3, <3>1
  <2>3. QED BY <2>1, <2>2
<1>5. DOMAIN t = 1..Len(t)
  OBVIOUS
<1>6. QED BY <1>1, <1>2, <1>4, <1>5

\* A step without an answer that is none of read()'s.
LEMMA NoAnswer ==
  ASSUME TypeOK, AcksRead, UNCHANGED <<sent, got>>,
         packets' = packets \/ \E p \in Packet : packets' = Append(packets, p)
  PROVE  AcksRead' /\ (AckedOnce => AckedOnce')
<1>1. DOMAIN packets = 1..Len(packets) /\ DOMAIN sent = 1..Len(sent)
  BY DEF TypeOK
<1>2. \A k \in DOMAIN packets : k \in DOMAIN packets' /\ packets'[k] = packets[k]
  <2>1. packets \in Seq(Packet)
    BY DEF TypeOK
  <2>2. ASSUME NEW p \in Packet, packets' = Append(packets, p), NEW k \in DOMAIN packets
        PROVE  k \in DOMAIN packets' /\ packets'[k] = packets[k]
    BY <2>1, <2>2
  <2>3. QED BY <2>2
<1>3. AcksRead'
  BY <1>2 DEF AcksRead
<1>4. AckedOnce => AckedOnce'
  BY DEF AckedOnce
<1>5. QED BY <1>3, <1>4

\* The rest of poll() reads no payload and acknowledges no message.
LEMMA PubcompEarned ==
  ASSUME Kept, AcksRead, ReadVariableHeader
  PROVE  AcksRead' /\ (AckedOnce => AckedOnce')
<1>1. /\ UNCHANGED <<packets, got>>
      /\ sent' = sent \/ \E n : sent' = Append(sent, <<PUBCOMP, n>>)
  BY DEF ReadVariableHeader, Taken, Take, Response
<1>2. TypeOK /\ TypeOK'
  BY ReadVariableHeaderKeeps DEF Kept
<1>3. CASE sent' = sent
  BY <1>1, <1>2, <1>3, NoAnswer
<1>4. CASE \E n : sent' = Append(sent, <<PUBCOMP, n>>)
  <2>1. PICK n : sent' = Append(sent, <<PUBCOMP, n>>)
    BY <1>4
  <2>2. sent \in Seq(Nat \X Nat) /\ sent' \in Seq(Nat \X Nat)
    BY <1>2 DEF TypeOK
  <2>3. /\ DOMAIN sent = 1..Len(sent) /\ DOMAIN sent' = 1..Len(sent) + 1 /\ Len(sent) \in Nat
        /\ sent'[Len(sent) + 1] = <<PUBCOMP, n>>
        /\ \A i \in 1..Len(sent) : sent'[i] = sent[i]
    BY <2>1, <2>2
  <2>4. \A i \in 1..Len(sent) + 1 : i \in 1..Len(sent) \/ i = Len(sent) + 1
    BY <2>3
  <2>5. ASSUME NEW i \in DOMAIN sent', sent'[i][1] \in {PUBACK, PUBREC}
        PROVE  i \in DOMAIN sent /\ sent'[i] = sent[i]
    <3>1. i # Len(sent) + 1
      BY <2>3, <2>5 DEF PUBACK, PUBREC, PUBCOMP
    <3>2. QED BY <2>3, <2>4, <3>1
  <2>6. AcksRead'
    BY <1>1, <2>5 DEF AcksRead
  <2>7. ASSUME AckedOnce, NEW i \in DOMAIN sent', NEW j \in DOMAIN sent', i # j,
               sent'[i][1] \in {PUBACK, PUBREC}
        PROVE  sent'[i] # sent'[j]
    <3>1. i \in DOMAIN sent /\ sent'[i] = sent[i]
      BY <2>5, <2>7
    <3>2. CASE sent'[j][1] \in {PUBACK, PUBREC}
      <4>1. j \in DOMAIN sent /\ sent'[j] = sent[j]
        BY <2>5, <3>2
      <4>2. QED BY <2>7, <3>1, <4>1 DEF AckedOnce
    <3>3. CASE sent'[j][1] \notin {PUBACK, PUBREC}
      BY <2>7, <3>3
    <3>4. QED BY <3>2, <3>3
  <2>8. QED BY <2>6, <2>7 DEF AckedOnce
<1>5. QED BY <1>1, <1>3, <1>4

\* Behind the callback.
LEMMA CallbackEarned ==
  ASSUME Kept, AcksRead, CallbackReturns
  PROVE  AcksRead' /\ listens' = listens /\ listens
<1>1. /\ call = "callback" /\ UNCHANGED <<listens, packets, got>>
      /\ sent' = (IF rx.length = 0 /\ rx.qos > 0
                  THEN sent \o AckRxMessage(rx.qos, rx.packetId) ELSE sent)
  BY DEF CallbackReturns
<1>2. TypeOK /\ MessageTrue
  BY <1>1, NotOver
<1>3. TypeOK'
  BY CallbackReturnsKeeps DEF Kept
<1>4. listens
  BY <1>1, <1>2 DEF MessageTrue
<1>5. CASE sent' = sent
  BY <1>1, <1>2, <1>4, <1>5, NoAnswer
<1>6. CASE rx.length = 0 /\ rx.qos > 0 /\ sent' = sent \o AckRxMessage(rx.qos, rx.packetId)
  <2>1. last > 0 /\ packets[last].type = PUBLISH /\ rx.qos = Qos(packets[last])
        /\ rx.packetId = last
    BY <1>1, <1>2, <1>6 DEF MessageTrue, HandedOver
  <2>2. last \in 1..Len(packets) /\ sent \in Seq(Nat \X Nat) /\ last \in Nat /\ rx.qos \in Nat
    BY <1>2, <2>1 DEF TypeOK, Fields
  <2>3. PICK m \in Nat : m = packets[last].payload
    <3>1. packets[last] \in Packet
      BY <1>2, <2>2, TotalOf
    <3>2. QED BY <3>1 DEF Packet
  <2>4. got[last] = m
    <3>1. m - 0 = m
      BY <2>3
    <3>2. QED BY <1>1, <1>2, <1>6, <2>3, <3>1 DEF MessageTrue
  <2>5. PICK q \in Nat : q = rx.qos
    BY <2>2
  <2>6. PICK x \in Seq(Nat \X Nat) : x = AckRxMessage(q, last)
    BY <2>2, Acks
  <2>7. /\ Len(x) \in {0, 1} /\ sent' = sent \o x
        /\ 1 \in 1..Len(x) => x[1] = <<IF q = 1 THEN PUBACK ELSE PUBREC, last>> /\ q \in {1, 2}
    <3>1. Len(x) \in {0, 1}
      BY <2>2, <2>5, <2>6, Acks
    <3>2. 1 \in 1..Len(x) => x[1] = <<IF q = 1 THEN PUBACK ELSE PUBREC, last>> /\ q \in {1, 2}
      <4>1. \A i \in 1..Len(AckRxMessage(q, last)) :
               /\ AckRxMessage(q, last)[i] = <<IF q = 1 THEN PUBACK ELSE PUBREC, last>>
               /\ q \in {1, 2}
        BY <2>2, <2>5, Acks
      <4>2. QED BY <2>6, <4>1
    <3>3. QED BY <1>6, <2>1, <2>5, <2>6, <3>1, <3>2
  <2>8. ASSUME NEW i \in 1..Len(sent') PROVE Earned(sent'[i])
    <3>1. (i \in 1..Len(sent) /\ sent'[i] = sent[i])
            \/ (1 \in 1..Len(x) /\ sent'[i] = x[1])
      BY <2>2, <2>7, Answered
    <3>2. CASE i \in 1..Len(sent) /\ sent'[i] = sent[i]
      BY <1>2, <3>2, AcksAre
    <3>3. CASE 1 \in 1..Len(x) /\ sent'[i] = x[1]
      <4>1. sent'[i] = <<IF q = 1 THEN PUBACK ELSE PUBREC, last>> /\ q \in {1, 2}
        BY <2>7, <3>3
      <4>2. QED BY <2>1, <2>2, <2>3, <2>4, <2>5, <4>1 DEF Earned, PUBACK, PUBREC
    <3>4. QED BY <3>1, <3>2, <3>3
  <2>9. AcksRead'
    <3>1. DOMAIN sent' = 1..Len(sent') /\ DOMAIN packets' = 1..Len(packets')
      BY <1>3 DEF TypeOK
    <3>2. QED BY <1>1, <2>8, <3>1 DEF Earned, AcksRead
  <2>10. QED BY <1>1, <1>4, <2>9
<1>7. QED BY <1>1, <1>5, <1>6

\* read() acknowledges the message when it has the last byte of it, and only then.
LEMMA ReadEarned ==
  ASSUME Kept, AcksRead, NEW size \in Sizes, Read(size)
  PROVE  AcksRead' /\ (AckedOnce => AckedOnce') /\ listens' = listens
<1>1. /\ last \in 1..Len(packets) /\ packets[last].type = PUBLISH
      /\ rx.qos = Qos(packets[last]) /\ (rx.qos > 0 => rx.packetId = last)
      /\ got[last] < packets[last].payload
      /\ got' = [got EXCEPT ![last] = got'[last]]
      /\ sent' = sent \/ (got'[last] = packets[last].payload
                            /\ sent' = sent \o AckRxMessage(rx.qos, rx.packetId))
  BY ReadKeeps
<1>2. listens' = listens /\ packets' = packets
  BY DEF Read
<1>3. TypeOK /\ TypeOK'
  BY ReadKeeps DEF Kept
<1>4. /\ sent \in Seq(Nat \X Nat) /\ sent' \in Seq(Nat \X Nat)
      /\ got \in [1..MaxPackets -> Nat] /\ Len(packets) <= MaxPackets
      /\ Len(packets) \in Nat /\ MaxPackets \in Nat
      /\ rx.qos \in Nat /\ rx.packetId \in Nat /\ last \in Nat
  <2>1. sent \in Seq(Nat \X Nat) /\ sent' \in Seq(Nat \X Nat)
    BY <1>3 DEF TypeOK
  <2>2. got \in [1..MaxPackets -> Nat] /\ Len(packets) <= MaxPackets /\ Len(packets) \in Nat
    BY <1>3 DEF TypeOK
  <2>3. rx.qos \in Nat /\ rx.packetId \in Nat
    BY <1>3 DEF TypeOK, Fields
  <2>4. QED BY <1>1, <2>1, <2>2, <2>3, ReceiverAssumption
<1>5. \A k \in 1..Len(packets) : k # last => got'[k] = got[k]
  BY <1>1, <1>4
<1>6. got[last] # packets[last].payload
  <2>1. PICK m \in Nat, n \in Nat : m = packets[last].payload /\ n = got[last]
    <3>1. packets[last] \in Packet
      BY <1>1, <1>3, TotalOf
    <3>2. last \in 1..MaxPackets
      BY <1>1, <1>4
    <3>3. packets[last].payload \in Nat /\ got[last] \in Nat
      BY <1>4, <3>1, <3>2 DEF Packet
    <3>4. QED BY <3>3
  <2>2. n < m
    BY <1>1, <2>1
  <2>3. n # m
    BY <2>2
  <2>4. QED BY <2>1, <2>3
<1> DEFINE Now(e) == e[1] \in {PUBACK, PUBREC} =>
                       /\ e[2] \in 1..Len(packets) /\ packets[e[2]].type = PUBLISH
                       /\ got'[e[2]] = packets[e[2]].payload
                       /\ Qos(packets[e[2]]) = (IF e[1] = PUBACK THEN 1 ELSE 2)
\* What has been acknowledged was another message, and is still as it was.
<1>7. ASSUME NEW i \in 1..Len(sent)
      PROVE  (sent[i][1] \in {PUBACK, PUBREC} => sent[i][2] # last) /\ Now(sent[i])
  <2>1. Earned(sent[i])
    BY <1>3, AcksAre
  <2>2. sent[i][1] \in {PUBACK, PUBREC} => sent[i][2] # last /\ sent[i][2] \in 1..Len(packets)
    BY <1>6, <2>1 DEF Earned
  <2>3. sent[i][1] \in {PUBACK, PUBREC} => got'[sent[i][2]] = got[sent[i][2]]
    BY <1>5, <2>2
  <2>4. QED BY <2>1, <2>2, <2>3 DEF Earned
<1>8. ASSUME \A i \in 1..Len(sent') : Now(sent'[i]) PROVE AcksRead'
  <2>1. DOMAIN sent' = 1..Len(sent') /\ DOMAIN packets' = 1..Len(packets)
    BY <1>2, <1>3 DEF TypeOK
  <2>2. QED BY <1>2, <1>8, <2>1 DEF AcksRead
<1>9. CASE sent' = sent
  <2>1. AcksRead'
    BY <1>7, <1>8, <1>9
  <2>2. QED BY <1>2, <1>9, <2>1 DEF AckedOnce
<1>10. CASE /\ got'[last] = packets[last].payload
            /\ sent' = sent \o AckRxMessage(rx.qos, rx.packetId)
  <2>1. PICK q \in Nat, d \in Nat : q = rx.qos /\ d = rx.packetId /\ (q > 0 => d = last)
    BY <1>1, <1>4
  <2>2. PICK x \in Seq(Nat \X Nat) : x = AckRxMessage(q, d) /\ Len(x) \in {0, 1}
    BY <1>4, <2>1, Acks
  <2>3. ASSUME 1 \in 1..Len(x)
        PROVE  x[1] = <<IF q = 1 THEN PUBACK ELSE PUBREC, last>> /\ q \in {1, 2}
    <3>1. \A i \in 1..Len(AckRxMessage(q, d)) :
             /\ AckRxMessage(q, d)[i] = <<IF q = 1 THEN PUBACK ELSE PUBREC, d>>
             /\ q \in {1, 2}
      BY <1>4, <2>1, Acks
    <3>2. x[1] = <<IF q = 1 THEN PUBACK ELSE PUBREC, d>> /\ q \in {1, 2}
      BY <2>2, <2>3, <3>1
    <3>3. QED BY <2>1, <3>2
  <2>4. sent' = sent \o x
    BY <1>10, <2>1, <2>2
  <2>5. ASSUME NEW i \in 1..Len(sent')
        PROVE  \/ i \in 1..Len(sent) /\ sent'[i] = sent[i]
               \/ i = Len(sent) + 1 /\ 1 \in 1..Len(x) /\ sent'[i] = x[1]
    BY <1>4, <2>2, <2>4, Answered
  <2>6. ASSUME NEW i \in 1..Len(sent') PROVE Now(sent'[i])
    <3>1. CASE i \in 1..Len(sent) /\ sent'[i] = sent[i]
      BY <1>7, <3>1
    <3>2. CASE 1 \in 1..Len(x) /\ sent'[i] = x[1]
      <4>1. sent'[i] = <<IF q = 1 THEN PUBACK ELSE PUBREC, last>> /\ q \in {1, 2}
        BY <2>3, <3>2
      <4>2. Qos(packets[last]) = IF sent'[i][1] = PUBACK THEN 1 ELSE 2
        BY <1>1, <2>1, <4>1 DEF PUBACK, PUBREC
      <4>3. QED BY <1>1, <1>10, <4>1, <4>2
    <3>3. QED BY <2>5, <3>1, <3>2
  <2>7. AcksRead'
    BY <1>8, <2>6
  <2>8. ASSUME AckedOnce, NEW i \in 1..Len(sent'), NEW j \in 1..Len(sent'), i # j,
               sent'[i][1] \in {PUBACK, PUBREC}
        PROVE  sent'[i] # sent'[j]
    <3>1. DOMAIN sent = 1..Len(sent)
      BY <1>4
    <3>2. \A h \in 1..Len(sent') :
             \/ h \in 1..Len(sent) /\ sent'[h] = sent[h]
             \/ h = Len(sent) + 1 /\ sent'[h][2] = last
      BY <2>3, <2>5
    <3>3. CASE i \in 1..Len(sent) /\ sent'[i] = sent[i]
      <4>1. sent'[i][2] # last
        BY <1>7, <2>8, <3>3
      <4>2. CASE j \in 1..Len(sent) /\ sent'[j] = sent[j]
        BY <2>8, <3>1, <3>3, <4>2 DEF AckedOnce
      <4>3. CASE sent'[j][2] = last
        BY <4>1, <4>3
      <4>4. QED BY <3>2, <4>2, <4>3
    <3>4. CASE i = Len(sent) + 1 /\ sent'[i][2] = last
      <4>1. j \in 1..Len(sent) /\ sent'[j] = sent[j]
        BY <2>8, <3>2, <3>4
      <4>2. sent'[j][1] \in {PUBACK, PUBREC} => sent'[j][2] # last
        BY <1>7, <4>1
      <4>3. QED BY <2>8, <3>4, <4>2
    <3>5. QED BY <3>2, <3>3, <3>4
  <2>9. DOMAIN sent' = 1..Len(sent')
    BY <1>4
  <2>10. QED BY <1>2, <2>7, <2>8, <2>9 DEF AckedOnce
<1>11. QED BY <1>1, <1>9, <1>10

\* Every step keeps what the acknowledgements say true.
LEMMA EarnedByNext ==
  ASSUME Kept, AckIsEarned, [Next]_vars
  PROVE  AckIsEarned'
<1>1. TypeOK /\ AcksRead /\ (~ listens => AckedOnce)
  BY DEF Kept, AckIsEarned
<1>2. ASSUME UNCHANGED <<listens, sent, got>>,
             packets' = packets \/ \E p \in Packet : packets' = Append(packets, p)
      PROVE  AckIsEarned'
  <2>1. AcksRead' /\ (AckedOnce => AckedOnce')
    BY <1>1, <1>2, NoAnswer
  <2>2. QED BY <1>1, <1>2, <2>1 DEF AckIsEarned
<1>3. ASSUME NEW p \in Kinds \cup {Ack(PUBREL, 2, k) : k \in 1..MaxPackets}, Send(p)
      PROVE  AckIsEarned'
  <2>1. p \in Packet
    BY KnownPackets
  <2>2. UNCHANGED <<listens, sent, got>> /\ packets' = Append(packets, p)
    BY <1>3 DEF Send, rxVars
  <2>3. QED BY <1>2, <2>1, <2>2
<1>4. CASE Arrive \/ PeerCloses \/ ParseMessage \/ Connect
  <2>1. UNCHANGED <<listens, sent, got, packets>>
    BY <1>4 DEF Arrive, PeerCloses, ParseMessage, Connect, rxVars
  <2>2. QED BY <1>2, <2>1
<1>5. ASSUME NEW size \in Sizes, Read(size) PROVE AckIsEarned'
  <2>1. AcksRead' /\ (AckedOnce => AckedOnce') /\ listens' = listens
    BY <1>1, <1>5, ReadEarned
  <2>2. QED BY <1>1, <2>1 DEF AckIsEarned
<1>6. CASE CallPoll \/ PollEnds \/ ReadType \/ Discard
  <2>1. UNCHANGED <<listens, sent, got, packets>>
    BY <1>6 DEF CallPoll, PollEnds, ReadType, Discard, Taken, Take, rxVars
  <2>2. QED BY <1>2, <2>1
<1>7. CASE ReadRemainingLength \/ ReadTopicLength \/ ReadTopic
  <2>1. UNCHANGED <<listens, sent, got, packets>>
    BY <1>7 DEF ReadRemainingLength, ReadTopicLength, ReadTopic, HandOver, Taken, Take, Stop
  <2>2. QED BY <1>2, <2>1
<1>8. CASE ReadPacketId
  <2>1. UNCHANGED <<listens, got, packets>>
    BY <1>8 DEF ReadPacketId, HandOver, Taken, Take
  <2>2. sent' = sent
    BY <1>8, ReadPacketIdKeeps
  <2>3. QED BY <1>2, <2>1, <2>2
<1>9. CASE ReadVariableHeader
  <2>1. AcksRead' /\ (AckedOnce => AckedOnce')
    BY <1>1, <1>9, PubcompEarned
  <2>2. listens' = listens
    BY <1>9 DEF ReadVariableHeader, Taken, Take
  <2>3. QED BY <1>1, <2>1, <2>2 DEF AckIsEarned
<1>10. CASE CallbackReturns
  <2>1. AcksRead' /\ listens' = listens /\ listens
    BY <1>1, <1>10, CallbackEarned
  <2>2. QED BY <2>1 DEF AckIsEarned
<1>11. CASE UNCHANGED vars
  <2>1. UNCHANGED <<listens, sent, got, packets>>
    BY <1>11 DEF vars
  <2>2. QED BY <1>2, <2>1
<1>12. QED BY <1>3, <1>4, <1>5, <1>6, <1>7, <1>8, <1>9, <1>10, <1>11 DEF Next, Poll

\* Whatever arrives, and however it is read, a message is acknowledged for its
\* own quality of service, when the application has read it to the end, and
\* once where there is no callback (ackRxMessage() of read() and of poll()).
THEOREM AcksAreEarned == Spec => []AckIsEarned
<1>1. Init => Kept /\ AckIsEarned
  <2>1. Init => sent = <<>>
    BY DEF Init
  <2>2. sent = <<>> => AckIsEarned
    BY DEF AckIsEarned, AcksRead, AckedOnce
  <2>3. QED BY <2>1, <2>2, KeptAtFirst
<1>2. (Kept /\ AckIsEarned) /\ [Next]_vars => (Kept /\ AckIsEarned)'
  BY KeptByNext, EarnedByNext
<1>3. QED BY <1>1, <1>2, PTL DEF Spec

=============================================================================

------------------------------- MODULE WifiUdp -------------------------------
(***************************************************************************)
(* WiFiUDP: a datagram received is announced by parsePacket(), read from   *)
(* the module in pieces through the socket's buffer, and its rest thrown  *)
(* away by the next parsePacket(); _parsed counts what is still to come.   *)
(* A datagram to send is collected in the module, piece by piece.          *)
(* The firmware is external: AVAIL_DATA_TCP gives the length of the rest   *)
(* of the datagram at hand or, when there is none, takes the next one.     *)
(***************************************************************************)
EXTENDS Integers, WifiSocketBuffer

CONSTANTS Lengths,     \* bound: lengths of datagrams, and of pieces read or written
          MaxPackets   \* bound: datagrams that arrive

ASSUME UdpAssumption == Lengths \subseteq Nat \ {0} /\ MaxPackets \in Nat

VARIABLES open,      \* _sock is a socket
          parsed,    \* _parsed
          piece,     \* the socket's buffer
          current,   \* module: the rest of the datagram at hand
          waiting,   \* module: the datagrams behind it
          out,       \* module: what is collected of the datagram to send
          arrived,   \* history: datagrams that arrived
          announced, \* history: the datagram parsePacket() last announced, and what was read of it
          lastRead   \* history: the bytes the last call read

udpVars == <<open, parsed, piece, current, waiting, out, arrived, announced, lastRead>>

Packet(p, length) == [n \in 1 .. length |-> [packet |-> p, n |-> n]]
NoPacket == [packet |-> 0, done |-> 0]

UdpInit ==
    /\ open = FALSE /\ parsed = 0 /\ piece = <<>> /\ current = <<>> /\ waiting = <<>>
    /\ out = 0 /\ arrived = 0 /\ announced = NoPacket /\ lastRead = <<>>

-----------------------------------------------------------------------------
(* begin(), beginMulticast(): a socket held is given back first; there may *)
(* be none to take then.                                                   *)
UdpBegin ==
    /\ piece' = <<>> /\ current' = <<>> /\ waiting' = <<>> /\ out' = 0 /\ lastRead' = <<>>
    /\ announced' = NoPacket
    /\ \/ open' = TRUE /\ parsed' = 0
       \/ open' = FALSE /\ UNCHANGED parsed
    /\ UNCHANGED arrived

UdpStop ==
    /\ open
    /\ open' = FALSE
    /\ piece' = <<>> /\ current' = <<>> /\ waiting' = <<>> /\ out' = 0 /\ lastRead' = <<>>
    /\ announced' = NoPacket
    /\ UNCHANGED <<parsed, arrived>>

-----------------------------------------------------------------------------
(* Sending                                                                 *)

(* beginPacket(): takes a socket if there is none yet.  A count that       *)
(* stop() left behind would be taken for a datagram of the new socket: the *)
(* sketch is taken to call begin() first then.                             *)
BeginPacket ==
    /\ open \/ parsed = 0
    /\ open' = TRUE /\ out' = 0
    /\ UNCHANGED <<parsed, piece, current, waiting, arrived, announced, lastRead>>

(* write(): the module takes the piece or refuses it.                      *)
Write(length) ==
    /\ open /\ out + length <= Max(Lengths)
    /\ \/ out' = out + length
       \/ UNCHANGED out
    /\ UNCHANGED <<open, parsed, piece, current, waiting, arrived, announced, lastRead>>

EndPacket ==
    /\ open /\ out' = 0
    /\ UNCHANGED <<open, parsed, piece, current, waiting, arrived, announced, lastRead>>

-----------------------------------------------------------------------------
(* Receiving                                                               *)

(* An empty buffer is filled before it is read.                            *)
Ready == Filled(piece, current)
Rest == Left(piece, current)

(* parsePacket() reads the old datagram to its end, byte by byte, and asks *)
(* for the next.                                                           *)
Discarded == parsed
Beyond == Discarded - Len(piece)                           \* read after the buffer's end
Fetched == BufferSize * ((Beyond + BufferSize - 1) \div BufferSize)
Kept == IF Beyond <= 0 THEN From(piece, Discarded + 1)
        ELSE From(UpTo(current, Fetched), Beyond + 1)
Behind == IF Beyond <= 0 THEN current ELSE From(current, Fetched + 1)

ParsePacket ==
    /\ open
    /\ piece' = Kept
    /\ LET asked == IF Behind # <<>> \/ waiting = <<>> THEN Behind ELSE Head(waiting) IN
       /\ current' = asked
       /\ waiting' = IF Behind # <<>> \/ waiting = <<>> THEN waiting ELSE Tail(waiting)
       /\ parsed' = Len(asked)
       /\ announced' = IF asked = <<>> THEN NoPacket
                       ELSE [packet |-> Head(asked).packet, done |-> Head(asked).n - 1]
    /\ lastRead' = <<>>
    /\ UNCHANGED <<open, out, arrived>>

(* read(buffer, len); read() is the case of one byte.                      *)
(* (a bug to be caught: what was read is still there and is read again)    *)
TakenAgain(length) == UpTo(lastRead \o Ready, Min({length, Len(Ready)}))
Taken(length) == UpTo(Ready, length)
UdpRead(length) ==
    LET read == Taken(length) IN
    /\ open /\ parsed >= 1
    /\ piece' = From(Ready, Len(read) + 1) /\ current' = Rest
    /\ parsed' = parsed - Len(read) /\ lastRead' = read
    /\ announced' = [announced EXCEPT !.done = @ + Len(read)]
    /\ UNCHANGED <<open, waiting, out, arrived>>

(* peek() fills the buffer and takes nothing.                              *)
Peek ==
    /\ open /\ parsed >= 1
    /\ piece' = Ready /\ current' = Rest /\ lastRead' = UpTo(Ready, 1)
    /\ UNCHANGED <<open, parsed, waiting, out, arrived, announced>>

-----------------------------------------------------------------------------
Arrives(length) ==
    /\ open /\ arrived < MaxPackets
    /\ arrived' = arrived + 1 /\ waiting' = Append(waiting, Packet(arrived + 1, length))
    /\ UNCHANGED <<open, parsed, piece, current, out, announced, lastRead>>

UdpNext ==
    \/ UdpBegin \/ UdpStop \/ BeginPacket \/ EndPacket \/ ParsePacket \/ Peek
    \/ \E length \in Lengths : Write(length) \/ UdpRead(length) \/ Arrives(length)
UdpSpec == UdpInit /\ [][UdpNext]_udpVars

-----------------------------------------------------------------------------
(* The announced count, the buffer and the module belong together: what    *)
(* _parsed still promises is what the buffer holds and the module has left *)
(* of the datagram, none of it of another one.                             *)
ParsedIsRest ==
    /\ open => parsed = Len(piece) + Len(current)
    /\ \A i \in 1 .. Len(piece) : piece[i] = [packet |-> announced.packet, n |-> announced.done + i]
    /\ \A i \in 1 .. Len(current) :
         current[i] = [packet |-> announced.packet, n |-> announced.done + Len(piece) + i]

(* No read ever mixes datagrams: its bytes are the next ones of the        *)
(* datagram announced last, and what _parsed promises is its rest.         *)
ReadsOnePacket ==
    /\ []ParsedIsRest
    /\ [][\A length \in Lengths : UdpRead(length) =>
            /\ lastRead' # <<>>
            /\ \A i \in 1 .. Len(lastRead') :
                 lastRead'[i] = [packet |-> announced.packet, n |-> announced.done + i]]_udpVars
=============================================================================

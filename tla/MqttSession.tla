---------------------------- MODULE MqttSession -----------------------------
(***************************************************************************)
(* ArduinoMqttClient, the calls of a sketch: connect(), poll(), messages   *)
(* of every quality of service, sent from the buffer or streamed,          *)
(* subscribe() and unsubscribe().  A call that needs an answer polls until *)
(* it has it or _connectionTimeout is over.  MqttReceiver shows how poll() *)
(* makes packets of bytes; here it takes the packets that have come.       *)
(***************************************************************************)
EXTENDS Integers, Sequences, FiniteSetsExt

CONSTANTS KeepAlive,          \* _keepAliveInterval, in units of time
          ConnectionTimeout,  \* _connectionTimeout
          Settings,           \* the networks and bounds a behaviour may have
          MaxFaults           \* bound: cuts and closes

(* A unit of time is the longest a sketch goes without poll(), which is    *)
(* less than the keepalive interval.                                       *)
ASSUME SessionAssumption ==
    /\ KeepAlive \in Nat /\ KeepAlive > 1 /\ ConnectionTimeout \in Nat \ {0}
    /\ MaxFaults \in Nat
    /\ Settings \subseteq [timely : BOOLEAN, maxId : Nat \ {0}, maxCalls : Nat, maxLate : Nat]

VARIABLES setting,     \* the one of this behaviour: it never changes
          sock,        \* the socket is open
          connected,   \* _connected
          txPacketId,  \* _txPacketId
          returnCode,  \* _returnCode
          call,        \* the answer waited for, and for which call
          stream,      \* a message begun with its size and not yet ended
          in, out,     \* packets to the client and to the broker
          sincePing,   \* now - _lastPingTx
          sinceRx,     \* now - _lastRx
          waited,      \* now - start, in a call that waits
          polled,      \* poll() has run in this unit
          cut,         \* nothing gets through, and nobody is told
          silent,      \* how long the broker has heard nothing
          taken,       \* history: calls whose packet the broker took
          calls,       \* number of the last call that sent
          result,      \* history: the last call that ended
          faults

link == <<sock, in, out, cut>>
times == <<sincePing, sinceRx, waited, polled, silent>>
vars == <<link, times, connected, txPacketId, returnCode, call, stream, taken, calls, result, faults>>

Timely == setting.timely      \* what is sent is answered within a unit
MaxId == setting.maxId        \* _txPacketId wraps behind it: 65535
MaxCalls == setting.maxCalls  \* bound: calls that send
MaxLate == setting.maxLate    \* bound: packets under way when time goes on

NoCode == -1
NoCall == [for |-> "nothing", n |-> 0, qos |-> 0]
NoStream == [open |-> FALSE, qos |-> 0]
Waits == {"connack", "suback", "unsuback", "pubrec", "puback", "pubcomp"}
Headers == {"header", "header1", "header2"}
Packet(type, id, n) == [type |-> type, id |-> id, n |-> n]

Init ==
    /\ setting \in Settings
    /\ sock = FALSE /\ connected = FALSE /\ txPacketId = 0 /\ returnCode = NoCode
    /\ call = NoCall /\ stream = NoStream /\ in = <<>> /\ out = <<>>
    /\ sincePing \in 0 .. KeepAlive /\ sinceRx = 0 /\ waited = 0 /\ polled = FALSE
    /\ cut = FALSE /\ silent = 0 /\ taken = {} /\ calls = 0 /\ faults = 0
    /\ result = [call |-> NoCall, ok |-> FALSE]

-----------------------------------------------------------------------------
(* The socket                                                              *)

(* clientWrite(): on a cut path the module buffers what it is given or     *)
(* gives up and closes.                                                    *)
Written(ps) == [ok |-> TRUE, sock |-> TRUE, out |-> IF cut THEN out ELSE out \o ps]
Refused == [ok |-> FALSE, sock |-> FALSE, out |-> <<>>]
Writes(ps) == IF ~ sock THEN {Refused}
              ELSE {Written(ps)} \cup (IF cut THEN {Refused} ELSE {})

clientConnected == sock \/ in # <<>>

(* stop(), and _client->stop().                                            *)
Closed == /\ connected' = FALSE
          /\ sock' = FALSE /\ in' = <<>> /\ out' = <<>> /\ UNCHANGED cut

(* _txPacketId++, and 1 where that gives 0.                                *)
(* (a bug to be caught: 0 is used)                                         *)
NextIdZero == (txPacketId + 1) % (MaxId + 1)
NextId == IF txPacketId = MaxId THEN 1 ELSE txPacketId + 1

-----------------------------------------------------------------------------
(* poll()                                                                  *)

(* _returnCode after the packets that have come: the last of them that     *)
(* sets it.  An acknowledgement does only if it is for the packet sent     *)
(* last.                                                                   *)
(* (a bug to be caught: whatever packet it is for)                         *)
OwnAny(p) == TRUE
Own(p) == p.id = txPacketId
Acks == {"puback", "pubrec", "pubcomp", "suback", "unsuback"}
SetsCode(p) == p.type = "connack" \/ (p.type \in Acks /\ Own(p))
Code(p) == IF p.type \in {"connack", "suback"} THEN p.n ELSE 0
CodeAfter == LET said == {i \in DOMAIN in : SetsCode(in[i])} IN
             IF said = {} THEN returnCode ELSE Code(in[Max(said)])

(* The keepalive at the end of poll(): a ping when one is due, else a look *)
(* at how long the broker has been silent.                                 *)
(* (bugs to be caught: the ping is sent at twice the interval; the silence *)
(* is measured against half its limit; it is not looked at)                *)
PingDueLate == sincePing >= 2 * KeepAlive
PingDue == sincePing >= KeepAlive
DeadHasty(age) == age >= KeepAlive \div 2
DeadNever(age) == FALSE
Dead(age) == age >= 2 * KeepAlive

Send(ps) == IF ps = <<>> THEN UNCHANGED <<sock, out>>
            ELSE \E w \in Writes(ps) : sock' = w.sock /\ out' = w.out

(* poll(), and what the caller sends right behind it.                      *)
PollStep(more) ==
    LET still == connected /\ clientConnected
        age == IF in # <<>> THEN 0 ELSE sinceRx
    IN
    /\ polled' = TRUE /\ sinceRx' = age
    /\ UNCHANGED silent
    /\ \/ /\ still /\ PingDue
          /\ sincePing' = 0 /\ in' = <<>> /\ connected' = TRUE
          /\ Send(<<Packet("pingreq", 0, 0)>> \o more)
          /\ UNCHANGED cut
       \/ /\ still /\ ~ PingDue /\ Dead(age)
          /\ Closed /\ UNCHANGED sincePing
       \/ /\ still => ~ PingDue /\ ~ Dead(age)
          /\ in' = <<>> /\ connected' = still
          /\ Send(more)
          /\ UNCHANGED <<cut, sincePing>>

(* The sketch polls.                                                       *)
Poll ==
    /\ call = NoCall /\ PollStep(<<>>) /\ returnCode' = CodeAfter
    /\ UNCHANGED <<waited, txPacketId, call, stream, taken, calls, result, faults>>

-----------------------------------------------------------------------------
(* Calls that send                                                         *)

Return(c, ok) == call' = NoCall /\ result' = [call |-> c, ok |-> ok] /\ waited' = 0

(* The packet is written, and the answer waited for from then on; if it    *)
(* cannot be written, the connection is given up.                          *)
SendAndWait(c, id, ps) ==
    /\ calls' = c.n /\ txPacketId' = IF id = 0 THEN txPacketId ELSE id
    /\ \E w \in Writes(ps) :
         IF ~ w.ok
         THEN Closed /\ Return(c, FALSE) /\ UNCHANGED returnCode
         ELSE /\ sock' = w.sock /\ out' = w.out /\ waited' = 0
              /\ IF c.for = "nothing"
                 THEN Return(c, TRUE) /\ UNCHANGED returnCode
                 ELSE call' = c /\ returnCode' = NoCode /\ UNCHANGED result
              /\ UNCHANGED <<in, cut, connected>>
    /\ UNCHANGED <<sincePing, sinceRx, polled, silent, taken, faults>>

(* (a bug to be caught: a message begun and not ended is not looked at)    *)
FreeInStream == call = NoCall /\ calls < MaxCalls
Free == call = NoCall /\ ~ stream.open /\ calls < MaxCalls

(* connect(): a socket still open is closed, the packet ids start again.   *)
Connect ==
    LET c == [for |-> "connack", n |-> calls + 1, qos |-> 0] IN
    /\ Free /\ calls' = c.n
    /\ txPacketId' = 0 /\ connected' = FALSE /\ in' = <<>>
    /\ \/ /\ sock' = FALSE /\ out' = <<>> /\ Return(c, FALSE)
          /\ UNCHANGED <<returnCode, sinceRx, cut>>
       \/ /\ sock' = TRUE /\ out' = <<Packet("connect", 0, c.n)>> /\ cut' = FALSE
          /\ sinceRx' = 0 /\ waited' = 0 /\ returnCode' = NoCode /\ call' = c
          /\ UNCHANGED result
    /\ silent' = 0
    /\ UNCHANGED <<sincePing, polled, stream, taken, faults>>

Subscribe ==
    /\ Free /\ UNCHANGED stream
    /\ SendAndWait([for |-> "suback", n |-> calls + 1, qos |-> 0], NextId,
                   <<Packet("subscribe", NextId, calls + 1)>>)

Unsubscribe ==
    /\ Free /\ UNCHANGED stream
    /\ SendAndWait([for |-> "unsuback", n |-> calls + 1, qos |-> 0], NextId,
                   <<Packet("unsubscribe", NextId, calls + 1)>>)

(* What endMessage() waits for first, and the packet id of a message.      *)
FirstWait(qos) == CASE qos = 0 -> "nothing" [] qos = 1 -> "puback" [] qos = 2 -> "pubrec"
MessageId(qos) == IF qos = 0 THEN 0 ELSE NextId
Whole(qos) == CASE qos = 0 -> "publish" [] qos = 1 -> "publish1" [] qos = 2 -> "publish2"
Header(qos) == CASE qos = 0 -> "header" [] qos = 1 -> "header1" [] qos = 2 -> "header2"

(* beginMessage(topic), print() and endMessage(): sent at the end, whole.  *)
Publish(qos) ==
    /\ Free /\ UNCHANGED stream
    /\ SendAndWait([for |-> FirstWait(qos), n |-> calls + 1, qos |-> qos], MessageId(qos),
                   <<Packet(Whole(qos), MessageId(qos), calls + 1)>>)

(* beginMessage(topic, size): the header goes out at once.                 *)
BeginStream(qos) ==
    /\ Free
    /\ stream' = [open |-> TRUE, qos |-> qos]
    /\ SendAndWait([for |-> "nothing", n |-> calls + 1, qos |-> 0], MessageId(qos),
                   <<Packet(Header(qos), MessageId(qos), calls + 1)>>)

(* The payload, and endMessage(), which waits if the quality asks for it.  *)
EndStream ==
    LET c == [for |-> FirstWait(stream.qos), n |-> calls, qos |-> stream.qos] IN
    /\ call = NoCall /\ stream.open /\ stream' = NoStream
    /\ Send(<<Packet("payload", 0, calls)>>)
    /\ IF c.for = "nothing"
       THEN Return(c, TRUE) /\ UNCHANGED returnCode
       ELSE call' = c /\ returnCode' = NoCode /\ waited' = 0 /\ UNCHANGED result
    /\ UNCHANGED <<connected, txPacketId, in, cut, sincePing, sinceRx, polled, silent,
                   taken, calls, faults>>

(* stop(): DISCONNECT and close.                                           *)
Disconnect ==
    /\ call = NoCall /\ sock /\ Closed /\ silent' = 0
    /\ UNCHANGED <<sincePing, sinceRx, waited, polled, txPacketId, returnCode, call, stream,
                   taken, calls, result, faults>>

-----------------------------------------------------------------------------
(* The loops that wait                                                     *)

(* (a bug to be caught: the loop has no limit of time)                     *)
InTimeAlways == clientConnected
InTime == waited < ConnectionTimeout /\ clientConnected

(* One turn that finds no answer.                                          *)
WaitOn ==
    /\ call # NoCall /\ InTime /\ CodeAfter = NoCode
    /\ PollStep(<<>>) /\ returnCode' = NoCode
    /\ UNCHANGED <<waited, txPacketId, call, stream, taken, calls, result, faults>>

(* One turn that finds it.  connect() is done with CONNACK 0; a message of *)
(* quality 2 answers PUBREC with PUBREL and waits for PUBCOMP; subscribe() *)
(* takes the three qualities granted for success.                          *)
Answered ==
    LET code == CodeAfter IN
    /\ call # NoCall /\ InTime /\ code # NoCode
    /\ CASE call.for = "connack" ->
              /\ sinceRx' = 0 /\ polled' = TRUE /\ returnCode' = code
              /\ IF code = 0
                 THEN connected' = TRUE /\ in' = <<>> /\ UNCHANGED <<sock, out, cut>>
                 ELSE Closed
              /\ Return(call, code = 0)
              /\ UNCHANGED <<sincePing, silent>>
         [] call.for = "pubrec" /\ code = 0 ->
              /\ PollStep(<<Packet("pubrel", txPacketId, call.n)>>) /\ returnCode' = NoCode
              /\ call' = [call EXCEPT !.for = "pubcomp"] /\ waited' = 0
              /\ UNCHANGED result
         [] OTHER ->
              /\ PollStep(<<>>) /\ returnCode' = code
              /\ Return(call, code = 0 \/ (call.for = "suback" /\ code \in 0 .. 2))
    /\ UNCHANGED <<txPacketId, stream, taken, calls, faults>>

(* No answer in time, or no connection any more.  A message of quality 2   *)
(* goes on with PUBREL; connect() and the subscriptions close; endMessage  *)
(* only returns.                                                           *)
GivesUp ==
    /\ call # NoCall /\ ~ InTime
    /\ CASE call.for = "pubrec" ->
              /\ Send(<<Packet("pubrel", txPacketId, call.n)>>)
              /\ call' = [call EXCEPT !.for = "pubcomp"]
              /\ returnCode' = NoCode /\ waited' = 0
              /\ UNCHANGED <<in, cut, connected, result>>
         [] call.for \in {"puback", "pubcomp"} ->
              Return(call, FALSE) /\ UNCHANGED <<link, connected, returnCode>>
         [] OTHER ->
              Closed /\ Return(call, FALSE) /\ UNCHANGED returnCode
    /\ UNCHANGED <<txPacketId, stream, sincePing, sinceRx, polled, silent, taken, calls, faults>>

Client == Poll \/ WaitOn \/ Answered \/ GivesUp
Caller == \/ Connect \/ Subscribe \/ Unsubscribe \/ EndStream \/ Disconnect
          \/ \E qos \in 0 .. 2 : Publish(qos) \/ BeginStream(qos)

-----------------------------------------------------------------------------
(* The broker and the network                                              *)

Handles(k) == sock /\ ~ cut /\ Len(out) >= k
Answers(k, ps, ns) ==
    /\ out' = SubSeq(out, k + 1, Len(out)) /\ in' = in \o ps
    /\ taken' = taken \cup ns /\ silent' = 0

Reply(type, p) == Packet(type, p.id, 0)
BrokerHandle ==
    /\ Handles(1)
    /\ LET p == Head(out) IN
       \/ /\ p.type = "connect"
          /\ \/ Answers(1, <<Packet("connack", 0, 0)>>, {p.n})
             \/ Answers(1, <<Packet("connack", 0, 5)>>, {})
       \/ /\ p.type = "subscribe"
          /\ \/ Answers(1, <<Packet("suback", p.id, 1)>>, {p.n})
             \/ Answers(1, <<Packet("suback", p.id, 128)>>, {})
       \/ p.type = "unsubscribe" /\ Answers(1, <<Reply("unsuback", p)>>, {p.n})
       \/ p.type = "publish" /\ Answers(1, <<>>, {p.n})
       \/ p.type = "publish1" /\ Answers(1, <<Reply("puback", p)>>, {p.n})
       \/ p.type = "publish2" /\ Answers(1, <<Reply("pubrec", p)>>, {p.n})
       \/ p.type = "pubrel" /\ Answers(1, <<Reply("pubcomp", p)>>, {})
       \/ p.type = "pingreq" /\ Answers(1, <<Packet("pingresp", 0, 0)>>, {})
       \/ /\ p.type \in Headers /\ Handles(2) /\ out[2].type = "payload"
          /\ Answers(2, CASE p.type = "header" -> <<>>
                          [] p.type = "header1" -> <<Reply("puback", p)>>
                          [] p.type = "header2" -> <<Reply("pubrec", p)>>, {p.n})
    /\ UNCHANGED <<sock, cut, sincePing, sinceRx, waited, polled, connected, txPacketId,
                   returnCode, call, stream, calls, result, faults>>

(* Bytes that are no packet, or its own reasons: the broker closes.  What  *)
(* the client has not read yet is lost or not.                             *)
Nonsense == Handles(1) /\ (\/ Head(out).type = "payload"
                           \/ Handles(2) /\ Head(out).type \in Headers /\ out[2].type # "payload")
BrokerCloses ==
    /\ sock
    /\ \/ Nonsense /\ UNCHANGED faults
       \/ faults < MaxFaults /\ faults' = faults + 1
    /\ sock' = FALSE /\ out' = <<>> /\ in' \in {in, <<>>}
    /\ UNCHANGED <<cut, times, connected, txPacketId, returnCode, call, stream, taken, calls, result>>

Cut ==
    /\ sock /\ ~ cut /\ faults < MaxFaults /\ faults' = faults + 1
    /\ cut' = TRUE /\ out' = <<>> /\ in' \in {in, <<>>}
    /\ UNCHANGED <<sock, times, connected, txPacketId, returnCode, call, stream, taken, calls, result>>

(* Time.  A sketch that is connected polls at least once in a unit.        *)
Older(age, limit) == IF age < limit THEN age + 1 ELSE age
Answerable == ~ cut /\ (in # <<>> \/ (out # <<>> /\ ~ (stream.open /\ Len(out) = 1)))
Tick ==
    /\ connected \/ call # NoCall => polled
    /\ call # NoCall => InTime
    /\ Timely => ~ Answerable
    /\ Len(in) + Len(out) <= MaxLate
    /\ polled' = FALSE
    /\ sincePing' = Older(sincePing, 2 * KeepAlive)
    /\ sinceRx' = Older(sinceRx, 2 * KeepAlive + 2)
    /\ waited' = IF call = NoCall THEN 0 ELSE Older(waited, ConnectionTimeout)
    /\ silent' = Older(silent, 2 * KeepAlive + 2)
    /\ UNCHANGED <<link, connected, txPacketId, returnCode, call, stream, taken, calls, result, faults>>

Network == BrokerHandle \/ BrokerCloses \/ Cut

Next == (Client \/ Caller \/ Network \/ Tick) /\ UNCHANGED setting
Spec == Init /\ [][Next]_<<setting, vars>>

(* The call that waits goes on, time passes, and the broker takes what has *)
(* reached it or gives up a connection that makes no sense to it.          *)
Goes == (WaitOn /\ (in # <<>> \/ ~ polled)) \/ Answered \/ GivesUp
BrokerGoes == BrokerHandle \/ (Nonsense /\ BrokerCloses)
FairSpec == Spec /\ WF_vars(Goes) /\ WF_vars(Tick) /\ WF_vars(BrokerGoes)

-----------------------------------------------------------------------------
TypeOK ==
    /\ setting \in Settings
    /\ sock \in BOOLEAN /\ connected \in BOOLEAN /\ cut \in BOOLEAN /\ polled \in BOOLEAN
    /\ txPacketId \in 0 .. MaxId /\ returnCode \in {-1, 0, 1, 5, 128}
    /\ call.for \in Waits \cup {"nothing"} /\ call.n \in 0 .. MaxCalls
    /\ \A i \in DOMAIN out :
         out[i].type \in {"subscribe", "unsubscribe", "publish1", "publish2", "header1", "header2",
                          "pubrel"} => out[i].id \in 1 .. MaxId
    /\ waited \in 0 .. ConnectionTimeout /\ taken \subseteq 1 .. MaxCalls

(* endMessage() of a quality above 0, subscribe(), unsubscribe() and       *)
(* connect() return success only for what the broker has taken: no late    *)
(* acknowledgement of an earlier packet, no PUBREL sent without a PUBREC,  *)
(* no lost connection makes it one.                                        *)
TrueMeansDone == result.ok /\ result.call.for # "nothing" => result.call.n \in taken

(* On a timely network a sketch that polls every unit is heard by the      *)
(* broker before the one and a half intervals are over after which it      *)
(* would drop the session; and on any a path that went silent is noticed   *)
(* within two intervals and a unit, although no write fails.               *)
BrokerHears == Timely /\ connected /\ sock /\ ~ cut => 2 * silent <= 3 * KeepAlive
DeadPeerFound == connected => sinceRx <= 2 * KeepAlive + 1
KeepaliveHolds == BrokerHears /\ DeadPeerFound

(* poll() gives up no connection whose broker answers in time.             *)
NoFalseStop == [][Timely /\ Poll /\ sock /\ ~ cut => sock']_<<setting, vars>>

(* "ignore, can't send as in the middle of a publish": what follows the    *)
(* header of a streamed message is its payload.  Only the ping of poll()   *)
(* does not keep to this, and may stand between the two.                   *)
StreamStaysTogether ==
    \A i, j \in DOMAIN out :
        /\ i < j /\ out[i].type \in Headers
        /\ \A k \in i + 1 .. j - 1 : out[k].type = "pingreq"
        => out[j].type \in {"payload", "pingreq"}

(* Types, with packet ids that are never 0; and streams stay together.     *)
StreamInv == TypeOK /\ StreamStaysTogether

(* Every call returns, whatever breaks while it waits.                     *)
CallsReturn == (call # NoCall) ~> (call = NoCall)
=============================================================================

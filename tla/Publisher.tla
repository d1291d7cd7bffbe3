----------------------------- MODULE Publisher ------------------------------
(***************************************************************************)
(* The sensor sketch: it joins the WiFi, connects to the broker, and then  *)
(* sends what the DHT reads as one round of three messages per interval.   *)
(* WiFi.begin() is that of WifiJoin.  Of the sensor's driver it takes what *)
(* DhtSensor shows, of the MQTT client what MqttSession shows: a message   *)
(* of QoS 0 is written while the connection stands, and lost otherwise.    *)
(* Time is counted in the five seconds of delay(5000) and of a question of *)
(* WiFi.begin().                                                           *)
(***************************************************************************)
EXTENDS WifiJoin, Integers, Sequences

CONSTANTS Interval,   \* interval
          Wrap        \* millis() counts modulo Wrap

ASSUME PublisherAssumption ==
    Interval \in Nat \ {0} /\ Wrap \in Nat /\ 2 * Interval < Wrap

VARIABLES pc,        \* where the sketch is
          now,       \* millis()
          previous,  \* previousMillis
          session,   \* the MQTT connection: "none", "up", "gone"
          broker,    \* the broker can be reached
          sensor,    \* the last measurement: its number modulo 3, correct or not, its age
          round,     \* h, t: the measurements read; sent: messages of this round
          since,     \* history: time since the last round began
          delivered  \* history: the last step brought a message to the broker

sketchVars == <<pc, now, previous, session, broker, sensor, round, since, delivered>>
pubVars == <<joinVars, sketchVars>>

NoRound == [h |-> 0, t |-> 0, sent |-> 0]
InitP ==
    /\ JoinInit /\ pc = "setup" /\ now \in 0 .. Wrap - 1 /\ previous = 0
    /\ session = "none" /\ broker \in BOOLEAN
    /\ sensor = [n |-> 0, ok |-> FALSE, age |-> 1] /\ round = NoRound
    /\ since = Wrap /\ delivered = FALSE

(* (a bug to be caught: the clock never wraps)                             *)
MillisOn == now + 1
Millis == (now + 1) % Wrap
Later == /\ now' = Millis
         /\ since' = IF since < Wrap THEN since + 1 ELSE since
         /\ sensor' = [sensor EXCEPT !.age = 1]

-----------------------------------------------------------------------------
(* while (WiFi.begin(ssid, pass) != WL_CONNECTED): in setup(), and in      *)
(* loop() when the WiFi is found lost.                                     *)
CallBegin ==
    /\ pc \in {"setup", "rejoin"} /\ call = NoCall /\ answer.status # "connected"
    /\ Join("begin")
    /\ IF answer.op = "none" THEN UNCHANGED <<now, since, sensor>> ELSE Later  \* delay(5000)
    /\ UNCHANGED <<pc, previous, session, broker, round, delivered>>
WaitBegin ==
    /\ pc \in {"setup", "rejoin"}
    /\ AskStatus /\ Later
    /\ UNCHANGED <<pc, previous, session, broker, round>> /\ delivered' = FALSE
Joined ==
    /\ pc \in {"setup", "rejoin"} /\ call = NoCall /\ answer.status = "connected"
    /\ pc' = IF pc = "setup" THEN "connect" ELSE "loop"
    /\ delivered' = FALSE
    /\ UNCHANGED <<joinVars, now, previous, session, broker, sensor, round, since>>

(* mqttClient.connect(); when it fails the sketch stops for good.          *)
ConnectBroker ==
    /\ pc = "connect"
    /\ \/ wifi = "connected" /\ broker /\ session' = "up" /\ pc' = "loop"
       \/ session' = "gone" /\ pc' = "halted"
    /\ UNCHANGED <<joinVars, now, previous, broker, sensor, round, since, delivered>>

-----------------------------------------------------------------------------
(* loop()                                                                  *)

(* (a bug to be caught: the difference is signed)                          *)
DueSigned == now - previous >= Interval
Due == (now - previous) % Wrap >= Interval
(* (a bug to be caught: the next round is due an interval after the last   *)
(* one was)                                                                *)
MarkFromLast == (previous + Interval) % Wrap
Mark == now

(* readHumidity() and readTemperature(): a measurement is kept for less    *)
(* than a tick.                                                            *)
(* (a bug to be caught: every call measures)                               *)
KeptNever == FALSE
Kept == sensor.age = 0
Measures == \E ok \in BOOLEAN :
                sensor' = IF Kept THEN sensor ELSE [n |-> (sensor.n + 1) % 3, ok |-> ok, age |-> 0]
StartRound ==
    /\ pc = "loop" /\ Due
    /\ previous' = Mark /\ since' = 0 /\ Measures
    /\ round' = [NoRound EXCEPT !.h = sensor'.n] /\ pc' = "read"
    /\ delivered' = FALSE
    /\ UNCHANGED <<joinVars, now, session, broker>>

(* A reading that is no number ends loop() here.                           *)
ReadTemperature ==
    /\ pc = "read"
    /\ Measures /\ round' = [round EXCEPT !.t = sensor'.n]
    /\ pc' = IF sensor.ok /\ sensor'.ok THEN "send" ELSE "loop"
    /\ UNCHANGED <<joinVars, now, previous, session, broker, since, delivered>>

(* beginMessage(), print() and endMessage(), three times; what endMessage  *)
(* returns is not looked at.                                               *)
SendMessage ==
    /\ pc = "send" /\ round.sent < 3
    /\ round' = [round EXCEPT !.sent = @ + 1] /\ delivered' = (session = "up")
    /\ UNCHANGED <<joinVars, pc, now, previous, session, broker, sensor, since>>

(* (a bug to be caught: the WiFi is not looked at)                         *)
LostUnseen == FALSE
Lost == wifi # "connected"
CheckWifi ==
    /\ pc = "send" /\ round.sent = 3
    /\ pc' = (IF Lost THEN "rejoin" ELSE "loop")
    /\ answer' = IF Lost THEN [NoCall EXCEPT !.status = "disconnected"] ELSE answer
    /\ round' = NoRound /\ delivered' = FALSE
    /\ UNCHANGED <<wifi, call, now, previous, session, broker, sensor, since>>

(* The rest of the time loop() polls.                                      *)
Tick ==
    /\ pc = "loop" /\ (now - previous) % Wrap < Wrap - 1
    /\ Later /\ delivered' = FALSE
    /\ UNCHANGED <<joinVars, pc, previous, session, broker, round>>

-----------------------------------------------------------------------------
(* The network                                                             *)
Radio ==
    /\ Changes /\ wifi' # "ap listening"
    /\ session' = IF wifi = "connected" /\ session = "up" THEN "gone" ELSE session
    /\ delivered' = FALSE
    /\ UNCHANGED <<pc, now, previous, broker, sensor, round, since>>
BrokerFalls ==
    /\ broker' = ~ broker
    /\ session' = IF session = "up" THEN "gone" ELSE session
    /\ delivered' = FALSE
    /\ UNCHANGED <<joinVars, pc, now, previous, sensor, round, since>>

Sketch == \/ CallBegin \/ WaitBegin \/ Joined \/ ConnectBroker
          \/ StartRound \/ ReadTemperature \/ SendMessage \/ CheckWifi
NextP == Sketch \/ Tick \/ Radio \/ BrokerFalls
SpecP == InitP /\ [][NextP]_pubVars
FairSpecP == SpecP /\ WF_pubVars(Sketch) /\ WF_pubVars(Tick)

-----------------------------------------------------------------------------
TypeOKP ==
    /\ pc \in {"setup", "connect", "halted", "loop", "read", "send", "rejoin"}
    /\ wifi \in Statuses /\ session \in {"none", "up", "gone"}
    /\ now \in 0 .. Wrap - 1 /\ previous \in 0 .. Wrap - 1

(* The three messages of a round are of one correct measurement, although  *)
(* humidity and temperature are read by two calls.                         *)
RoundIsOneSample == pc = "send" => round.h = round.t /\ sensor.ok /\ sensor.n = round.t

(* However long the sketch was kept in WiFi.begin(), rounds stay an        *)
(* interval apart: none is made up for.                                    *)
NoBurst == [][StartRound => since >= Interval]_pubVars

(* A sketch whose sensor works does not stay off the WiFi unaware: it      *)
(* calls begin() again.                                                    *)
LostWifiIsRejoined ==
    []<>(pc = "send") => ((pc = "loop" /\ wifi # "connected")
                               ~> (wifi = "connected" \/ pc = "rejoin"))

(* As long as the connection stands and the sensor works, messages reach   *)
(* the broker again and again, however often millis() wraps.  (Once the    *)
(* connection is lost none do: the sketch connects in setup() only.)       *)
KeepsPublishing == <>[](session = "up" /\ sensor.ok) => []<>delivered
=============================================================================

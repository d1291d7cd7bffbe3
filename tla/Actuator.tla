------------------------------ MODULE Actuator ------------------------------
(***************************************************************************)
(* The actuator board: the sketch Arduino_Rec_Update.ino on top of the     *)
(* PubSubClient library.  setup() waits for WiFi, connects and subscribes; *)
(* each round of loop() waits for WiFi, reconnects if need be and calls    *)
(* client.loop(), which hands the messages to callback().                  *)
(*                                                                         *)
(* Readings are tenths of a degree or of a percent: the publisher prints   *)
(* decimals, and atoi() drops them again.                                  *)
(***************************************************************************)
EXTENDS PubSubClient

ASSUME ActuatorAssumption ==
  /\ Values \subseteq Nat
  /\ {"test", "temperature", "humidity"} \subseteq Topics
  /\ "fits" \in Sizes /\ 0 \in QosLevels

VARIABLES
  pc,        \* where the sketch stands
  todo,      \* topics setup() has still to subscribe to
  pause,     \* the sketch is in delay() after a failed connect
  wifi,      \* WiFi.status() = WL_CONNECTED
  motor,     \* motorA1 and LED_BUILTIN are HIGH
  rgb,       \* which of the three LEDs is lit
  routed     \* history: the last reading the broker sent on this connection, by topic

sketch  == <<pc, todo, pause>>
outputs == <<motor, rgb>>
varsA   == <<vars, sketch, wifi, outputs, routed>>

\* (a bug to be caught: a topic of the publisher is misspelt)
SubscriptionsMisspelt == <<"test", "temprature", "humidity">>

Places        == {"setupWifi", "setupConnect", "subscribe", "loopWifi", "loopConnect", "loopRun"}
Subscriptions == <<"test", "temperature", "humidity">>   \* topic, topic0, topic1
NoReading     == -1
NothingRouted == [t \in Topics |-> NoReading]

\* atoi() on the printed reading.
Atoi(reading) == reading \div 10

\* (a bug to be caught: the threshold itself switches the motor on)
MotorFrom(temperature) == temperature >= 26

Motor(temperature) == temperature > 26

LED(humidity) ==
  CASE humidity > 60 -> "red"
    [] humidity < 50 -> "blue"
    [] OTHER         -> "green"

\* (a bug to be caught: the handlers of the two topics are swapped)
CallbackSwapped(p) ==
  /\ motor' = IF p.topic = "humidity" THEN Motor(Atoi(p.value)) ELSE motor
  /\ rgb'   = IF p.topic = "temperature" THEN LED(Atoi(p.value)) ELSE rgb

\* callback(): the message is handed over, and the outputs follow.
Callback(p) ==
  /\ motor' = IF p.topic = "temperature" THEN Motor(Atoi(p.value)) ELSE motor
  /\ rgb'   = IF p.topic = "humidity" THEN LED(Atoi(p.value)) ELSE rgb

Forget == routed' = IF session /\ ~session' THEN NothingRouted ELSE routed

-----------------------------------------------------------------------------
InitA ==
  /\ Init
  /\ pc = "setupWifi" /\ todo = Subscriptions /\ pause = FALSE
  /\ wifi = FALSE
  /\ motor = FALSE /\ rgb = "off"
  /\ routed = NothingRouted

\* while (WiFi.status() != WL_CONNECTED), in setup() and again in loop().
WifiReady ==
  /\ pc \in {"setupWifi", "loopWifi"} /\ wifi
  /\ pc' = IF pc = "setupWifi" THEN "setupConnect" ELSE "loopConnect"
  /\ UNCHANGED <<vars, todo, pause, wifi, outputs, routed>>

Connecting == pc \in {"setupConnect", "loopConnect"}

\* while (!client.connected()): the loop is left ...
AlreadyConnected ==
  /\ Connecting /\ call = "idle" /\ ~pause /\ Connected
  /\ pc' = IF pc = "setupConnect" THEN "subscribe" ELSE "loopRun"
  /\ UNCHANGED <<vars, todo, pause, wifi, outputs, routed>>

\* ... or client.connect() is called.
TryConnect ==
  /\ Connecting /\ ~pause /\ ~Connected
  /\ CallConnect
  /\ Forget
  /\ UNCHANGED <<sketch, wifi, outputs>>

\* client.subscribe() for each topic; the result is not looked at.
SubscribeNext ==
  /\ pc = "subscribe" /\ todo # <<>>
  /\ CallSubscribe(Head(todo), 0)
  /\ todo' = Tail(todo)
  /\ pc' = IF todo' = <<>> THEN "loopWifi" ELSE pc
  /\ Forget
  /\ UNCHANGED <<pause, wifi, outputs>>

\* client.loop(); loop() starts over when it returns.
RunLibrary ==
  /\ pc = "loopRun"
  /\ CallLoop
  /\ pc' = IF call' = "idle" THEN "loopWifi" ELSE pc
  /\ Forget
  /\ UNCHANGED <<todo, pause, wifi, outputs>>

\* A call goes on.  A message is handed to callback() before loop() returns;
\* a failed connect() is followed by delay(2000).
GoOn ==
  /\ LibraryStep
  /\ IF Handed THEN Callback(partial.pkt) ELSE UNCHANGED outputs
  /\ pc' = IF pc = "loopRun" /\ call' = "idle" THEN "loopWifi" ELSE pc
  /\ pause' = (Connecting /\ call' = "idle" /\ ~ret')
  /\ Forget
  /\ UNCHANGED <<todo, wifi>>

Sketch == WifiReady \/ AlreadyConnected \/ TryConnect \/ SubscribeNext \/ RunLibrary \/ GoOn

\* The firmware of the WiFi module joins the network by itself after begin().
WifiUp ==
  /\ ~wifi /\ wifi' = TRUE /\ brokerUp' = TRUE
  /\ UNCHANGED <<link, peer, timers, lib, failures, sketch, outputs, routed>>

\* Losing WiFi takes the path to the broker with it, and nobody is told.
WifiDrop ==
  /\ Fault /\ wifi /\ wifi' = FALSE /\ brokerUp' = FALSE
  /\ cut' = open /\ down' = <<>> /\ up' = <<>> /\ downAge' = 0 /\ upAge' = 0
  /\ session' = FALSE /\ subs' = {} /\ silence' = 0
  /\ Forget
  /\ UNCHANGED <<sock, open, inbox, timers, lib, sketch, outputs>>

\* The topics that move an output; callback() only prints the others.
Watched == {"temperature", "humidity"}

\* A reading reaches the subscribed actuator.
Reading(t, v) ==
  /\ BrokerPublish(t, 0, v, "fits")
  /\ routed' = IF t \in Watched THEN [routed EXCEPT ![t] = v] ELSE routed
  /\ UNCHANGED <<sketch, wifi, outputs>>

Surroundings ==
  /\ \/ Deliver \/ BrokerHandle \/ BrokerRefuse \/ BrokerCrash \/ LinkCut
     \/ BrokerRestart /\ wifi
  /\ Forget
  /\ UNCHANGED <<sketch, wifi, outputs>>

\* The sketch waits for WiFi, in delay(), or calls loop() in every time unit.
TimePasses ==
  /\ Elapse(call = "idle" /\ (ran \/ pause \/ (pc \in {"setupWifi", "loopWifi"} /\ ~wifi)))
  /\ pause' = FALSE
  /\ Forget
  /\ UNCHANGED <<pc, todo, wifi, outputs>>

NextA ==
  \/ Sketch \/ WifiUp \/ WifiDrop \/ Surroundings \/ TimePasses
  \/ \E t \in Topics, v \in Values : Reading(t, v)

SpecA == InitA /\ [][NextA]_varsA

\* The board runs, the network carries what is sent, the broker answers and
\* comes back after a crash, the firmware finds the WiFi again.
FairSpecA ==
  /\ SpecA
  /\ WF_varsA(Sketch) /\ WF_varsA(TimePasses) /\ WF_varsA(WifiUp)
  /\ WF_varsA(Deliver /\ Surroundings) /\ WF_varsA(BrokerHandle /\ Surroundings)
  /\ WF_varsA(BrokerRestart /\ Surroundings)

-----------------------------------------------------------------------------
\* The sketch keeps to its places and the outputs to their levels.
TypeOKA ==
  /\ TypeOK
  /\ pc \in Places /\ {pause, wifi, motor} \subseteq BOOLEAN
  /\ todo \in Seq(Topics) /\ rgb \in {"off", "red", "green", "blue"}
  /\ routed \in [Topics -> Values \cup {NoReading}]

\* The outputs stand as reading v of topic t demands.
Obeyed(t, v) ==
  /\ t = "temperature" => motor = (v >= 270)
  /\ t = "humidity" => rgb = IF v >= 610 THEN "red" ELSE IF v < 500 THEN "blue" ELSE "green"

\* Once nothing is under way on a live connection, motor and LED stand as the
\* last readings demand: no reading is lost, overtaken or taken for another,
\* whatever ended the connections before.
OutputsFollow ==
  session /\ call = "idle" /\ down = <<>> /\ inbox = <<>> =>
    \A t \in Watched : routed[t] # NoReading => Obeyed(t, routed[t])

\* The second half of a reading of topic t is the k-th unit of the stream.
Carries(t, k) == k % 2 = 0 /\ At(k).pkt.type = "PUBLISH" /\ At(k).pkt.topic = t

\* The last reading of a topic is still in the stream, and no other behind it,
\* or it has been obeyed.
LastReading(t) ==
  \/ \E k \in 1..StreamLen : /\ Carries(t, k) /\ At(k).pkt.value = routed[t]
                             /\ \A l \in 1..StreamLen : Carries(t, l) => l <= k
  \/ (\A k \in 1..StreamLen : ~Carries(t, k)) /\ Obeyed(t, routed[t])

\* Readings belong to a session.
ReadingsKept ==
  IF session
  THEN /\ \A k \in 1..StreamLen : At(k).pkt.type = "PUBLISH" => At(k).pkt.size = "fits"
       /\ \A t \in Watched : routed[t] # NoReading => LastReading(t)
  ELSE routed = NothingRouted

\* The invariant of the sketch: types, the library's own invariant, readings
\* under way, and outputs that follow.
ActuatorInv == TypeOKA /\ LinkKept /\ SocketKept /\ InStep /\ ReadingsKept /\ OutputsFollow

\* After the last fault the actuator gets its session back and keeps it.
SessionComesBack == <>[](session /\ state = "CONNECTED")

\* A temperature the broker has routed reaches the motor, unless a newer one
\* or the end of the connection overtakes it.
ReadingTakesEffect ==
  \A v \in Values :
    routed["temperature"] = v ~> motor = (v >= 270) \/ routed["temperature"] # v

\* A client that is connected again has subscribed again.
Resubscribed ==
  pc = "loopRun" /\ call = "idle" /\ session /\ state = "CONNECTED" /\ up = <<>>
    => \A t \in Topics : <<t, 0>> \in subs

=============================================================================

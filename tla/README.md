# Formal model of the HW and AES projects

The repository holds two course projects: a drinks vending machine in VHDL
(`src/HW Project`) and an IoT system (`src/AES Project`) in which a sensor board
publishes temperature and humidity over MQTT and an actuator board drives a
motor and an RGB lamp from them. Neither has a written specification; the
reference is the code, its comments and its testbenches. The libraries the boards
run on are in the repository and are modelled with them.

## 1. Inventory

### Vending machine (VHDL)

| Part | State | Operations | Correct when |
|---|---|---|---|
| `VendingMachineV4 Final.vhd` state memory, 43-54 | `currentState` | loads `nextState` when `secDealy = 50000000`; asynchronous reset | it changes at most once per period |
| next-state logic, 60-107 | latch `nextState` (unassigned in `s60`) | combinational | credit follows the coins; `s60` is left |
| output logic, 112-214 | latches `LED_s20`, `LED_s40` | Mealy outputs | what is handed out is paid for; lamps tell the credit |
| `Refresh`, 218-229 | `refresh_counter`, `secDealy`, `fiveSecDelay` | count, wrap, reset | the matches recur with the same spacing |
| display, 231-319 | none (reads the counter) | one digit at a time | letter and price are those of the drink |
| `IntegratedFinalVM.vhd`, `VendingMIntegrated.vhd` | three states, one counter | moves at every edge | coins pay for coffees |
| `VendingM.vhd`, lab versions | three to five states | earlier versions | as above |
| BCD adders and filters | none | combinational arithmetic | equal to decimal addition |
| flip-flops, clock divider, exercises | one bit each | — | — |

The parts of the machine interact through signals: the registers move together
on a clock edge, the combinational processes react to registers and to four
switches that are asynchronous to the clock. What is hard: the interleaving of
switches with ticks, the free-running counters, the inferred latches.

### IoT system (Arduino C++)

| Part | State | Operations | Correct when |
|---|---|---|---|
| `Arduino_Rec_Update.ino` (actuator) | motor and LED pins | `setup`, `loop`, `callback` | outputs follow the last readings, the board recovers |
| `PubSubClient.cpp` | `_state`, `pingOutstanding`, activity times, buffer | `connect`, `loop`, `publish`, `subscribe`, `disconnect` | the session is kept, lost connections are found, no call hangs |
| `Publisher.ino` (sensor) | `previousMillis` | `setup`, `loop` | a round per interval, of one sample; a lost WiFi is joined again |
| `MqttClient.cpp` (the sensor's library) | `_rxState` and the other `_rx` fields, `_txPacketId`, times | `poll`, `parseMessage`, `read`, `beginMessage`, `endMessage`, `subscribe`, `connect` | framing kept, acknowledgements earned, success told is success |
| `DHT.cpp`, `DHT_U.cpp` | `data`, `_lastreadtime`, `_lastresult` | `begin`, `read`, conversions | what is reported was measured, and lately |
| `WiFi.cpp` | none | `begin`, `beginAP`, `scanNetworks` | they return, and not early without a decision |
| `WiFiClient.cpp`, `WiFiServer.cpp`, `WiFiSocketBuffer.cpp` | socket numbers, one buffer per number | `connect`, `connected`, `read`, `write`, `stop`, `available` | a connection's bytes once, in order, to its own client |
| `WiFiUdp.cpp` | `_sock`, `_parsed` | `begin`, `parsePacket`, `read`, `beginPacket`, `write` | no read mixes two datagrams |
| `spi_drv.cpp`, `server_drv.cpp`, `wifi_drv.cpp` | `initialized`, the handshake | one transaction per call | both ends agree what a transfer is |
| `Server.ino` | LED pins, `currentLine` | HTTP commands of one client at a time | lamps obey whole commands, every client is served |
| broker, WiFi firmware, sensor, network | — (outside the repository) | — | — |

Each board runs one thread. The concurrency is between the board, the WiFi
module behind SPI, the broker, the network and time: a call blocks in the middle
while packets arrive, connections die, the broker restarts and timers run.

`PROJECT.json` lists every component with its status, the ones that are not
modelled included, and the hazards at their lines.

## 2. Modules

| Module | Models | Uses |
|---|---|---|
| `VendingMachine` | V4 as synthesised: registers, latches, counters, switches, reset | — |
| `VendingPromise` | abstract: the credit protocol a customer relies on | — |
| `VendingLedger` | history of coins and dwell time, properties, refinement mapping | `VendingMachine`, instance of `VendingPromise` |
| `VendingDisplay` | `DisplayBCD` and `CallDisp`, the same in all versions | — |
| `VendingShown` | what the final machine shows | `VendingLedger`, `VendingDisplay` |
| `VendingProofs` | theorems and proofs | `VendingShown` |
| `VendingIntegrated` | the two earlier three-state machines | `VendingDisplay` |
| `BcdArithmetic` | decimal adders of the labs | — |
| `PubSubClient` | library, its TCP client, broker and network | — |
| `PubSubProofs` | lemmas: what each step of library, broker and network keeps | `PubSubClient` |
| `AnySketch` | the library under any caller; its properties | `PubSubClient` |
| `Actuator` | the actuator sketch over the library | `PubSubClient` |
| `SketchProofs` | theorems and proofs | `AnySketch`, `Actuator`, `PubSubProofs` |
| `MqttReceiver` | ArduinoMqttClient: bytes to packets to messages | — |
| `MqttReceiverProofs` | theorems and proofs | `MqttReceiver` |
| `MqttSession` | ArduinoMqttClient: calls, waits and keepalive | — |
| `MqttSessionProofs` | theorems and proofs | `MqttSession` |
| `WifiSocketBuffer` | the buffer of a socket, for clients, servers and UDP | — |
| `WifiSockets` | `WiFiClient`, `WiFiServer`, `WiFiSocketBuffer` | `WifiSocketBuffer` |
| `WifiUdp` | `WiFiUDP` | `WifiSocketBuffer` |
| `WifiSocketsProofs` | theorems and proofs | `WifiSockets`, `WifiUdp` |
| `NinaCommands` | what every function of the two drivers sends and accepts | — |
| `NinaSpi` | the SPI transaction between board and WiFi module | `NinaCommands` |
| `NinaSpiProofs` | theorems and proofs | `NinaSpi` |
| `WifiJoin` | the calls of `WiFiClass` that wait | — |
| `Publisher` | the sensor sketch | `WifiJoin` |
| `DhtSensor` | the sensor's driver | — |
| `LampServer` | the web server sketch | — |
| `Devices` | the smaller devices, each on its own | `Publisher`, `VendingIntegrated`; instances of `DhtSensor`, `LampServer`, `BcdArithmetic` |
| `DevicesProofs` | theorems and proofs | `Devices` |
| `MCVending`, `MCAnySketch`, `MCActuator`, `MCMqttReceiver`, `MCMqttSession`, `MCNinaSpi`, `MCDevices` | TLC instances | one module each |
| `MCSockets` | clients, server and UDP in one run | `WifiSockets`, `WifiUdp` |

`MCSockets` tells the sketch of a behaviour by the variable `setting` of
`WifiSockets` (what it uses, whether handshakes are slow, the number of sockets and
the bounds); a sketch that uses neither client nor server is that of the UDP
socket. In `Devices` `device` says which device a behaviour is about: the sensor
sketch, the waiting calls by themselves, the DHT driver, the web server, an earlier
machine or the adders. Both never change, and the parts a behaviour is not about keep
a first state. A property of `Devices` is a conjunction of properties that the modules
of the devices state, each with its comment. Assumptions of a module used through
`INSTANCE` are plain definitions, which `DevicesAssumption` states.

### The final machine: VendingMachine, VendingLedger, VendingShown

`MoveSwitch`, `AssertReset`, `ReleaseReset` and `ClockEdge` are the four things
that can happen to the circuit. Each ends with `Settle`: the combinational
processes run to the end and the latches keep what the code does not assign.
`ClockEdge` is the rising edge of both clocked processes at once; `Tick` is the
comparison of line 49. `Output...` are records of the four outputs per state.

The model follows the hardware, not a simulator. `secDealy` and `fiveSecDelay`
are declared with an integer range, and a simulator stops with a range error
when they step past it (the testbench ends after about fifteen clocks, long
before). Synthesis builds 26- and 28-bit registers that wrap, and that is what
runs on the board. Metastability and glitches are not modelled. The sensitivity
lists of `Next_State_Process` and `DisplayBCD` lack signals; hardware ignores the
lists.

`VendingPromise` knows credit, switches and reset only. `VendingLedger!Promise`
states that the circuit, with counters and latches projected away, takes only
steps of that protocol; `PromiseKept` adds the protocol's fairness.
`VendingShown` puts the outputs on the digits: `Turn` is the set of digit and
glyph pairs one turn of `Refresh_counter` lights, and `DigitTicks` stands for the
2^17 edges a digit has.

### Earlier machine and adders: VendingIntegrated, BcdArithmetic

The earlier machine moves at every edge, and the two resets act on opposite
levels: `RaiseReset` clears the counter, `LowerReset` the state memory.
`guardsEveryCoin` tells the Xilinx version, whose outputs look at the switch of
the other coin as well, from the one in `VM project`; it never changes. `coins` and `sold` are
history. `BcdArithmetic` writes the adders as operators and compares them with
decimal addition over all 256 pairs of inputs.

### The actuator's side: PubSubClient, AnySketch, Actuator

A call of the library that cannot block is one action. `connect()` and `loop()`
are split where they wait, and nowhere else: `call` says where a call stands
(`tcp`: inside `WiFiClient::connect`; `connack`: waiting for the first byte of
the answer; `connackBody`, `loopBody`: inside `readPacket`). A packet crosses
the network as two units, its first bytes and the rest, so that `readPacket`
can be caught in the middle and, after a timeout, be out of step with the
packets (`GarbageRead`). `millis()` differences are kept as ages that stop
growing at their bound: `inAge` is `millis() - lastInActivity`, `outAge`
`millis() - lastOutActivity`, `waitAge` the wait of the running `readByte`.

The broker answers CONNECT, SUBSCRIBE and PINGREQ, routes messages of others, may
refuse the credentials, crash and restart, and expires a session silent for 1.5
keepalive intervals; the path may die without either end noticing (`LinkCut`).
On an intact link what is sent arrives within `Latency`. Data read out of step
can be any bytes; the model lets them be an ignored packet, a PINGRESP, a message
to acknowledge, a longer packet or a length that closes the connection. It does
not follow them into the buffer or into a callback.

`AnySketch` is any order of the library's operations, with `loop()` called at
least once per time unit (`Passes` requires `ran`), which is what the library
asks of its caller. `deadAge` is history: how long the connection has been dead.

In `Actuator` `pc` is the place in `setup()` and `loop()`; the waits for WiFi, for
the connection and in `delay(2000)` are places where time passes. `GoOn` is a
library step together with `callback()` when the step completes a message: the
callback runs before `loop()` returns. Readings are tenths, and `Atoi` drops the
decimals the publisher printed. The WiFi module rejoins the network by itself
(the sketch never calls `WiFi.begin()` again); a loss of WiFi takes the TCP
connection with it. `BrokerExpire` is left out here, because run `client` shows
that a caller of this kind never lets a session expire. `routed` is history: the
last reading of each of the two topics `callback()` acts on that the broker sent
on this connection.

### The sensor's side: MqttReceiver, MqttSession, DhtSensor, WifiJoin, Publisher

`MqttReceiver` is `poll()` byte by byte. Packets of the broker are sequences of
bytes, each with the number of its packet and its place in it (history), and the
bytes arrive in pieces of any size. One action per `case` of the switch on
`_rxState`; the callback is a place inside `poll()` (`call = "callback"`) where the
sketch may read. `listens` says whether the sketch gave one to `onMessage()`, and
never changes. The sketch may read some of a message or none, stop and connect
again. Malformed packets (wrong flags, a body too long) close the connection.

`MqttSession` abstracts from bytes: a step of `poll()` takes one packet. `call` is
the answer a blocking call waits for. A step of `WaitOn` is one turn of its loop,
`Answered` and `GivesUp` its two ends. The broker takes packets in order, answers,
may close; the path may be cut, and then writes succeed or fail. `n` numbers the
calls, so that `TrueMeansDone` can say which of them the broker carried out.
A streamed message is a header, a payload and a time in between. `setting` is the
network of a behaviour (timely or not) with its bounds and the number of packet
ids; it never changes, so that one run and one proof speak of both networks.

`DhtSensor` clocks in the forty bits of a frame with one bit wrong or the rest
missing, keeps the reading and subtracts `millis()` modulo `Wrap`. `WifiJoin`
counts time in questions. `Publisher` extends it: `CallBegin` and `WaitBegin` are
its `begin()`, `StartRound` to `CheckWifi` one pass of `loop()` in the code's order,
`Measures` the driver's cache between the two readings. Of the MQTT client it
takes what `MqttSession` shows: a message of quality 0 is written while the
connection stands and lost otherwise.

### The WiFi module: NinaCommands, NinaSpi, WifiSocketBuffer, WifiSockets, WifiUdp, LampServer

`NinaCommands` is the table of what each of about eighty driver functions sends
(parameters with their length fields, the last-parameter mark, padding) and what
answer it accepts; `PaddedCommands` pad to a multiple of four,
`UnpaddedCommands` do not. `NinaSpi` runs them: `at` is where the board stands
between the two selections, `module` where the firmware does, `ready` is the pin.
Bytes written are counted modulo 4, transactions have numbers that go round. The
firmware answers properly, reports an error, answers too little or the answer of
another command, or dies with its pin low.

`WifiSockets` works on the module's socket numbers: a `WiFiClient` is a number, and
so is the server's memory of its last client. The firmware gives out the lowest
free number, frees it when told to stop and when asked about a connection that is
over. `connected()` is two questions, and peers act between them. `WifiUdp` keeps
the datagrams in the module, the piece in the buffer, and `_parsed`. Both fetch by
`Filled` and `Left` of `WifiSocketBuffer`: an empty buffer takes what fits of the
module's bytes, one that is not empty takes nothing.

`LampServer` is the web server sketch over sockets that keep their promises; a
request is a sequence of tokens.

## 3. Runs

| Run | Specification | Properties | Shows |
|---|---|---|---|
| `vending` | `FairSpecL` | `MachineInv`, `Solvent`, `CountersInStep`, `DispenseWithinOneTurn`, `OneChangePerPeriod`, `Promise`, `SalesEnd`, `DisplayTellsSale` | safety of the machine, refinement of the credit protocol with its fairness, and a display that tells each sale |
| `vending_five_seconds` | `SpecL` | `CoffeeForFiveSeconds` | violation: s60 does not last `fiveSecDelay` |
| `client` | `FairSpecD` | `SessionInv`, `KeepaliveHolds`, `NoFalseTimeout`, `CallsReturn` | PubSubClient's keepalive and framing on a timely network with faults; no call hangs |
| `client_stall` | `SpecD` | `OneConnectPerSocket` | no second CONNECT on a connection, whatever times out |
| `actuator` | `SpecA` | `ActuatorInv` | motor and lamp follow the readings |
| `actuator_live` | `FairSpecA` | `SessionComesBack`, `ReadingTakesEffect` | the board recovers; readings reach the motor |
| `actuator_resubscribe` | `SpecA` | `Resubscribed` | violation: no subscription after a reconnect |
| `mqtt_receiver` | `FairSpec` | `ReceiverInv`, `AckIsEarned`, `BytesTaken` | the receiver keeps its framing and acknowledges what was read |
| `mqtt_session` | `FairSpec` | `StreamInv`, `KeepaliveHolds`, `TrueMeansDone`, `NoFalseStop`, `CallsReturn` | ArduinoMqttClient's calls tell the truth and return; keepalive in both directions |
| `nina_spi` | `FairSpecS` | `SpiInv`, `OwnReply`, `CommandIsWhole`, `CallsComeBack` | board and WiFi module agree on every transfer, for every command |
| `sockets` | `MCSpec` | `SocketsInv`, `ServerReturnsOwn`, `CallsReturn`, `ReadsOnePacket` | reused numbers and shared buffers mix up neither connections nor datagrams |
| `devices` | `FairDevicesSpec` | `DevicesInv`, `SalesInv`, `AddersAreRight`, `SensorKeepsPace`, `WifiIsJoined`, `ReadingIsTrue`, `LampsObey`, `NobodyKeepsTheServer` | the smaller devices, one after the other |

A property whose name ends in `Inv`, and a few others, are conjunctions of named
parts; each part has its own comment in the component's module. `CHECK_DEADLOCK
FALSE` stands in `devices` only: the web server halts without a WiFi module, the
sensor sketch without a broker, and the histories of the vending machine are bounded.

**Bounds of the machine.** The vending instance scales the counters (`SecMod` 4,
`FiveMod` 16) and keeps their shape: 2^28 is four times 2^26, so a turn of
`fiveSecDelay` holds four ticks, and the match at 250000000 falls shortly before
the last of them, as 13 falls before 14. `MaxPaid` 3 is enough for the three coins
of a coffee; `MaxDwell` exceeds a turn of the counter. A digit is lit for two
edges, so a turn of the display is a turn of `fiveSecDelay` long and both stand in
every relation. The proofs cover all widths. In `devices` a digit is lit for one
edge and up to two drinks of a kind are sold, which is six coins and two whole rounds of the three states.

**Bounds of PubSubClient.** `KeepAlive` is 4 because the broker's tolerance, half
an interval, has to cover a time unit of the caller and one of the network; at 15
seconds and milliseconds it does with room. `SocketTimeout` 3 exceeds a round
trip of 2; with less, `connect()` may time out every time. `client_stall` takes
`Latency` 2 over `SocketTimeout` 1, so every wait can be given up. One fault per
run ends a connection at every point of every call, and the caller reconnects
afterwards; the ages, not the number of faults, are what the properties depend
on. `MaxUnits` 4 lets two packets be under way and two be unread, so that a
PINGRESP can stand behind a message; the actuator runs use 2. `MaxUp` is the
number of packets under way to the broker. The readings 26.9, 50.5 and 61.0 take
every branch of `Motor` and `LED` and tell truncation from rounding. The safety run
of the actuator uses `KeepAlive` 2, since `OutputsFollow` does not depend on it.

**Bounds of ArduinoMqttClient.** In the receiver `Base` 4 stands for the 128 of the
remaining length, so that lengths of one and of two digits come up with packets
of a few bytes; two packets of any of nine kinds show every pair of neighbours;
payloads of 0 to 2 bytes are read in pieces of 1 or 2. Whole packets stay below
`Base` squared (16383 bytes in the code). The sketch without a callback
gets no empty messages, for the reason given below. In the session a unit is 30
seconds: `_connectionTimeout` 1, keepalive 2. Ids wrap behind 2 on the timely
network, so that 0 is skipped and an id comes round within four calls; behind 3
on the late one, where with fewer a late answer could be that of the same id (`Wide`, section 5).
One fault, and two packets that are late.

**Bounds of the WiFi module.** Names and payloads have 0, 1 or 3 bytes, whose sums
have every rest modulo 4; transaction numbers go round behind 2, which is enough to
tell a reply from its predecessor's; one bad answer or death. `sockets` has two
numbers (three for the server) instead of ten: with more than are in use at once
a number is reused no later. Buffers hold 2 bytes and peers send up to 3, so a
buffer is refilled in the middle of a connection; datagrams have 1, 2 and 5 bytes,
below, at and far above the buffer. `connect()`'s ten seconds are two turns.

**Bounds of the small devices.** Two questions of `begin()` and three of a scan; an
interval of two ticks for the sensor sketch and of two for its driver, `millis()`
wrapping every six, so that both are asked across a wrap. A DHT22 measures a warm and a frosty day; the bits that may go wrong are the
first, the sign, one of the temperature and the last of the sum. Two clients visit
the web server three times with four requests: a command with its page, a line
broken off behind `GET /`, a command without it in front, two commands without a page.

**What the bounds found.** With `KeepAlive` as short as a round trip plus a unit
`NoFalseTimeout` fails, because `loop()` compares the ping deadline before it
reads data that are already there (line 373 before line 388). At 15 seconds this
needs an answer that takes a whole interval.

**Fairness.** The oscillator never stops, so `ClockEdge` is weakly fair;
nothing is assumed of customers or of reset. In the client specifications a call
that can go on does, time passes, and packets on an intact link are carried and
answered. `FairSpecA` also assumes that the sketch runs, that the broker comes
back after a crash and that the firmware finds the WiFi again: without these no
board could recover. Faults are bounded by `MaxFailures`, so the liveness
properties speak of the time after the last fault. `mqtt_receiver`: the sketch
polls. `mqtt_session`: a call that waits goes on, time passes, the broker takes what
has come. `nina_spi`: the board goes on, and the firmware while it lives; a module
that never lowers its pin holds the board for ever, and nothing is said about it.
`sockets`: `connected()` goes on once called. `devices`: the sketches and waiting
calls run, time passes, a client of the web server sends what it has and leaves
when it has nothing more to send and nothing it sent is unread. The visits are
bounded, so weak fairness of "some client" is all that is needed.

**Dead peers.** PubSubClient's `DetectTime` is `2 * KeepAlive + 1 + SocketTimeout`:
just under one interval until the ping, one for its answer, and one `readByte`
that may have been running when the connection died. It is tight in the model. In
ArduinoMqttClient it is two intervals and a unit. `KeepaliveHolds` of `AnySketch` contains
`InTime`, the inductive invariant behind it (section 5).

## 4. Findings

1. `fiveSecDelay` runs from reset and is neither cleared nor started on entering
   `s60` (line 102), so a coffee is shown for the rest of the counter's turn. At
   100 MHz ticks fall at 0.50, 1.17, 1.84 and 2.51 s of a turn of 2.68 s and the
   match at 2.50 s: `s60` lasts between 0.67 and 2.68 s depending on when it was
   entered. `DispenseWithinOneTurn` is the guarantee that remains.
2. The actuator subscribes in `setup()` only. After any reconnect the session is
   clean and empty: `SessionComesBack` holds, and no reading ever arrives again.

What else was met while modelling. No run stands behind these; the properties are
stated around them, and the comments in the modules say where.

*Machine.* `s20` has no exit but a coin or reset; `s60` without a selection reports
`DispenseD` and returns everything; the branch at line 181 is shadowed by the one
at 163; a tea in `s40` can be switched on more than once before the tick; a euro
buys combinationally without a change of state. In the earlier machine a tee for
forty cents is sold at every edge until a third coin comes; `Reset` at the test
bench's level sets the state memory free and holds only the counter; its code for
a tee is the display's code for a coffee. `BCD_AdderV2` counts a binary carry
between its digits as ten: 9 + 9 gives 12.

*ArduinoMqttClient.* After a message without payload `parseMessage()` discards the
first byte of the next packet (line 119). A callback that reads its message to
the end has it acknowledged twice (603). `poll()` writes its ping between the
header and the payload of a streamed message (640).

*WiFiNINA.* `pinMode`, the two pin writes, the enterprise login and file writes do
not fill their transfer to a multiple of four (`UnpaddedCommands`). `getDataBuf`
reports the length asked for when the answer is refused. A failed `write()`
frees the socket in the module and keeps its number in the client; with two
clients `connected()` then answers for the other's connection. A server beside a
client may hand out the client's own connection. `connect()` forgets a socket
whose connection takes longer than the first turn of its loop. Bytes that come
between the two questions of `connected()` are thrown away if the peer has closed.
`WiFiUDP::stop()` leaves the count of the old datagram, and `write()` reports pieces
the module refused as taken.

*Sensor.* A DHT12 below zero keeps its sign bit in the number; a DHT11's events may
be one measurement at twice the pace of the cache; what is returned early after a
failure is the failure. The sensor sketch connects to the broker in `setup()` only:
after a lost MQTT connection it measures and publishes nothing
(`SensorKeepsPace` speaks of the time the connection stands).

## 5. Proofs

`VendingProofs` proves for every value of the constants that satisfies
`ClockAssumption` and `LedgerAssumption`:

- `TypeCorrect`, `MachineInvariant`, `LampsCorrect`, `AlwaysSolvent`;
- `ChangePace`: two changes of state are a period apart;
- `CountersStayInStep`: the counters keep their relation;
- `KeepsPromise`: the circuit refines the safety of the credit protocol.

`Solvent` is not inductive: that three sampled coins stand behind `s60` depends
on what `nextState` may hold. `MachineInv` adds `Settled` (the latch of
`nextState` holds the logic's value, in `s60` only `s60` or `idle`),
`CoinsSampled` (a coin behind each credited step) and the lamps; run `vending`
checks it on the small instance. `Settled` has to allow the latch to hold `s60`
from the moment of entry, which the lemma `SettleSettles` derives from `AfterS40`.
`ChangePace` needs `DwellCovers`, which relates dwell time to the distance from
the last match of `secDealy`, and `CountersStayInStep` rests on `WrapStep` and
`RemainderUnique` about wrapping counters of widths that divide.

`CoffeeWithinOneTurn` proves the bound that is left of the five seconds.
`DispensePhase`, part of `MachineInv`, makes it inductive: `s60` is entered at a tick,
so dwell time and ticks keep their phase, and while the latch of `nextState` holds
`s60` no match of `fiveSecDelay` has come by since the entry. A turn of the counter
brings one, and a tick comes behind it before the turn is over.

`SaleIsShown` is `DisplayTellsSale` without its liveness. What is lit is a function of
state and switches: two activations share a digit only where they show the same value
(`OneGlyph`), so the glyph at a digit is that of its activation (`GlyphAt`), and drink,
price and change are compared for the four sets of drinks. That a digit stays lit for
`DigitTicks` edges is arithmetic of the counter (`QuotientStays`).

`PubSubProofs` proves of each step of the library, the network and the broker that
it keeps two inductive invariants; `SketchProofs` puts the steps together for any
caller and for the actuator's sketch.

- `Sound` (types, `LinkKept`, `SocketKept`) needs no assumption on time. It contains
  that CONNECT is the first packet on a connection, from which `OneConnect` follows:
  `OneConnectPerSocket` alone says nothing of a call in progress.
- `InStep` says where the two ends stand to each other. `InPairs`: what `readPacket`
  holds, what is unread and what is under way are whole packets in order.
  `WaitedFor`: the wait of `readByte` is no longer than what it waits for has been
  under way. `Accepted`: without a session there is nothing but a refusal.
  `PingTruth`: a ping or its answer is under way exactly when `pingOutstanding` says
  so; the broker's handling of a ping turns one into the other.

- `InTime`, for `KeepaliveHolds` and `NoFalseTimeout`, keeps account of the ages; neither
  property is inductive, since a limit of the broker's or the caller's says nothing of
  what is on its way. `RanLately`: behind `loop()` neither activity time exceeds the
  interval. `Heard`: what the broker last heard is as old as `lastOutActivity` when
  nothing is on its way to it, and otherwise as the packet on its way allows. `Dying`: a
  dead connection first runs out of received packets, one per time unit, then of an
  interval until the ping is due, then of another for the answer. `PingInTime`: the time
  since a ping is that of its request under way, or of its answer (`Due`), which every
  call of `loop()` brings one packet nearer.

`KeepaliveKept` and `TimeoutsAreTrue` say under which conditions on the times this is
enough; the instance of run `client` meets all of them:

- `PromptPings`: half an interval covers one time unit of the caller (or a wait of
  `readByte` for the rest of a packet) and one way to the broker. At 15 seconds the
  broker's tolerance is 7.5 seconds.
- `ShortBacklog`: what may be received and not read is read within the socket timeout
  and within an interval, since `loop()` takes one packet per call and each moves
  `lastInActivity`, also of a connection that is dead.
- `PromptAnswers`: an interval covers the way there and back and the reading of the
  packets that may stand before the answer, since `loop()` looks at the deadline
  (line 373) before it reads (line 388).

They are not stronger than the code needs. With `KeepAlive` 3 instead of 4 in the
instance of run `client` both `BrokerHearsInTime` and `NoFalseTimeout` fail; with a backlog as
long as the socket timeout, or longer than the interval, `DetectTime` is exceeded.

`SessionHolds`, `ActuatorSafe` and these two have `Prompt` as a hypothesis: what is sent on an
intact link arrives within the socket timeout (15 seconds in the code). It is
needed: with `Latency` above `SocketTimeout`, as in run `client_stall`, `readPacket`
gives up in the middle of a packet and takes the rest for a header. It is used in
one place, `LoopBodyTimeout` and its like, where `WaitedFor` turns a wait that has
run out into a lost connection.

`OutputsFollow` speaks of an empty stream only. `ReadingsKept` says what holds before:
the last reading of a topic that the broker has sent is the last of that topic in
the stream, or there is none in the stream and it has been obeyed.

`NinaSpiProofs` proves under `SizesAssumption` and `SpiAssumption`, for any set of
commands in use and of payload sizes:

- `HandshakeHolds`, with `ReplyIsOwn` inductive beside it: transaction numbers are
  history, and the invariant says at every place of the board what the module and
  the pin may be;
- `CommandsWhole`: `Progress` counts the parameters written, and that each of the
  commands fills its words is proved from the table of `NinaCommands`, group by group.

`MqttReceiverProofs` proves under `ReceiverAssumption` (lengths of one or two digits),
for any payloads, sizes of `read()` and number of packets:

- `ReceiverHolds`: `Aligned` and `LengthIsTrue`. Neither is inductive. `StreamKept` says
  that what has been sent and not taken is whole packets in order, each byte with the
  value its place gives it; `InPlace` that the next byte is the one the receiver takes
  it for, with `Left` as the number the fields leave of the packet; `FieldsTrue` and
  `MessageTrue` that the fields say of the packet what its bytes said. Hence a packet is
  refused for what it says itself, never for bytes of another. `Over` is the state behind a close,
  which `poll()` and `connect()` leave with `READ_TYPE`.
- `AcksAreEarned`: `got` grows only while it is below the payload, so no message is
  acknowledged before its last byte, nor again behind it. With a callback `AckedOnce`
  fails: a message read to its end in the callback is acknowledged by `read()` and once
  more behind the callback.

The digits of the remaining length (`DigitValues`) and the layout of a packet
(`BodyIs`, `ByteOf`) are lemmas; `Advance`, `Suffix`, `Prefix` and `Extended` say what taking,
losing and adding bytes does to a stream in order.

`MqttSessionProofs` proves under `SessionAssumption` (a keepalive interval of at least two
units, a timeout of at least one), for any settings and faults:

- `StreamsHold`. That a header is followed by its payload is not inductive: `Framed` adds
  that a header with only pings behind it belongs to the stream that is open, `Calling`
  that nothing else is sent while one is, and `Dark` that a broken path holds no packets.
- `KeepaliveIsKept` and `LivingIsKept`. `Heard` is the account behind both: on a timely
  network neither silence exceeds the time since the last ping unless a ping, or its
  answer, is under way, and a poll in this unit has sent the ping that was due. `Silence`
  follows a client that nobody answers from its last ping to the end of the second
  interval; `Unended` says why time may pass over a header that cannot be answered yet.
- `TrueIsDone`, with `Wide` as its hypothesis about the setting: at least three packet
  ids, and on a network that may be late two more than packets under way when time goes
  on. Every answer carries an id and the client compares it with the last one it gave, so
  the statement is about ids that come round. `Gap` is how many ids ago an id was given.
  `Lined` says that answers, then requests, are in the order of their ids without a gap:
  each id given since the oldest of them belongs to one of them. As many packets as gaps
  (`Pigeons`) then bound the age of the oldest whenever time goes on, and a call that
  times out has let time go on; `Oldest` is the bound in between, one more for a call that
  has not waited yet and one for what a broken path left unread. So `NextId` is never the id
  of a packet under way (`NearNext`). `OwnTrue` says what the answers with that id mean:
  the call is done, or its subscription is refused, and PUBREL stands behind its message.

`Wide` leaves one id of room, for a connection that breaks. A hypothesis of this kind is
needed: with two ids and two packets that may be late, and four calls, TLC finds an acknowledgement
taken for that of a later packet with the same id. The code has 65535 ids. Run
`mqtt_session` meets `Wide` on the late network; on the timely one its ids wrap earlier
than `Wide` allows, and the property still holds.

`WifiSocketsProofs` proves under `SocketsAssumption`, `BufferAssumption` and
`UdpAssumption`, for any number of sockets up to 255 and any sizes of buffer, stream
and datagram:

- `SocketsHold`, for a sketch with one client and no server (`Alone`; with two, section 4
  tells what goes wrong). What a client reads is its own, once and in order, although the
  buffer belongs to the number and not to the connection. `ReadInOrder` speaks of the
  last read only. `ClientInv` adds what makes the next one right: `Unserved` (a sketch
  that only connects has no server and no accepted connection), `Emptied` (the buffer of
  a number no client holds is empty, so that nothing of an old connection is read under
  a new one), and `Owed`: the buffer and the module's queue of a number, one behind
  the other, are the bytes of one connection, numbered from the one due, and that
  connection is the one its client was given (`Owes`). `Filling` says that a fetch
  moves bytes from queue to buffer and leaves that stream as it is. `Accounted` is for
  `FailedConnectIsOver`: where handshakes are over when `connect()` first asks, every
  connection in the module is under a number that a client holds. On a slow one it is
  false, as section 4 tells, and so is `FailedConnectIsOver`.
- `ServerHolds`. `Accepted` says that all connections, and all bytes in queues and
  buffers, are of clients that connected to the server. Its hypothesis `Separate`, that no
  sketch both connects and is a server, is needed: the server keeps the number of its
  last client after the module has given it to another, and hands out whatever
  connection has it now. If that is one the sketch has made itself, it never
  connected to the server.
- `UdpHolds`. `ParsedIsRest` needs the end of a datagram: that `parsePacket()`, which
  discards `_parsed` bytes in fetches of a whole buffer, discards all of it and nothing
  of the next (`NothingLeft`, from `RoundsUp` about rounding up to whole buffers), and
  that `_parsed` is exactly what buffer and module still hold. `Follows` says that these bytes come in order behind
  what has been read.

`DevicesProofs` proves of the smaller devices, under `JoinAssumption`,
`PublisherAssumption`, `IntegratedAssumption` and `DevicesAssumption`. Each device has an
inductive invariant of its own; a step of `Devices` is one of each device or none
(`StepOfEach`), so `AllInv` is their conjunction.

- `DevicesHold`. `WaitInv` counts the questions of a call that waits: it has not had
  them all, so what is undecided when it returns is late. `SketchInv` is for the rounds
  of the sensor sketch: what was read first is what the sensor holds until the second
  reading, because no time passes in between and the driver answers from its cache.
- `RoundsHoldPace`: `now - previous`, taken modulo `Wrap`, is at most the time that
  really passed since the last round (also at the first, when `previous` is no time
  at all), so an interval on the clock is at least one in time. It is more when the
  clock has come round in between.
- `ReadingsHold`. `DhtInv`: as long as the last result is good the bytes kept are the frame
  sent, since no single wrong bit passes the sum (`FlipIsFound`: no weight of a bit is
  a multiple of 256); and the clock tells how long ago that was, or, behind
  `begin()`, that the next reading is due (`Elapsed`, `TickLater`). Time between two
  readings is bounded by `MaxPause`, below a turn of the clock: after 49 days without
  one the driver would take an old value for a new one. `InRange` alone has
  `MeasuresInRange` as a hypothesis: of a DHT12 below zero, or a sensor that
  measures beyond its range, it is false.
- `LampsHold`. `LampInv`: the line is the end of what the client that is served sent, behind
  a line end or from the start, and nothing has been taken of a client that is there
  and not served. So a new client starts with an empty line of its own.
- `SalesHold`, and `SalesKept` of the machines by themselves: with the types `CoffeeIsPaid`
  is inductive, since `s40` sends a coffee out on a coin only (`CoffeeTakesACoin`), which
  is the third. Every code of a drink lights a letter.
- `AddersHold`, by the decimal digits `BCD_Filter` makes of a nibble (`Filtered`).

Only model-checked:

- liveness, since fairness and ENABLED are out of the prover's reach: `SalesEnd`,
  `EveryDigitIsLit` of `DisplayTellsSale`, `CallsReturn`, `SessionComesBack`,
  `ReadingTakesEffect`, `BytesTaken`, `CallsComeBack`, `KeepsPublishing` of
  `SensorKeepsPace`, `WifiIsJoined`, `NobodyKeepsTheServer`.

Every safety property of the passing runs is proved, under the hypotheses named above.

## 6. Not modelled

- PubSubClient: `beginPublish`/`endPublish`, `publish_P`, `unsubscribe` and the
  Stream variant, which no sketch uses.
- ArduinoMqttClient: wills, the setters, the limit of the transmit buffer, calls
  made from the callback.
- WiFiNINA: TLS, `flush`, address queries, `WiFiServer::write`, what the driver
  functions do with the data they get, and the interrupt pin that lets a read be
  skipped.
- The firmware of the WiFi module, the broker and the sensor are external: modelled
  from what the code expects of them.
- The DHT's pulse timing (a bit is right, wrong or missing) and the heat index.
- The BCD decoder and the display versions of the adders, the flip-flops and lab
  exercises (a few lines each), the state machines of the update and the labs,
  which are earlier versions of those modelled, and the sketches the final
  submission superseded.
- Memory layout, such as the terminator `callback()` writes behind a payload.
- Generated files: KiCad, Xilinx, ModelSim.

## 7. Plan

In order of importance:

1. `Pipeline`: publisher, broker and actuator composed; a reading taken reaches
   the motor or is superseded; what each fault may lose.
2. Abstract specifications: a call of `MqttSession` as one atomic exchange with the
   broker, a connection of `WifiSockets` as a queue, with the refinements.
3. `VendingMachine_FSM` of the labs, with its four coin states.

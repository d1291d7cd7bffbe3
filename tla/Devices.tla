------------------------------- MODULE Devices -------------------------------
(***************************************************************************)
(* The smaller devices, each on its own: the sensor sketch, the calls of   *)
(* WiFiClass that wait, the driver of a DHT sensor, the web server of the  *)
(* lamp, the earlier vending machines and the adders of the labs.  A       *)
(* behaviour is about one of them; the others rest in a first state.       *)
(***************************************************************************)
EXTENDS Publisher, VendingIntegrated

CONSTANTS Type, Frames, MinInterval, Faults, MaxPause,   \* of the DHT sensor
          Clients, Requests, MaxVisits                   \* of the web server

VARIABLES device,   \* which of them: it never changes
          dhtNow, lastTime, lastResult, data, begun, age, sent, result,
          lampPc, client, currentLine, lamps, open, unsent, unread, taken, answered, visits,
          A, B

Dht == INSTANCE DhtSensor WITH now <- dhtNow
Lamp == INSTANCE LampServer WITH pc <- lampPc
Adders == INSTANCE BcdArithmetic

ASSUME DevicesAssumption == Dht!DhtAssumption /\ Lamp!ServerAssumption

dhtVars == <<dhtNow, lastTime, lastResult, data, begun, age, sent, result>>
lampVars == <<lampPc, client, currentLine, lamps, open, unsent, unread, taken, answered, visits>>
machineVars == <<guardsEveryCoin, Reset, high, currentState, Refresh_counter, coins, sold>>
adderVars == <<A, B>>
devicesVars == <<device, joinVars, sketchVars, dhtVars, lampVars, machineVars, adderVars>>

DeviceNames == {"sensor", "wifi", "dht", "lamp", "machine", "adders"}

\* A device that rests has one of its first states.
DevicesInit ==
  /\ device \in DeviceNames
  /\ InitP /\ (device # "sensor" => now = 0 /\ broker)
  /\ Dht!Init /\ (device # "dht" => dhtNow = 0 /\ sent = CHOOSE f \in Frames : TRUE)
  /\ Lamp!Init /\ (device # "lamp" => client = CHOOSE c \in Clients : TRUE)
  /\ Init /\ (device # "machine" => ~ guardsEveryCoin /\ ~ Reset /\ high = {})
  /\ Adders!Init /\ (device # "adders" => A = 0 /\ B = 0)

\* A step of one device, the others at rest.
Only(d) ==
  /\ device = d /\ UNCHANGED device
  /\ d \notin {"sensor", "wifi"} => UNCHANGED joinVars
  /\ d # "sensor" => UNCHANGED sketchVars
  /\ d # "dht" => UNCHANGED dhtVars
  /\ d # "lamp" => UNCHANGED lampVars
  /\ d # "machine" => UNCHANGED machineVars
  /\ d # "adders" => UNCHANGED adderVars

DevicesNext ==
  \/ Only("sensor") /\ NextP
  \/ Only("wifi") /\ JoinNext
  \/ Only("dht") /\ Dht!Next
  \/ Only("lamp") /\ Lamp!Next
  \/ Only("machine") /\ Next
  \/ Only("adders") /\ Adders!Apply

DevicesSpec == DevicesInit /\ [][DevicesNext]_devicesVars

\* What goes on by itself: the sketches and the waiting calls; time; and the
\* clients of the web server, which send all they have and in the end leave.
\* (Their visits are bounded: it is enough that some client goes on.)
Runs == \/ Only("sensor") /\ Sketch
        \/ Only("wifi") /\ (AskStatus \/ AskNetworks)
        \/ Only("lamp") /\ Lamp!Sketch
TimePasses == (Only("sensor") /\ Tick) \/ (Only("lamp") /\ \E c \in Clients : Lamp!Send(c))
Leaves == Only("lamp") /\ \E c \in Clients : /\ unsent[c] = <<>> /\ unread[c] = <<>>
                                             /\ Lamp!Leave(c)

FairDevicesSpec ==
  DevicesSpec /\ WF_devicesVars(Runs) /\ WF_devicesVars(TimePasses) /\ WF_devicesVars(Leaves)

-----------------------------------------------------------------------------
(* Types, of the sensor sketch, the web server and the machines; the three *)
(* messages of a round are of one correct measurement; and begin(),        *)
(* beginAP() and scanNetworks() return undecided only when late.           *)
DevicesInv ==
  TypeOKP /\ Lamp!TypeOK /\ TypeOK /\ RoundIsOneSample /\ UndecidedMeansLate

(* Rounds stay an interval apart, however long the sketch was kept joining,*)
(* and while the connection stands messages reach the broker again and     *)
(* again.                                                                  *)
SensorKeepsPace == NoBurst /\ KeepsPublishing

(* begin(), beginAP() and scanNetworks() return; and the sensor sketch     *)
(* calls begin() again when the WiFi is lost.                              *)
WifiIsJoined == JoinsReturn /\ LostWifiIsRejoined

(* A value that is reported was measured, two seconds ago at most, and is  *)
(* in the sensor's range; the first reading after begin() asks the sensor. *)
ReadingIsTrue == /\ [](Dht!OnlyWhatWasMeasured /\ Dht!FreshEnough /\ Dht!InRange)
                 /\ Dht!FirstReadingIsDue

(* A lamp changes only for a command one client sent whole.                *)
LampsObey == Lamp!LampsObey

(* No client keeps the web server from the others.                         *)
NobodyKeepsTheServer == Lamp!NobodyKeepsTheServer

(* Coffees and credit of the earlier machines have coins behind them;      *)
(* their display gives no digit two glyphs, and a sale lights a letter.    *)
SalesInv == CoffeeIsPaid /\ LegibleSale

(* The adders agree with decimal addition where no binary carry comes      *)
(* between: BCD_Adder's digit and its carry below sixteen, and             *)
(* BCD_AdderV2's sum.                                                      *)
AddersAreRight == Adders!DigitIsRight /\ Adders!SumIsRight
=============================================================================

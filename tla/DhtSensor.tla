------------------------------ MODULE DhtSensor ------------------------------
(***************************************************************************)
(* The DHT driver: a reading is forty bits clocked in by the sensor, four  *)
(* bytes and their sum; it is kept for two seconds, as is a failure.  The  *)
(* unified driver on top of it wraps a reading in an event with a time and *)
(* publishes the range and the shortest delay of the sensor.  The sensor   *)
(* is external; temperatures are in tenths of a degree, time in seconds.   *)
(***************************************************************************)
EXTENDS Integers, Sequences, FiniteSetsExt

CONSTANTS Type,         \* DHT11, DHT12, DHT21 or DHT22
          Frames,       \* what the sensor may measure: its first four bytes
          MinInterval,  \* MIN_INTERVAL
          Faults,       \* bits of the forty that may go wrong
          Wrap,         \* millis() counts modulo Wrap
          MaxPause      \* bound: longest time between two readings

DhtAssumption ==
    /\ Type \in {"DHT11", "DHT12", "DHT21", "DHT22"}
    /\ Frames \subseteq [1 .. 4 -> 0 .. 255]
    /\ Faults \subseteq 0 .. 39
    /\ MinInterval \in Nat \ {0} /\ Wrap \in Nat /\ MaxPause \in Nat
    /\ MinInterval <= MaxPause /\ MaxPause + MinInterval < Wrap

VARIABLES now,         \* millis()
          lastTime,    \* _lastreadtime
          lastResult,  \* _lastresult
          data,        \* data
          begun,       \* history: what was called last: nothing, begin() or a reading
          age,         \* history: time since the sensor was asked last
          sent,        \* history: what it measured then
          result       \* history: the last answer

vars == <<now, lastTime, lastResult, data, begun, age, sent, result>>

Zeros == [i \in 1 .. 5 |-> 0]
NoResult == [of |-> "none", ok |-> FALSE, value |-> 0, cached |-> FALSE, pause |-> 0]
Init ==
    /\ now \in 0 .. Wrap - 1 /\ lastTime = 0 /\ lastResult = FALSE /\ data = Zeros
    /\ begun = "no" /\ age = MaxPause /\ sent \in Frames /\ result = NoResult

(* begin(): the first reading is due at once.                              *)
(* (a bug to be caught: it is due in two seconds)                          *)
BeginAtNow == now
BeginAt == (now - MinInterval) % Wrap
Begin == /\ lastTime' = BeginAt /\ begun' = "begin"
         /\ UNCHANGED <<now, lastResult, data, age, sent, result>>

-----------------------------------------------------------------------------
(* read()                                                                  *)

(* (a bug to be caught: a reading is kept one tick too long)               *)
CachedLonger == (now - lastTime) % Wrap <= MinInterval
Cached == (now - lastTime) % Wrap < MinInterval

Sum(d) == (d[1] + d[2] + d[3] + d[4]) % 256
Frame(f) == [i \in 1 .. 5 |-> IF i = 5 THEN Sum(f) ELSE f[i]]

(* The bits that arrive: all; all but one right; or only the first n, then *)
(* a pulse does not come.  Bit n stands in byte n \div 8 + 1.              *)
Bit(n) == <<128, 64, 32, 16, 8, 4, 2, 1>>[(n % 8) + 1]
Flipped(f, n) ==
    [f EXCEPT ![n \div 8 + 1] = IF (@ \div Bit(n)) % 2 = 0 THEN @ + Bit(n) ELSE @ - Bit(n)]
Cut(f, n) == [i \in 1 .. 5 |-> IF i <= n \div 8 THEN f[i]
                               ELSE IF i = n \div 8 + 1 THEN f[i] \div (2 * Bit(n)) ELSE 0]

(* (a bug to be caught: the sum is not compared)                           *)
SumMatchesAlways(d) == TRUE
SumMatches(d) == d[5] = Sum(d)
Receptions(f) ==
    {[data |-> d, ok |-> SumMatches(d)] : d \in {f} \cup {Flipped(f, n) : n \in Faults}}
        \cup {[data |-> Cut(f, n), ok |-> FALSE] : n \in Faults}

-----------------------------------------------------------------------------
(* readTemperature()                                                       *)

(* (a bug to be caught: the sign is left in the number)                    *)
Magnitude22Signed(d) == d[3] * 256 + d[4]
Magnitude22(d) == (d[3] % 128) * 256 + d[4]
Temperature(d) ==
    CASE Type = "DHT11" -> 10 * (IF d[4] >= 128 THEN -1 - d[3] ELSE d[3]) + (d[4] % 16)
      [] Type = "DHT12" -> (IF d[3] >= 128 THEN -1 ELSE 1) * (10 * d[3] + (d[4] % 16))
      [] OTHER          -> (IF d[3] >= 128 THEN -1 ELSE 1) * Magnitude22(d)
Humidity(d) == IF Type \in {"DHT11", "DHT12"} THEN 10 * d[1] + d[2] ELSE 256 * d[1] + d[2]

Value(quantity, d) == IF quantity = "temperature" THEN Temperature(d) ELSE Humidity(d)

(* readTemperature() or readHumidity(): from the bytes kept, or new ones.  *)
Answer(ok, d, cached, quantity) ==
    result' = [of |-> quantity, ok |-> ok, value |-> IF ok THEN Value(quantity, d) ELSE 0,
               cached |-> cached, pause |-> age]
Read(force, quantity) ==
    /\ begun # "no" /\ begun' = "read"
    /\ IF Cached /\ ~ force
       THEN /\ Answer(lastResult, data, TRUE, quantity)
            /\ UNCHANGED <<lastTime, lastResult, data, age, sent>>
       ELSE /\ lastTime' = now /\ age' = 0
            /\ \E f \in Frames : \E r \in Receptions(Frame(f)) :
                 /\ sent' = f /\ data' = r.data /\ lastResult' = r.ok
                 /\ Answer(r.ok, r.data, FALSE, quantity)
    /\ UNCHANGED now

(* getEvent() of the two sensors reads without force, always says TRUE and *)
(* stamps what it got with the time of the call.                           *)
ReadTemperature(force) == Read(force, "temperature")
ReadHumidity(force) == Read(force, "humidity")

(* getSensor()                                                             *)
LowestValue == CASE Type = "DHT11" -> 0 [] Type = "DHT12" -> -200 [] OTHER -> -400
HighestValue == CASE Type = "DHT11" -> 500 [] Type = "DHT12" -> 600
                  [] Type = "DHT21" -> 800 [] OTHER -> 1250

Tick == /\ age < MaxPause
        /\ now' = (now + 1) % Wrap /\ age' = age + 1
        /\ UNCHANGED <<lastTime, lastResult, data, begun, sent, result>>

Next == Begin \/ Tick \/ \E force \in BOOLEAN : ReadTemperature(force) \/ ReadHumidity(force)
Spec == Init /\ [][Next]_vars

-----------------------------------------------------------------------------
(* No value but the one the sensor measured is ever reported: a pulse that *)
(* is missing or misread is found, now and as long as the reading is kept. *)
OnlyWhatWasMeasured ==
    result.ok => result.value = Value(result.of, Frame(sent))

(* A value that is reported was measured less than two seconds ago, also   *)
(* when millis() has wrapped in between.                                   *)
FreshEnough == result.cached => result.pause < MinInterval

(* After begin() the first reading asks the sensor, whatever millis() says. *)
FirstReadingIsDue == [][begun = "begin" /\ begun' = "read" => ~ result'.cached]_vars

(* Temperatures are in the range the unified driver publishes.             *)
InRange == result.ok /\ result.of = "temperature"
              => result.value \in LowestValue .. HighestValue
=============================================================================

---------------------------- MODULE DevicesProofs ----------------------------
(***************************************************************************)
(* What the smaller devices keep, for all values of their constants: the   *)
(* calls that wait for the WiFi and the sensor sketch above them, the      *)
(* driver of the DHT sensor over its wrapping clock, the web server's      *)
(* lines and lamps, and the earlier vending machines.  Each part is proved *)
(* of the device on its own; the theorems about DevicesSpec are at the end.*)
(***************************************************************************)
EXTENDS Devices, Integers, TLAPS

-----------------------------------------------------------------------------
(* Clocks that wrap                                                        *)

LEMMA Remainder ==
  ASSUME NEW m \in Nat \ {0}, NEW q \in Int, NEW r \in 0 .. m - 1
  PROVE  (q * m + r) % m = r
OBVIOUS

LEMMA Small ==
  ASSUME NEW m \in Nat \ {0}, NEW r \in 0 .. m - 1
  PROVE  r % m = r
OBVIOUS

\* The time from b to a, of a clock that wraps behind m - 1.
LEMMA Elapsed ==
  ASSUME NEW m \in Nat \ {0}, NEW a \in 0 .. m - 1, NEW b \in 0 .. m - 1
  PROVE  (a - b) % m = IF b <= a THEN a - b ELSE a - b + m
<1>1. CASE b <= a
  <2>1. a - b \in 0 .. m - 1 /\ 0 * m + (a - b) = a - b
    BY <1>1
  <2>2. (0 * m + (a - b)) % m = a - b
    BY <2>1, Remainder
  <2> QED BY <1>1, <2>1, <2>2
<1>2. CASE ~ (b <= a)
  <2>1. a - b + m \in 0 .. m - 1 /\ (-1) * m + (a - b + m) = a - b
    BY <1>2
  <2>2. ((-1) * m + (a - b + m)) % m = a - b + m
    BY <2>1, Remainder
  <2> QED BY <1>2, <2>1, <2>2
<1> QED BY <1>1, <1>2

\* One tick.
LEMMA Ticks ==
  ASSUME NEW m \in Nat \ {0}, NEW a \in 0 .. m - 1
  PROVE  (a + 1) % m = IF a + 1 < m THEN a + 1 ELSE 0
<1>1. CASE a + 1 < m
  <2>1. a + 1 \in 0 .. m - 1 /\ 0 * m + (a + 1) = a + 1
    BY <1>1
  <2>2. (0 * m + (a + 1)) % m = a + 1
    BY <2>1, Remainder
  <2> QED BY <1>1, <2>1, <2>2
<1>2. CASE ~ (a + 1 < m)
  <2>1. 0 \in 0 .. m - 1 /\ 1 * m + 0 = a + 1
    BY <1>2
  <2>2. (1 * m + 0) % m = 0
    BY <2>1, Remainder
  <2> QED BY <1>2, <2>1, <2>2
<1> QED BY <1>1, <1>2

\* A tick later the time from b is longer by one, or the clock has come round to b.
LEMMA TickLater ==
  ASSUME NEW m \in Nat \ {0}, NEW a \in 0 .. m - 1, NEW b \in 0 .. m - 1
  PROVE  /\ (a + 1) % m \in 0 .. m - 1
         /\ (((a + 1) % m) - b) % m = IF ((a - b) % m) + 1 < m THEN ((a - b) % m) + 1 ELSE 0
<1>1. (a + 1) % m \in 0 .. m - 1 /\ (a + 1) % m = IF a + 1 < m THEN a + 1 ELSE 0
  BY Ticks
<1> DEFINE n == (a + 1) % m
<1>2. (n - b) % m = IF b <= n THEN n - b ELSE n - b + m
  <2> HIDE DEF n
  <2>1. n \in 0 .. m - 1
    BY <1>1 DEF n
  <2> QED BY <2>1, Elapsed
<1>3. (a - b) % m = IF b <= a THEN a - b ELSE a - b + m
  BY Elapsed
<1>4. n = (IF a + 1 < m THEN a + 1 ELSE 0) /\ n \in 0 .. m - 1
  BY <1>1
<1>5. (n - b) % m = IF ((a - b) % m) + 1 < m THEN ((a - b) % m) + 1 ELSE 0
  <2> HIDE DEF n
  <2> QED BY <1>2, <1>3, <1>4
<1> QED BY <1>1, <1>5

-----------------------------------------------------------------------------
(* The calls that wait                                                     *)

Waiting == [op : Joins \cup {"none", "scan"}, waited : Nat, status : Statuses]

\* A call that waits has not had all its questions.
WaitInv ==
  /\ wifi \in Statuses /\ call \in Waiting
  /\ call.op \in Joins => call.waited < Timeout
  /\ call.op = "scan" => call.waited < Attempts
  /\ UndecidedMeansLate

LEMMA WaitInit == JoinInit => WaitInv
BY DEF JoinInit, WaitInv, Waiting, NoCall, Statuses, Undecided, Joins, UndecidedMeansLate

\* An answer that is true of its call leaves nothing waiting.
LEMMA Returned ==
  ASSUME NEW op, NEW waited, NEW status, Return(op, waited, status), wifi' \in Statuses,
         op \in Joins /\ status \in Undecided => waited = Timeout,
         op = "scan" /\ status = "none" => waited = Attempts
  PROVE  WaitInv'
BY DEF Return, WaitInv, Waiting, NoCall, Statuses, Undecided, Joins, UndecidedMeansLate

LEMMA JoinKeeps ==
  ASSUME WaitInv, NEW op \in Joins, Join(op)
  PROVE  WaitInv'
<1>1. CASE Return(op, 0, Refusal(op)) /\ UNCHANGED wifi
  <2>1. Refusal(op) \notin Undecided /\ op # "scan" /\ wifi' \in Statuses
    BY <1>1 DEF Refusal, Undecided, Joins, WaitInv
  <2> QED BY <1>1, <2>1, Returned
<1>2. CASE wifi' = "idle" /\ Timeout = 0 /\ Return(op, 0, "idle")
  <2>1. wifi' \in Statuses /\ op # "scan"
    BY <1>2 DEF Statuses, Undecided, Joins
  <2> QED BY <1>2, <2>1, Returned
<1>3. CASE /\ wifi' = "idle" /\ Timeout # 0 /\ UNCHANGED answer
           /\ call' = [op |-> op, waited |-> 0, status |-> "idle"]
  <2>1. wifi' \in Statuses /\ call' \in Waiting /\ call'.op = op /\ call'.waited = 0
    BY <1>3 DEF Statuses, Undecided, Waiting
  <2>2. 0 < Timeout /\ op # "scan"
    BY <1>3, JoinAssumption DEF Joins
  <2>3. UndecidedMeansLate'
    BY <1>3 DEF WaitInv, UndecidedMeansLate
  <2> QED BY <2>1, <2>2, <2>3 DEF WaitInv
<1> QED BY <1>1, <1>2, <1>3 DEF Join

\* Nothing but a decision or the last question ends the wait.
LEMMA AskKeeps ==
  ASSUME WaitInv, AskStatus
  PROVE  WaitInv'
<1>1. PICK status \in Statuses :
        IF Decided(status) \/ ~ TimeLeft(call.waited + 1)
        THEN Return(call.op, call.waited + 1, status)
        ELSE /\ call' = [call EXCEPT !.waited = (@ + 1) % (Timeout + 1), !.status = status]
             /\ UNCHANGED answer
  BY DEF AskStatus, WaitInv, Statuses
<1>2. status \in Statuses /\ wifi' \in Statuses /\ call.op \in Joins /\ call \in Waiting
  BY DEF WaitInv, AskStatus, Statuses
<1>5. call.waited \in Nat /\ call.waited < Timeout /\ Timeout \in Nat
  BY JoinAssumption DEF WaitInv, Waiting, AskStatus
<1>3. CASE Decided(status) \/ ~ TimeLeft(call.waited + 1)
  <2>1. status \in Undecided => call.waited + 1 = Timeout
    <3>1. CASE Decided(status)
      BY <3>1 DEF Decided
    <3>2. CASE ~ TimeLeft(call.waited + 1)
      BY <1>5, <3>2 DEF TimeLeft
    <3> QED BY <1>3, <3>1, <3>2
  <2>2. call.op # "scan"
    BY <1>2 DEF Joins
  <2>3. Return(call.op, call.waited + 1, status)
    BY <1>1, <1>3
  <2> QED BY <1>2, <2>1, <2>2, <2>3, Returned
<1>4. CASE ~ (Decided(status) \/ ~ TimeLeft(call.waited + 1))
  <2>1. call.waited + 1 < Timeout
    BY <1>4 DEF TimeLeft
  <2>2. (call.waited + 1) % (Timeout + 1) = call.waited + 1
    <3>1. Timeout + 1 \in Nat \ {0} /\ call.waited + 1 \in 0 .. (Timeout + 1) - 1
      BY <1>5, <2>1
    <3> QED BY <3>1, Small
  <2>3. call' = [call EXCEPT !.waited = (@ + 1) % (Timeout + 1), !.status = status]
    BY <1>1, <1>4
  <2>6. UNCHANGED answer
    BY <1>1, <1>4
  <2>4. call' \in Waiting /\ call'.op = call.op /\ call'.waited = call.waited + 1
    <3> DEFINE n == (call.waited + 1) % (Timeout + 1)
    <3>1. n = call.waited + 1 /\ n \in Nat
      BY <1>5, <2>2
    <3>2. call' = [call EXCEPT !.waited = n, !.status = status]
      BY <2>3
    <3> HIDE DEF n
    <3>3. call' \in Waiting /\ call'.op = call.op /\ call'.waited = n
      BY <1>2, <3>1, <3>2 DEF Waiting
    <3> QED BY <3>1, <3>3
  <2>5. UndecidedMeansLate'
    BY <2>6 DEF WaitInv, UndecidedMeansLate
  <2> QED BY <1>2, <2>1, <2>4, <2>5 DEF WaitInv, Joins
<1> QED BY <1>3, <1>4

LEMMA ScanKeeps ==
  ASSUME WaitInv, Scan \/ AskNetworks
  PROVE  WaitInv'
<1>1. wifi' \in Statuses /\ Attempts \in Nat \ {0}
  BY JoinAssumption DEF WaitInv, Scan, AskNetworks
<1>2. CASE Return("scan", 0, "failure")
  BY <1>1, <1>2, Returned DEF Joins
<1>3. CASE Scan /\ call' = [op |-> "scan", waited |-> 0, status |-> "idle"] /\ UNCHANGED answer
  <2>1. call' \in Waiting /\ call'.op = "scan" /\ call'.waited = 0
    BY <1>3 DEF Waiting, Statuses, Undecided
  <2>2. UndecidedMeansLate'
    BY <1>3 DEF WaitInv, UndecidedMeansLate
  <2> QED BY <1>1, <2>1, <2>2 DEF WaitInv, Joins
<1>4. CASE AskNetworks
  <2>1. PICK found \in {"none", "some"} :
          IF found = "none" /\ MoreAttempts
          THEN call' = [call EXCEPT !.waited = @ + 1] /\ UNCHANGED answer
          ELSE Return("scan", call.waited + 1, found)
    BY <1>4 DEF AskNetworks
  <2>2. call \in Waiting /\ call.op = "scan" /\ call.waited \in Nat /\ call.waited < Attempts
    BY <1>4 DEF WaitInv, AskNetworks, Waiting
  <2>3. CASE found = "none" /\ MoreAttempts
    <3>1. call' \in Waiting /\ call'.op = "scan" /\ call'.waited = call.waited + 1
      BY <2>1, <2>2, <2>3 DEF Waiting
    <3>2. call.waited + 1 < Attempts
      BY <2>3 DEF MoreAttempts
    <3>3. UndecidedMeansLate'
      BY <2>1, <2>3 DEF WaitInv, UndecidedMeansLate
    <3> QED BY <1>1, <3>1, <3>2, <3>3 DEF WaitInv, Joins
  <2>4. CASE ~ (found = "none" /\ MoreAttempts)
    <3>1. found = "none" => call.waited + 1 = Attempts
      BY <1>1, <2>2, <2>4 DEF MoreAttempts
    <3> QED BY <1>1, <2>1, <2>4, <3>1, Returned DEF Joins
  <2> QED BY <2>3, <2>4
<1> QED BY <1>2, <1>3, <1>4 DEF Scan

LEMMA ChangesKeep ==
  ASSUME WaitInv, Changes
  PROVE  WaitInv'
<1>1. wifi' \in Statuses
  BY DEF Changes, Statuses, Undecided
<1> QED BY <1>1 DEF Changes, WaitInv, UndecidedMeansLate

LEMMA WaitStep ==
  ASSUME WaitInv, [JoinNext]_joinVars
  PROVE  WaitInv'
<1>1. CASE UNCHANGED joinVars
  BY <1>1 DEF joinVars, WaitInv, UndecidedMeansLate
<1> QED BY <1>1, JoinKeeps, AskKeeps, ScanKeeps, ChangesKeep DEF JoinNext

-----------------------------------------------------------------------------
(* The earlier vending machines                                            *)

States == {"idle", "s20", "s40"}

\* The next-state logic yields a state.
LEMMA NextStateType ==
  ASSUME NEW s \in States, NEW sw \in SUBSET Switches
  PROVE  NextState(s, sw) \in States
BY DEF NextState, States

\* The clock counts on within the range of Refresh_counter.
LEMMA RefreshedType ==
  ASSUME Refresh_counter \in 0 .. 8 * DigitTicks - 1
  PROVE  Refreshed \in 0 .. 8 * DigitTicks - 1
<1>1. 8 * DigitTicks \in Nat \ {0} /\ Refresh_counter + 1 \in Nat
  BY IntegratedAssumption
<1>2. Refreshed \in Nat /\ Refreshed < 8 * DigitTicks
  BY <1>1 DEF Refreshed
<1>3. QED BY <1>1, <1>2

LEMMA MachineTypes == Init => TypeOK
BY IntegratedAssumption DEF Init, TypeOK

LEMMA MachineTypesStep ==
  ASSUME TypeOK, [Next]_<<guardsEveryCoin, vars>>
  PROVE  TypeOK'
<1>1. guardsEveryCoin' \in BOOLEAN
  BY DEF Next, TypeOK
<1>2. ASSUME NEW k \in Switches, MoveSwitch(k) PROVE TypeOK'
  BY <1>1, <1>2 DEF MoveSwitch, TypeOK
<1>3. CASE RaiseReset
  BY <1>1, <1>3, IntegratedAssumption DEF RaiseReset, TypeOK
<1>4. CASE LowerReset
  BY <1>1, <1>4 DEF LowerReset, TypeOK
<1>5. CASE ClockEdge
  <2>1. currentState' \in States
    BY <1>5, NextStateType DEF ClockEdge, TypeOK, States
  <2>2. Refresh_counter' \in 0 .. 8 * DigitTicks - 1
    <3>1. Refreshed \in 0 .. 8 * DigitTicks - 1 /\ 0 \in 0 .. 8 * DigitTicks - 1
      BY RefreshedType, IntegratedAssumption DEF TypeOK
    <3>2. Refresh_counter' = 0 \/ Refresh_counter' = Refreshed
      BY <1>5 DEF ClockEdge
    <3> QED BY <3>1, <3>2
  <2>3. coins' \in 0 .. 3 * MaxSold
    BY <1>5, IntegratedAssumption DEF ClockEdge, TypeOK
  <2>4. sold' \in [Drinks -> 0 .. MaxSold]
    <3>1. \A d \in Drinks : SoldAt(d) \in 0 .. MaxSold
      BY <1>5, IntegratedAssumption DEF ClockEdge, SoldAt, TypeOK
    <3> QED BY <1>5, <3>1 DEF ClockEdge
  <2> QED BY <1>1, <1>5, <2>1, <2>2, <2>3, <2>4 DEF ClockEdge, TypeOK, States
<1>6. CASE UNCHANGED vars
  BY <1>1, <1>6 DEF vars, TypeOK
<1> QED BY <1>2, <1>3, <1>4, <1>5, <1>6 DEF Next

\* The coins that a state holds as credit.
Held(s) == CASE s = "s40" -> 2 [] s = "s20" -> 1 [] OTHER -> 0

\* A coffee goes out in s40 on a coin only: that coin is the third.
LEMMA CoffeeTakesACoin ==
  ASSUME TypeOK, Reset, currentState = "s40", outputs.DispenseD, outputs.drinksChoice = 2
  PROVE  "twentyCent" \in high
BY DEF outputs, OutputS40, Output

\* Credit has coins behind it at first, and after every step.
LEMMA PaidAtFirst == Init => CoffeeIsPaid
BY DEF Init, CoffeeIsPaid, Drinks

LEMMA PaidStep ==
  ASSUME TypeOK, CoffeeIsPaid, [Next]_<<guardsEveryCoin, vars>>
  PROVE  CoffeeIsPaid'
<1>0. /\ sold["coffee"] \in Nat /\ coins \in Nat /\ currentState \in States
      /\ 3 * sold["coffee"] + Held(currentState) <= coins
  BY IntegratedAssumption DEF TypeOK, CoffeeIsPaid, Drinks, States, Held
<1> SUFFICES 3 * sold'["coffee"] + Held(currentState') <= coins'
  BY DEF CoffeeIsPaid, Held
<1>1. ASSUME NEW k \in Switches, MoveSwitch(k)
      PROVE  3 * sold'["coffee"] + Held(currentState') <= coins'
  BY <1>0, <1>1 DEF MoveSwitch
<1>2. CASE RaiseReset
  BY <1>0, <1>2 DEF RaiseReset
<1>3. CASE LowerReset
  BY <1>0, <1>3 DEF LowerReset, Held, States
<1>4. CASE ClockEdge
  <2>1. sold'["coffee"] = SoldAt("coffee")
    BY <1>4 DEF ClockEdge, Drinks
  <2>2. CASE ~Reset
    BY <1>0, <1>4, <2>1, <2>2 DEF ClockEdge, SoldAt, Held, States
  <2>3. CASE Reset /\ "twentyCent" \in high
    \* The coin pays the next step, or completes the three of a coffee.
    <3>1. coins' = coins + 1 /\ currentState' = NextState(currentState, high)
      BY <1>4, <2>3 DEF ClockEdge
    <3>2. CASE currentState = "s40"
      <4>1. currentState' = "idle"
        BY <3>1, <3>2, <2>3 DEF NextState
      <4>2. SoldAt("coffee") <= sold["coffee"] + 1 /\ SoldAt("coffee") \in Nat
        BY <1>0 DEF SoldAt
      <4>3. QED BY <1>0, <2>1, <3>1, <3>2, <4>1, <4>2 DEF Held
    <3>3. CASE currentState # "s40"
      <4>1. SoldAt("coffee") = sold["coffee"]
        BY <3>3 DEF SoldAt
      <4>2. Held(currentState') <= Held(currentState) + 1 /\ Held(currentState') \in Nat
        BY <1>0, <3>1, <3>3, <2>3 DEF NextState, Held, States
      <4>3. Held(currentState) \in Nat
        BY DEF Held
      <4>4. QED BY <1>0, <2>1, <3>1, <4>1, <4>2, <4>3
    <3>4. QED BY <3>2, <3>3
  <2>4. CASE Reset /\ "twentyCent" \notin high
    \* Without a coin nothing moves and no coffee goes out.
    <3>1. coins' = coins /\ currentState' = currentState
      BY <1>0, <1>4, <2>4 DEF ClockEdge, NextState, States
    <3>2. SoldAt("coffee") = sold["coffee"]
      BY <2>4, CoffeeTakesACoin DEF SoldAt
    <3>3. QED BY <1>0, <2>1, <3>1, <3>2
  <2>5. QED BY <2>2, <2>3, <2>4
<1>5. CASE UNCHANGED vars
  BY <1>0, <1>5 DEF vars
<1>6. QED BY <1>1, <1>2, <1>3, <1>4, <1>5 DEF Next

\* Whatever the outputs are, no digit is given two glyphs: each position is
\* that of one activation, but the last, whose two show the same value.
LEMMA TurnIsLegible ==
  ASSUME NEW code, NEW out, NEW s \in Turn(code, out), NEW t \in Turn(code, out),
         s.at = t.at
  PROVE  s.glyph = t.glyph
<1>1. PICK i \in LedActivations :
        s = [at |-> Position(i), glyph |-> GlyphOf(DataDisp(i, code, out))]
  BY DEF Turn
<1>2. PICK j \in LedActivations :
        t = [at |-> Position(j), glyph |-> GlyphOf(DataDisp(j, code, out))]
  BY DEF Turn
<1>3. Position(i) = Position(j)
  BY <1>1, <1>2
<1>4. i = j \/ (i \in {6, 7} /\ j \in {6, 7})
  BY <1>3 DEF Position, LedActivations
<1>5. DataDisp(i, code, out) = DataDisp(j, code, out)
  BY <1>4 DEF DataDisp
<1>6. QED BY <1>1, <1>2, <1>5

\* A code that is not 0 lights a letter at digit 7 (a coffee's or a tee's).
LEMMA CodeLightsALetter ==
  ASSUME NEW code \in {1, 2, 3}, NEW out
  PROVE  \E s \in Turn(code, out) : s.at \in {6, 7} /\ s.glyph \in {"t", "C"}
<1> DEFINE s == [at |-> Position(0), glyph |-> GlyphOf(DataDisp(0, code, out))]
<1>1. s \in Turn(code, out)
  BY DEF Turn, LedActivations
<1>2. Position(0) = 7
  BY DEF Position
<1>3. DataDisp(0, code, out) \in {13, 5}
  BY DEF DataDisp
<1>4. GlyphOf(DataDisp(0, code, out)) \in {"t", "C"}
  BY <1>3 DEF GlyphOf
<1>5. QED BY <1>1, <1>2, <1>4

\* The codes of the outputs are the three of the display, or none.
LEMMA CodeOfOutputs ==
  ASSUME TypeOK
  PROVE  outputs.drinksChoice \in 0 .. 3
<1>1. CASE currentState = "idle"
  \* What is asked for is nothing, one drink or both.
  <2>1. high \cap Drinks \in {{}, {"tee"}, {"coffee"}, Drinks}
    BY DEF Drinks
  <2>2. outputs.drinksChoice \in 0 .. 3
    BY <1>1, <2>1 DEF outputs, OutputIdle, Output
  <2>3. QED BY <2>2
<1>2. CASE currentState = "s20"
  BY <1>2 DEF outputs, Output
<1>3. CASE currentState = "s40"
  BY <1>3 DEF outputs, OutputS40, Output
<1>4. QED BY <1>1, <1>2, <1>3 DEF TypeOK

\* Legible are the outputs of every state.
LEMMA Legible ==
  ASSUME TypeOK
  PROVE  LegibleSale
<1>1. \A s, t \in Shown : s.at = t.at => s.glyph = t.glyph
  BY TurnIsLegible DEF Shown
<1>2. ASSUME outputs.drinksChoice # 0 PROVE Letters \cap {"t", "C"} # {}
  <2>1. outputs.drinksChoice \in {1, 2, 3}
    BY <1>2, CodeOfOutputs
  <2>2. PICK s \in Shown : s.at \in {6, 7} /\ s.glyph \in {"t", "C"}
    BY <2>1, CodeLightsALetter DEF Shown
  <2>3. s.glyph \in Letters
    BY <2>2 DEF Letters
  <2>4. QED BY <2>2, <2>3
<1>3. QED BY <1>1, <1>2 DEF LegibleSale

\* The earlier machines on their own: types, coffees that are paid with three coins
\* each, in whatever order switches, edges and the two resets come, and a display
\* that gives no digit two glyphs within a turn and lights a letter for every sale.
THEOREM SalesKept == Spec => [](TypeOK /\ SalesInv)
<1>1. Init => TypeOK /\ CoffeeIsPaid
  BY MachineTypes, PaidAtFirst
<1>2. TypeOK /\ CoffeeIsPaid /\ [Next]_<<guardsEveryCoin, vars>> => (TypeOK /\ CoffeeIsPaid)'
  BY MachineTypesStep, PaidStep
<1>3. TypeOK /\ CoffeeIsPaid => TypeOK /\ SalesInv
  BY Legible DEF SalesInv
<1> QED BY <1>1, <1>2, <1>3, PTL DEF Spec

-----------------------------------------------------------------------------
(* The sensor sketch                                                       *)

Sensors == [n : Nat, ok : BOOLEAN, age : {0, 1}]
Rounds == [h : Nat, t : Nat, sent : Nat]

\* What was read first is what the sensor has, and nothing passes until the second
\* reading; the clock says no more than has passed since the last round.
SketchInv ==
  /\ TypeOKP /\ RoundIsOneSample
  /\ sensor \in Sensors /\ round \in Rounds /\ since \in 0 .. Wrap
  /\ pc = "read" => round.h = sensor.n /\ sensor.age = 0
  /\ (now - previous) % Wrap <= since

LEMMA WrapIsPositive == Wrap \in Nat \ {0} /\ Interval \in Nat
BY PublisherAssumption

LEMMA SketchInit == InitP => SketchInv
<1> SUFFICES ASSUME InitP PROVE SketchInv
  OBVIOUS
<1>1. TypeOKP /\ RoundIsOneSample /\ sensor \in Sensors /\ round \in Rounds
  BY WrapIsPositive DEF InitP, JoinInit, NoCall, TypeOKP, Statuses, Undecided, RoundIsOneSample,
                        Sensors, Rounds, NoRound
<1>2. since \in 0 .. Wrap /\ pc # "read" /\ since = Wrap
  BY WrapIsPositive DEF InitP
<1>3. (now - previous) % Wrap <= Wrap
  <2>1. now \in 0 .. Wrap - 1 /\ previous = 0
    BY DEF InitP
  <2>2. now - previous = now
    BY <2>1, WrapIsPositive
  <2> QED BY <2>1, <2>2, Small, WrapIsPositive
<1> QED BY <1>1, <1>2, <1>3 DEF SketchInv

\* Time that passes is counted by both.
LEMMA LaterKeeps ==
  ASSUME SketchInv, Later, previous' = previous
  PROVE  /\ now' \in 0 .. Wrap - 1 /\ since' \in 0 .. Wrap
         /\ (now' - previous') % Wrap <= since'
         /\ sensor' \in Sensors /\ sensor'.ok = sensor.ok /\ sensor'.n = sensor.n
<1>1. now \in 0 .. Wrap - 1 /\ previous \in 0 .. Wrap - 1 /\ since \in 0 .. Wrap
  BY DEF SketchInv, TypeOKP
<1>2. now' = (now + 1) % Wrap /\ since' = IF since < Wrap THEN since + 1 ELSE since
  BY DEF Later, Millis
<1>3. sensor' = [sensor EXCEPT !.age = 1] /\ sensor \in Sensors
  BY DEF Later, SketchInv
<1>4. sensor' \in Sensors /\ sensor'.ok = sensor.ok /\ sensor'.n = sensor.n
  BY <1>3 DEF Sensors
<1>5. since' \in 0 .. Wrap
  BY <1>1, <1>2, WrapIsPositive
<1> DEFINE e == (now - previous) % Wrap
           e2 == (((now + 1) % Wrap) - previous) % Wrap
<1>6. /\ (now + 1) % Wrap \in 0 .. Wrap - 1
      /\ e2 = IF e + 1 < Wrap THEN e + 1 ELSE 0
  BY <1>1, WrapIsPositive, TickLater
<1>7. e \in 0 .. Wrap - 1 /\ e <= since
  BY <1>1, WrapIsPositive, Elapsed DEF SketchInv
<1>8. (now' - previous') % Wrap = e2
  BY <1>2
<1> HIDE DEF e, e2
<1>9. e2 <= since'
  BY <1>1, <1>2, <1>6, <1>7, WrapIsPositive
<1> QED BY <1>2, <1>4, <1>5, <1>6, <1>8, <1>9

\* A measurement is the one kept, or a new one; it is not old afterwards.
LEMMA MeasuresIs ==
  ASSUME SketchInv, Measures
  PROVE  /\ sensor' \in Sensors /\ sensor'.age = 0
         /\ sensor.age = 0 => sensor' = sensor
<1>1. sensor \in Sensors
  BY DEF SketchInv
<1>2. PICK ok \in BOOLEAN :
        sensor' = IF Kept THEN sensor ELSE [n |-> (sensor.n + 1) % 3, ok |-> ok, age |-> 0]
  BY DEF Measures
<1>3. (sensor.n + 1) % 3 \in Nat /\ sensor.age \in {0, 1}
  BY <1>1 DEF Sensors
<1> QED BY <1>1, <1>2, <1>3 DEF Kept, Sensors

\* What is not read again stays, and so does the time.
LEMMA RestStays ==
  ASSUME SketchInv, UNCHANGED <<now, previous, sensor, since>>
  PROVE  /\ now' \in 0 .. Wrap - 1 /\ previous' \in 0 .. Wrap - 1
         /\ sensor' \in Sensors /\ since' \in 0 .. Wrap
         /\ (now' - previous') % Wrap <= since'
BY DEF SketchInv, TypeOKP

\* WiFi.begin(), and what happens outside of a round.
LEMMA JoiningKeeps ==
  ASSUME SketchInv, wifi' \in Statuses, CallBegin \/ WaitBegin \/ Joined \/ ConnectBroker \/ Tick
  PROVE  SketchInv'
<1>1. /\ pc' \in {"setup", "connect", "halted", "loop", "rejoin"}
      /\ session' \in {"none", "up", "gone"} /\ previous' = previous /\ round' = round
  BY DEF CallBegin, WaitBegin, Joined, ConnectBroker, Tick, SketchInv, TypeOKP
<1>2. Later \/ UNCHANGED <<now, previous, sensor, since>>
  BY <1>1 DEF CallBegin, WaitBegin, Joined, ConnectBroker, Tick
<1>3. /\ now' \in 0 .. Wrap - 1 /\ sensor' \in Sensors /\ since' \in 0 .. Wrap
      /\ (now' - previous') % Wrap <= since'
  BY <1>1, <1>2, LaterKeeps, RestStays
<1>4. previous' \in 0 .. Wrap - 1 /\ round' \in Rounds /\ pc' # "read" /\ pc' # "send"
  BY <1>1 DEF SketchInv, TypeOKP
<1>5. pc' \in {"setup", "connect", "halted", "loop", "read", "send", "rejoin"}
  BY <1>1
<1> QED BY <1>1, <1>3, <1>4, <1>5 DEF SketchInv, TypeOKP, RoundIsOneSample

\* A round begins: its interval is over by the clock, and so it is by the time passed.
LEMMA RoundBegins ==
  ASSUME SketchInv, StartRound
  PROVE  SketchInv' /\ since >= Interval
<1>1. since >= Interval
  <2>1. (now - previous) % Wrap >= Interval /\ (now - previous) % Wrap <= since
    BY DEF StartRound, Due, SketchInv
  <2>2. (now - previous) % Wrap \in 0 .. Wrap - 1
    BY Elapsed, WrapIsPositive DEF SketchInv, TypeOKP
  <2> DEFINE e == (now - previous) % Wrap
  <2>3. e >= Interval /\ e <= since /\ e \in 0 .. Wrap - 1
    BY <2>1, <2>2
  <2> HIDE DEF e
  <2> QED BY <2>3, WrapIsPositive DEF SketchInv
<1>2. sensor' \in Sensors /\ sensor'.age = 0
  BY MeasuresIs DEF StartRound
<1>3. round' \in Rounds /\ round'.h = sensor'.n
  <2>1. round' = [NoRound EXCEPT !.h = sensor'.n] /\ sensor'.n \in Nat
    BY <1>2 DEF StartRound, Sensors
  <2> QED BY <2>1 DEF NoRound, Rounds
<1>4. /\ pc' = "read" /\ since' = 0 /\ now' = now /\ previous' = now
      /\ wifi' = wifi /\ session' = session
  BY DEF StartRound, Mark, joinVars
<1>5. now' \in 0 .. Wrap - 1 /\ previous' \in 0 .. Wrap - 1 /\ now' - previous' = 0
  BY <1>4, WrapIsPositive DEF SketchInv, TypeOKP
<1>6. (now' - previous') % Wrap = 0
  <2>1. 0 % Wrap = 0
    BY Small, WrapIsPositive
  <2> QED BY <1>5, <2>1
<1>7. TypeOKP'
  BY <1>4, <1>5 DEF SketchInv, TypeOKP
<1>8. since' \in 0 .. Wrap /\ (now' - previous') % Wrap <= since'
  BY <1>4, <1>6, WrapIsPositive
<1> QED BY <1>1, <1>2, <1>3, <1>4, <1>7, <1>8 DEF SketchInv, RoundIsOneSample

\* The second reading is of the measurement of the first.
LEMMA SecondReading ==
  ASSUME SketchInv, ReadTemperature
  PROVE  SketchInv'
<1>1. pc = "read" /\ sensor.age = 0 /\ round.h = sensor.n /\ round \in Rounds /\ Measures
  BY DEF ReadTemperature, SketchInv
<1>2. sensor' = sensor /\ sensor \in Sensors
  BY <1>1, MeasuresIs DEF SketchInv
<1>3. /\ round' \in Rounds /\ round'.h = sensor'.n /\ round'.t = sensor'.n
  <2>1. round' = [round EXCEPT !.t = sensor'.n] /\ sensor'.n \in Nat
    BY <1>2 DEF ReadTemperature, Sensors
  <2> QED BY <1>1, <1>2, <2>1 DEF Rounds
<1>4. /\ pc' = IF sensor.ok /\ sensor'.ok THEN "send" ELSE "loop"
      /\ UNCHANGED <<now, previous, since, wifi, session>>
  BY DEF ReadTemperature, joinVars
<1>5. TypeOKP'
  BY <1>4 DEF SketchInv, TypeOKP
<1>6. RoundIsOneSample'
  BY <1>2, <1>3, <1>4 DEF RoundIsOneSample
<1>7. since' \in 0 .. Wrap /\ (now' - previous') % Wrap <= since'
  BY <1>2, <1>4, RestStays
<1> QED BY <1>2, <1>3, <1>4, <1>5, <1>6, <1>7 DEF SketchInv

LEMMA SendingKeeps ==
  ASSUME SketchInv, SendMessage \/ CheckWifi
  PROVE  SketchInv'
<1>1. UNCHANGED <<now, previous, sensor, since, wifi, session>>
  BY DEF SendMessage, CheckWifi, joinVars
<1>2. /\ now' \in 0 .. Wrap - 1 /\ previous' \in 0 .. Wrap - 1 /\ sensor' \in Sensors
      /\ since' \in 0 .. Wrap /\ (now' - previous') % Wrap <= since'
  BY <1>1, RestStays
<1>3. CASE SendMessage
  <2>1. round \in Rounds /\ round' = [round EXCEPT !.sent = @ + 1] /\ pc = "send" /\ pc' = pc
    BY <1>3 DEF SendMessage, SketchInv
  <2>2. round' \in Rounds /\ round'.h = round.h /\ round'.t = round.t
    BY <2>1 DEF Rounds
  <2>3. TypeOKP' /\ RoundIsOneSample'
    BY <1>1, <1>2, <2>1, <2>2 DEF SketchInv, TypeOKP, RoundIsOneSample
  <2> QED BY <1>2, <2>1, <2>2, <2>3 DEF SketchInv
<1>4. CASE CheckWifi
  <2>1. pc' \in {"rejoin", "loop"} /\ round' = NoRound
    BY <1>4 DEF CheckWifi
  <2>2. round' \in Rounds
    BY <2>1 DEF NoRound, Rounds
  <2>3. TypeOKP' /\ RoundIsOneSample'
    BY <1>1, <1>2, <2>1 DEF SketchInv, TypeOKP, RoundIsOneSample
  <2> QED BY <1>2, <2>1, <2>2, <2>3 DEF SketchInv
<1> QED BY <1>3, <1>4

\* The WiFi and the broker.
LEMMA NetworkKeeps ==
  ASSUME SketchInv, wifi' \in Statuses, session' \in {"none", "up", "gone"},
         UNCHANGED <<pc, now, previous, sensor, round, since>>
  PROVE  SketchInv'
BY DEF SketchInv, TypeOKP, RoundIsOneSample

\* The calls of the sketch keep WaitInv too: it never touches one that waits.
LEMMA SketchWaits ==
  ASSUME WaitInv, NextP
  PROVE  WaitInv'
<1>1. CASE CheckWifi
  <2>1. answer' = answer \/ answer'.op = "none"
    BY <1>1 DEF CheckWifi, NoCall
  <2> QED BY <1>1, <2>1 DEF CheckWifi, WaitInv, UndecidedMeansLate, Joins
<1>2. CASE CallBegin \/ WaitBegin \/ Radio
  BY <1>2, WaitStep DEF CallBegin, WaitBegin, Radio, JoinNext, Joins
<1>3. CASE ~ (CheckWifi \/ CallBegin \/ WaitBegin \/ Radio)
  <2>1. UNCHANGED joinVars
    BY <1>3 DEF NextP, Sketch, Joined, ConnectBroker, StartRound, ReadTemperature, SendMessage,
                Tick, BrokerFalls
  <2> QED BY <2>1, WaitStep
<1> QED BY <1>1, <1>2, <1>3

LEMMA SketchStep ==
  ASSUME SketchInv, WaitInv, NextP
  PROVE  SketchInv'
<1>1. wifi' \in Statuses
  BY SketchWaits DEF WaitInv
<1>2. CASE Radio \/ BrokerFalls
  BY <1>1, <1>2, NetworkKeeps DEF Radio, BrokerFalls, SketchInv, TypeOKP
<1> QED BY <1>1, <1>2, JoiningKeeps, RoundBegins, SecondReading, SendingKeeps DEF NextP, Sketch

-----------------------------------------------------------------------------
(* The driver of the DHT sensor                                            *)

Bytes == 0 .. 255

LEMMA DhtLimits ==
  /\ Frames \subseteq [1 .. 4 -> Bytes] /\ Faults \subseteq 0 .. 39
  /\ MinInterval \in Nat \ {0} /\ Wrap \in Nat \ {0} /\ MaxPause \in Nat
  /\ MinInterval <= MaxPause /\ MaxPause + MinInterval < Wrap
BY DevicesAssumption, WrapIsPositive DEF Dht!DhtAssumption, Bytes

\* A frame ends with the sum of its first four bytes.
LEMMA FrameIs ==
  ASSUME NEW f \in Frames
  PROVE  /\ Dht!Frame(f) \in [1 .. 5 -> Bytes] /\ Dht!SumMatches(Dht!Frame(f))
<1> DEFINE g == Dht!Frame(f)
<1>1. f \in [1 .. 4 -> Bytes]
  BY DhtLimits
<1>2. f[1] \in Bytes /\ f[2] \in Bytes /\ f[3] \in Bytes /\ f[4] \in Bytes
  BY <1>1
<1>9. \A n \in Bytes : n \in Nat
  BY DEF Bytes
<1>3. Dht!Sum(f) \in Bytes
  <2>1. f[1] + f[2] + f[3] + f[4] \in Nat
    BY <1>2, <1>9
  <2>2. \A n \in Nat : n % 256 \in Bytes
    BY DEF Bytes
  <2> QED BY <2>1, <2>2 DEF Dht!Sum
<1>4. g = [i \in 1 .. 5 |-> IF i = 5 THEN Dht!Sum(f) ELSE f[i]]
  BY DEF Dht!Frame
<1>5. g[1] = f[1] /\ g[2] = f[2] /\ g[3] = f[3] /\ g[4] = f[4] /\ g[5] = Dht!Sum(f)
  BY <1>4
<1>6. \A i \in 1 .. 5 : (IF i = 5 THEN Dht!Sum(f) ELSE f[i]) \in Bytes
  <2> SUFFICES ASSUME NEW i \in 1 .. 5 PROVE (IF i = 5 THEN Dht!Sum(f) ELSE f[i]) \in Bytes
    OBVIOUS
  <2>1. i = 1 \/ i = 2 \/ i = 3 \/ i = 4 \/ i = 5
    OBVIOUS
  <2> QED BY <2>1, <1>2, <1>3
<1>7. g \in [1 .. 5 -> Bytes]
  BY <1>4, <1>6
<1>8. Dht!SumMatches(g)
  BY <1>5 DEF Dht!SumMatches, Dht!Sum
<1> QED BY <1>7, <1>8

\* A bit has one of eight weights.
LEMMA BitIs ==
  ASSUME NEW n \in 0 .. 39
  PROVE  /\ Dht!Bit(n) \in {1, 2, 4, 8, 16, 32, 64, 128}
         /\ (n \div 8) + 1 \in 1 .. 5
<1>1. (n \div 8) + 1 \in 1 .. 5 /\ n % 8 \in 0 .. 7
  OBVIOUS
<1>2. ASSUME NEW i \in 1 .. 8
      PROVE  <<128, 64, 32, 16, 8, 4, 2, 1>>[i] \in {1, 2, 4, 8, 16, 32, 64, 128}
  <2>1. i = 1 \/ i = 2 \/ i = 3 \/ i = 4 \/ i = 5 \/ i = 6 \/ i = 7 \/ i = 8
    OBVIOUS
  <2> QED BY <2>1
<1>3. (n % 8) + 1 \in 1 .. 8
  BY <1>1
<1> QED BY <1>1, <1>2, <1>3 DEF Dht!Bit

\* No bit may be wrong without the sum noticing: no weight is a multiple of 256.
LEMMA FlipIsFound ==
  ASSUME NEW f \in Frames, NEW n \in Faults
  PROVE  ~ Dht!SumMatches(Dht!Flipped(Dht!Frame(f), n))
<1> DEFINE g == Dht!Frame(f)
           d == Dht!Flipped(g, n)
           b == Dht!Bit(n)
           k == (n \div 8) + 1
<1>1. g \in [1 .. 5 -> Bytes] /\ Dht!SumMatches(g)
  BY FrameIs
<1>2. b \in {1, 2, 4, 8, 16, 32, 64, 128} /\ k \in 1 .. 5
  BY BitIs, DhtLimits
<1>3. d = [g EXCEPT ![k] = IF (@ \div b) % 2 = 0 THEN @ + b ELSE @ - b]
  BY DEF Dht!Flipped
<1> HIDE DEF g, d, b, k
<1>4. d[k] = g[k] + b \/ d[k] = g[k] - b
  BY <1>1, <1>2, <1>3
<1>5. \A i \in 1 .. 5 : i # k => d[i] = g[i]
  BY <1>1, <1>2, <1>3
<1>6. /\ g[1] \in Nat /\ g[2] \in Nat /\ g[3] \in Nat /\ g[4] \in Nat
      /\ g[5] = (g[1] + g[2] + g[3] + g[4]) % 256
  BY <1>1 DEF Bytes, Dht!SumMatches, Dht!Sum
<1>7. CASE k = 5
  <2>1. d[1] = g[1] /\ d[2] = g[2] /\ d[3] = g[3] /\ d[4] = g[4] /\ d[5] # g[5]
    BY <1>2, <1>4, <1>5, <1>6, <1>7
  <2> QED BY <1>6, <2>1 DEF Dht!SumMatches, Dht!Sum, g, d
<1>8. CASE k # 5
  <2> DEFINE s == g[1] + g[2] + g[3] + g[4]
             t == d[1] + d[2] + d[3] + d[4]
  <2>1. k = 1 \/ k = 2 \/ k = 3 \/ k = 4
    BY <1>2, <1>8
  <2>2. d[5] = g[5]
    BY <1>5, <1>8
  <2>3. t = s + b \/ t = s - b
    BY <1>2, <1>4, <1>5, <1>6, <2>1
  <2>4. s \in Nat /\ g[5] = s % 256
    BY <1>6
  <2> HIDE DEF s, t
  <2>5. t % 256 # s % 256
    BY <1>2, <2>3, <2>4
  <2>6. d[5] # t % 256
    BY <2>2, <2>4, <2>5
  <2> QED BY <2>6 DEF t, d, g, Dht!SumMatches, Dht!Sum
<1> QED BY <1>7, <1>8

\* So a reception that is taken for good is the frame that was sent.
LEMMA GoodIsWhole ==
  ASSUME NEW f \in Frames, NEW r \in Dht!Receptions(Dht!Frame(f)), r.ok
  PROVE  r.data = Dht!Frame(f)
<1> DEFINE g == Dht!Frame(f)
<1>1. \/ \E d \in {g} \cup {Dht!Flipped(g, n) : n \in Faults} :
           r = [data |-> d, ok |-> Dht!SumMatches(d)]
      \/ \E n \in Faults : r = [data |-> Dht!Cut(g, n), ok |-> FALSE]
  BY DEF Dht!Receptions
<1>2. CASE \E n \in Faults : r = [data |-> Dht!Cut(g, n), ok |-> FALSE]
  BY <1>2
<1>3. ASSUME NEW d \in {g} \cup {Dht!Flipped(g, n) : n \in Faults},
             r = [data |-> d, ok |-> Dht!SumMatches(d)]
      PROVE  r.data = g
  <2>1. r.data = d /\ Dht!SumMatches(d)
    BY <1>3
  <2>2. ASSUME NEW n \in Faults, d = Dht!Flipped(g, n) PROVE FALSE
    BY <2>1, <2>2, FlipIsFound
  <2> QED BY <2>1, <2>2
<1> QED BY <1>1, <1>2, <1>3

\* What is kept for good is the frame that was sent; and the driver's clock tells
\* how long ago that was, or that the next reading is due.
DhtInv ==
  /\ dhtNow \in 0 .. Wrap - 1 /\ lastTime \in 0 .. Wrap - 1 /\ age \in 0 .. MaxPause
  /\ sent \in Frames
  /\ lastResult => data = Dht!Frame(sent)
  /\ begun = "read" => (dhtNow - lastTime) % Wrap = age
  /\ begun = "begin" => /\ (dhtNow - lastTime) % Wrap >= MinInterval
                        /\ (dhtNow - lastTime) % Wrap <= MinInterval + age
  /\ begun \in {"no", "begin", "read"}
  /\ Dht!OnlyWhatWasMeasured /\ Dht!FreshEnough

LEMMA DhtInit == Dht!Init => DhtInv
<1> SUFFICES ASSUME Dht!Init PROVE DhtInv
  OBVIOUS
<1>1. /\ dhtNow \in 0 .. Wrap - 1 /\ lastTime = 0 /\ lastResult = FALSE /\ age = MaxPause
      /\ begun = "no" /\ sent \in Frames /\ result = Dht!NoResult
  BY DEF Dht!Init
<1>2. ~ result.ok /\ ~ result.cached
  BY <1>1 DEF Dht!NoResult
<1>3. lastTime \in 0 .. Wrap - 1 /\ age \in 0 .. MaxPause
  BY <1>1, DhtLimits
<1> QED BY <1>1, <1>2, <1>3 DEF DhtInv, Dht!OnlyWhatWasMeasured, Dht!FreshEnough

LEMMA BeginKeeps ==
  ASSUME DhtInv, Dht!Begin
  PROVE  DhtInv'
<1>1. /\ lastTime' = (dhtNow - MinInterval) % Wrap /\ begun' = "begin"
      /\ UNCHANGED <<dhtNow, lastResult, data, age, sent, result>>
  BY DEF Dht!Begin, Dht!BeginAt
<1>2. dhtNow \in 0 .. Wrap - 1 /\ MinInterval \in 0 .. Wrap - 1
  BY DhtLimits DEF DhtInv
<1>3. (dhtNow - MinInterval) % Wrap
        = IF MinInterval <= dhtNow THEN dhtNow - MinInterval ELSE dhtNow - MinInterval + Wrap
  BY <1>2, DhtLimits, Elapsed
<1> DEFINE l == (dhtNow - MinInterval) % Wrap
<1>4. l \in 0 .. Wrap - 1 /\ lastTime' = l /\ l = IF MinInterval <= dhtNow THEN dhtNow - MinInterval
                                                    ELSE dhtNow - MinInterval + Wrap
  BY <1>1, <1>2, <1>3, DhtLimits
<1> HIDE DEF l
<1>5. (dhtNow - l) % Wrap = MinInterval
  <2>1. (dhtNow - l) % Wrap = IF l <= dhtNow THEN dhtNow - l ELSE dhtNow - l + Wrap
    BY <1>2, <1>4, DhtLimits, Elapsed
  <2> QED BY <1>2, <1>4, <2>1, DhtLimits
<1>6. (dhtNow' - lastTime') % Wrap = MinInterval
  BY <1>1, <1>4, <1>5
<1>7. age \in Nat /\ MinInterval \in Nat
  BY DhtLimits DEF DhtInv
<1>8. MinInterval >= MinInterval /\ MinInterval <= MinInterval + age
  BY <1>7
<1> QED BY <1>1, <1>4, <1>6, <1>8 DEF DhtInv, Dht!OnlyWhatWasMeasured, Dht!FreshEnough

\* The clock comes round to the last reading only behind the longest pause.
LEMMA DhtTickKeeps ==
  ASSUME DhtInv, Dht!Tick
  PROVE  DhtInv'
<1>1. /\ age < MaxPause /\ dhtNow' = (dhtNow + 1) % Wrap /\ age' = age + 1
      /\ UNCHANGED <<lastTime, lastResult, data, begun, sent, result>>
  BY DEF Dht!Tick
<1> DEFINE e == (dhtNow - lastTime) % Wrap
           e2 == (((dhtNow + 1) % Wrap) - lastTime) % Wrap
<1>2. (dhtNow + 1) % Wrap \in 0 .. Wrap - 1 /\ e2 = IF e + 1 < Wrap THEN e + 1 ELSE 0
  BY TickLater, DhtLimits DEF DhtInv
<1>3. (dhtNow' - lastTime') % Wrap = e2
  BY <1>1
<1>4. /\ begun = "read" => e = age
      /\ begun = "begin" => e >= MinInterval /\ e <= MinInterval + age
      /\ age \in Nat /\ e \in 0 .. Wrap - 1
  BY DhtLimits, Elapsed DEF DhtInv
<1> HIDE DEF e, e2
<1>5. begun = "read" => e2 = age + 1
  BY <1>1, <1>2, <1>4, DhtLimits
<1>6. begun = "begin" => e2 >= MinInterval /\ e2 <= MinInterval + (age + 1)
  BY <1>1, <1>2, <1>4, DhtLimits
<1>7. age' \in 0 .. MaxPause
  BY <1>1, <1>4, DhtLimits
<1> QED BY <1>1, <1>2, <1>3, <1>5, <1>6, <1>7 DEF DhtInv, Dht!OnlyWhatWasMeasured, Dht!FreshEnough

\* Behind begin() nothing is taken from what is kept.
LEMMA DueAfterBegin ==
  ASSUME DhtInv, begun = "begin"
  PROVE  ~ Dht!Cached
<1> DEFINE e == (dhtNow - lastTime) % Wrap
<1>1. e >= MinInterval
  BY DEF DhtInv
<1>2. e \in 0 .. Wrap - 1 /\ MinInterval \in Nat
  BY DhtLimits, Elapsed DEF DhtInv
<1> HIDE DEF e
<1>3. ~ (e < MinInterval)
  BY <1>1, <1>2
<1> QED BY <1>3 DEF Dht!Cached, e

LEMMA DhtReadKeeps ==
  ASSUME DhtInv, NEW force \in BOOLEAN, NEW quantity, Dht!Read(force, quantity)
  PROVE  DhtInv' /\ (begun = "begin" => ~ result'.cached)
<1>1. begun # "no" /\ begun' = "read" /\ dhtNow' = dhtNow
  BY DEF Dht!Read
<1>2. CASE Dht!Cached /\ ~ force
  <2>1. /\ Dht!Answer(lastResult, data, TRUE, quantity)
        /\ UNCHANGED <<lastTime, lastResult, data, age, sent>>
    BY <1>2 DEF Dht!Read
  <2>2. begun = "read"
    BY <1>1, <1>2, DueAfterBegin DEF DhtInv
  <2>3. age < MinInterval
    BY <1>2, <2>2 DEF DhtInv, Dht!Cached
  <2>4. /\ result'.of = quantity /\ result'.ok = lastResult /\ result'.pause = age
        /\ lastResult => result'.value = Dht!Value(quantity, data)
    BY <2>1 DEF Dht!Answer
  <2>5. Dht!OnlyWhatWasMeasured'
    BY <2>1, <2>4 DEF DhtInv, Dht!OnlyWhatWasMeasured
  <2>6. Dht!FreshEnough'
    BY <2>3, <2>4 DEF Dht!FreshEnough
  <2> QED BY <1>1, <2>1, <2>2, <2>5, <2>6 DEF DhtInv
<1>3. CASE ~ (Dht!Cached /\ ~ force)
  <2>1. PICK f \in Frames : \E r \in Dht!Receptions(Dht!Frame(f)) :
                 /\ sent' = f /\ data' = r.data /\ lastResult' = r.ok
                 /\ Dht!Answer(r.ok, r.data, FALSE, quantity)
    BY <1>3 DEF Dht!Read
  <2>2. PICK r \in Dht!Receptions(Dht!Frame(f)) :
                 /\ sent' = f /\ data' = r.data /\ lastResult' = r.ok
                 /\ Dht!Answer(r.ok, r.data, FALSE, quantity)
    BY <2>1
  <2>3. r.ok => r.data = Dht!Frame(f)
    BY GoodIsWhole
  <2>4. lastTime' = dhtNow /\ age' = 0
    BY <1>3 DEF Dht!Read
  <2>5. /\ result'.of = quantity /\ result'.ok = r.ok /\ result'.cached = FALSE
        /\ r.ok => result'.value = Dht!Value(quantity, r.data)
    BY <2>2 DEF Dht!Answer
  <2>6. Dht!OnlyWhatWasMeasured'
    BY <2>2, <2>3, <2>5 DEF Dht!OnlyWhatWasMeasured
  <2>7. Dht!FreshEnough'
    BY <2>5 DEF Dht!FreshEnough
  <2>8. (dhtNow' - lastTime') % Wrap = age'
    <3>1. dhtNow \in 0 .. Wrap - 1
      BY DEF DhtInv
    <3>2. dhtNow - dhtNow = 0 /\ 0 % Wrap = 0
      BY <3>1, DhtLimits, Small
    <3> QED BY <1>1, <2>4, <3>2
  <2>9. lastTime' \in 0 .. Wrap - 1 /\ age' \in 0 .. MaxPause
    BY <2>4, DhtLimits DEF DhtInv
  <2> QED BY <1>1, <2>2, <2>3, <2>5, <2>6, <2>7, <2>8, <2>9 DEF DhtInv
<1> QED BY <1>2, <1>3

LEMMA DhtStep ==
  ASSUME DhtInv, [Dht!Next]_dhtVars
  PROVE  /\ DhtInv'
         /\ begun = "begin" /\ begun' = "read" => ~ result'.cached
<1>1. CASE Dht!Begin
  BY <1>1, BeginKeeps DEF Dht!Begin
<1>2. CASE Dht!Tick
  BY <1>2, DhtTickKeeps DEF Dht!Tick
<1>3. ASSUME NEW force \in BOOLEAN, Dht!ReadTemperature(force) \/ Dht!ReadHumidity(force)
      PROVE  /\ DhtInv'
             /\ begun = "begin" /\ begun' = "read" => ~ result'.cached
  BY <1>3, DhtReadKeeps DEF Dht!ReadTemperature, Dht!ReadHumidity
<1>4. CASE UNCHANGED dhtVars
  BY <1>4 DEF dhtVars, DhtInv, Dht!OnlyWhatWasMeasured, Dht!FreshEnough
<1> QED BY <1>1, <1>2, <1>3, <1>4 DEF Dht!Next

\* What the sensor may measure is in the range its driver publishes.
MeasuresInRange ==
  \A f \in Frames : Dht!Temperature(Dht!Frame(f)) \in Dht!LowestValue .. Dht!HighestValue

LEMMA RangeFollows ==
  ASSUME DhtInv, MeasuresInRange
  PROVE  Dht!InRange
<1>1. result.ok /\ result.of = "temperature" => result.value = Dht!Temperature(Dht!Frame(sent))
  BY DEF DhtInv, Dht!OnlyWhatWasMeasured, Dht!Value
<1> QED BY <1>1 DEF DhtInv, MeasuresInRange, Dht!InRange

-----------------------------------------------------------------------------
(* The web server of the lamp                                              *)

\* s ends with line, which stands behind a line end or is all of s.
EndsWith(s, line) ==
  /\ Len(line) <= Len(s)
  /\ line = SubSeq(s, Len(s) - Len(line) + 1, Len(s))
  /\ Len(line) < Len(s) => s[Len(s) - Len(line)] = "nl"

Tokens == STRING

\* Of a client that is not served nothing is taken, as long as it is there.
LampInv ==
  /\ Lamp!TypeOK
  /\ unsent \in [Clients -> Seq(Tokens)] /\ unread \in [Clients -> Seq(Tokens)]
  /\ taken \in [Clients -> Seq(Tokens)] /\ currentLine \in Seq(Tokens)
  /\ \A c \in Clients : open[c] \/ unread[c] # <<>> =>
       (lampPc = "serve" /\ client = c) \/ taken[c] = <<>>

LEMMA LampLimits == Requests \subseteq Seq(Tokens) /\ MaxVisits \in Nat
BY DevicesAssumption DEF Lamp!ServerAssumption, Tokens

LEMMA EmptyLine ==
  ASSUME NEW S, NEW s \in Seq(S), s = <<>> \/ (Len(s) > 0 /\ s[Len(s)] = "nl")
  PROVE  EndsWith(s, <<>>)
<1>1. Len(<<>>) = 0 /\ Len(s) \in Nat
  OBVIOUS
<1>2. SubSeq(s, Len(s) - 0 + 1, Len(s)) = <<>>
  BY <1>1
<1>3. 0 < Len(s) => s[Len(s) - 0] = "nl"
  BY <1>1
<1> QED BY <1>1, <1>2, <1>3 DEF EndsWith

LEMMA LongerLine ==
  ASSUME NEW S, NEW s \in Seq(S), NEW line \in Seq(S), EndsWith(s, line), NEW tok \in S
  PROVE  EndsWith(Append(s, tok), Append(line, tok))
<1> DEFINE n == Len(line)
           t == Append(s, tok)
           longer == Append(line, tok)
<1>1. n \in Nat /\ Len(s) \in Nat /\ n <= Len(s)
  BY DEF EndsWith
<1>2. /\ Len(t) = Len(s) + 1 /\ t \in Seq(S) /\ t[Len(s) + 1] = tok
      /\ \A i \in 1 .. Len(s) : t[i] = s[i]
      /\ Len(longer) = n + 1 /\ longer \in Seq(S) /\ longer[n + 1] = tok
      /\ \A i \in 1 .. n : longer[i] = line[i]
  OBVIOUS
<1>3. \A i \in 1 .. n : line[i] = s[Len(s) - n + i]
  <2>1. line = SubSeq(s, Len(s) - n + 1, Len(s))
    BY DEF EndsWith
  <2>2. ASSUME NEW i \in 1 .. n
        PROVE  SubSeq(s, Len(s) - n + 1, Len(s))[i] = s[Len(s) - n + i]
    BY <1>1
  <2> QED BY <2>1, <2>2
<1>4. \A i \in 1 .. n + 1 : longer[i] = t[Len(s) - n + i]
  <2> SUFFICES ASSUME NEW i \in 1 .. n + 1 PROVE longer[i] = t[Len(s) - n + i]
    OBVIOUS
  <2>1. CASE i = n + 1
    BY <1>1, <1>2, <2>1
  <2>2. CASE i # n + 1
    <3>1. i \in 1 .. n /\ Len(s) - n + i \in 1 .. Len(s)
      BY <1>1, <2>2
    <3>2. longer[i] = line[i] /\ t[Len(s) - n + i] = s[Len(s) - n + i]
      BY <1>2, <3>1
    <3> QED BY <1>3, <3>1, <3>2
  <2> QED BY <2>1, <2>2
<1> DEFINE tail == SubSeq(t, Len(t) - (n + 1) + 1, Len(t))
<1>5. tail \in Seq(S) /\ Len(tail) = n + 1
      /\ \A i \in 1 .. n + 1 : tail[i] = t[Len(s) - n + i]
  <2>1. Len(t) - (n + 1) + 1 = Len(s) - n + 1 /\ Len(s) - n + 1 \in 1 .. Len(t) + 1
    BY <1>1, <1>2
  <2>2. SubSeq(t, Len(s) - n + 1, Len(s) + 1) \in Seq(S)
    BY <1>1, <1>2
  <2>3. Len(SubSeq(t, Len(s) - n + 1, Len(s) + 1)) = n + 1
    BY <1>1, <1>2
  <2>4. \A i \in 1 .. n + 1 : SubSeq(t, Len(s) - n + 1, Len(s) + 1)[i] = t[Len(s) - n + i]
    BY <1>1, <1>2
  <2> QED BY <1>2, <2>1, <2>2, <2>3, <2>4
<1>6. longer = tail
  <2>1. longer \in Seq(S) /\ tail \in Seq(S) /\ Len(longer) = Len(tail)
        /\ \A i \in 1 .. Len(longer) : longer[i] = tail[i]
    BY <1>1, <1>2, <1>4, <1>5
  <2> HIDE DEF tail, longer
  <2> QED BY <2>1
<1>7. n + 1 < Len(t) => t[Len(t) - (n + 1)] = "nl"
  <2> SUFFICES ASSUME n + 1 < Len(t) PROVE t[Len(t) - (n + 1)] = "nl"
    OBVIOUS
  <2>1. Len(t) - (n + 1) = Len(s) - n /\ Len(s) - n \in 1 .. Len(s) /\ n < Len(s)
    BY <1>1, <1>2
  <2>2. t[Len(s) - n] = s[Len(s) - n] /\ s[Len(s) - n] = "nl"
    BY <2>1 DEF EndsWith
  <2> QED BY <2>1, <2>2
<1> QED BY <1>1, <1>2, <1>6, <1>7 DEF EndsWith

LEMMA LampTypes ==
  Lamp!TypeOK <=>
    /\ lampPc \in {"setup", "loop", "serve", "halted"} /\ client \in Clients
    /\ lamps \in [Lamp!Lamps -> BOOLEAN] /\ open \in [Clients -> BOOLEAN]
    /\ answered \in [Clients -> BOOLEAN] /\ visits \in 0 .. MaxVisits
    /\ lampPc = "serve" => EndsWith(taken[client], currentLine)
BY DEF Lamp!TypeOK, EndsWith

LEMMA LampInit == Lamp!Init => LampInv
<1> SUFFICES ASSUME Lamp!Init PROVE LampInv
  OBVIOUS
<1>1. visits \in 0 .. MaxVisits
  BY LampLimits DEF Lamp!Init
<1>2. lampPc = "setup"
  BY DEF Lamp!Init
<1>3. Lamp!TypeOK
  BY <1>1, <1>2, LampTypes DEF Lamp!Init
<1> QED BY <1>3 DEF Lamp!Init, LampInv

\* A client is served from its first byte on.
LEMMA ServedFromTheFirst ==
  ASSUME LampInv, NEW c \in Clients, Lamp!Available(c)
  PROVE  LampInv'
<1>1. taken[c] = <<>> /\ lampPc = "loop" /\ unread[c] # <<>>
  BY DEF LampInv, Lamp!Available
<1>2. /\ lampPc' = "serve" /\ client' = c /\ currentLine' = <<>>
      /\ UNCHANGED <<lamps, open, unsent, unread, taken, answered, visits>>
  BY DEF Lamp!Available, Lamp!net
<1>3. EndsWith(taken[c], <<>>)
  <2>1. taken[c] \in Seq(Tokens)
    BY DEF LampInv
  <2> QED BY <1>1, <2>1, EmptyLine
<1>4. EndsWith(taken[client], currentLine)'
  BY <1>2, <1>3 DEF EndsWith
<1>5. Lamp!TypeOK'
  BY <1>2, <1>4, LampTypes DEF LampInv, Lamp!TypeOK, EndsWith
<1>6. \A d \in Clients : (open'[d] \/ unread'[d] # <<>>) =>
         (lampPc' = "serve" /\ client' = d) \/ taken'[d] = <<>>
  BY <1>1, <1>2 DEF LampInv
<1> QED BY <1>2, <1>5, <1>6 DEF LampInv

\* One whose socket is closed has nothing unread.
LEMMA StopKeeps ==
  ASSUME LampInv, Lamp!Stop(client), UNCHANGED <<client, currentLine, lamps, taken, visits>>,
         answered' \in [Clients -> BOOLEAN]
  PROVE  LampInv'
<1>1. /\ lampPc' = "loop" /\ open' = [open EXCEPT ![client] = FALSE]
      /\ unsent' = [unsent EXCEPT ![client] = <<>>] /\ unread' = [unread EXCEPT ![client] = <<>>]
  BY DEF Lamp!Stop
<1>2. /\ client \in Clients /\ open \in [Clients -> BOOLEAN] /\ lamps \in [Lamp!Lamps -> BOOLEAN]
      /\ visits \in 0 .. MaxVisits /\ <<>> \in Seq(Tokens)
  BY LampTypes DEF LampInv
<1>3. /\ open' \in [Clients -> BOOLEAN] /\ unsent' \in [Clients -> Seq(Tokens)]
      /\ unread' \in [Clients -> Seq(Tokens)]
  BY <1>1, <1>2 DEF LampInv
<1>4. Lamp!TypeOK'
  BY <1>1, <1>2, <1>3 DEF Lamp!TypeOK
<1>5. \A c \in Clients : (open'[c] \/ unread'[c] # <<>>) => taken'[c] = <<>>
  <2> SUFFICES ASSUME NEW c \in Clients, open'[c] \/ unread'[c] # <<>> PROVE taken[c] = <<>>
    OBVIOUS
  <2>1. c # client
    BY <1>1, <1>2 DEF LampInv
  <2>2. open'[c] = open[c] /\ unread'[c] = unread[c]
    BY <1>1, <1>2, <2>1 DEF LampInv
  <2> QED BY <2>1, <2>2 DEF LampInv
<1> QED BY <1>3, <1>4, <1>5 DEF LampInv

LEMMA LineBecomes ==
  ASSUME LampInv, Lamp!ReadByte
  PROVE  /\ EndsWith(taken'[client], currentLine') /\ currentLine' \in Seq(Tokens)
         /\ taken' \in [Clients -> Seq(Tokens)] /\ unread' \in [Clients -> Seq(Tokens)]
         /\ \A c \in Clients : c # client => taken'[c] = taken[c] /\ unread'[c] = unread[c]
<1> DEFINE tok == Head(unread[client])
<1>1. /\ lampPc = "serve" /\ client \in Clients /\ currentLine \in Seq(Tokens)
      /\ unread \in [Clients -> Seq(Tokens)] /\ taken \in [Clients -> Seq(Tokens)]
      /\ EndsWith(taken[client], currentLine) /\ unread[client] # <<>>
  BY LampTypes DEF LampInv, Lamp!ReadByte
<1>2. tok \in Tokens /\ taken[client] \in Seq(Tokens) /\ Tail(unread[client]) \in Seq(Tokens)
  BY <1>1
<1>3. /\ currentLine' = Lamp!Line(tok)
      /\ taken' = IF tok = "cr" THEN taken ELSE [taken EXCEPT ![client] = Append(@, tok)]
      /\ unread' = [unread EXCEPT ![client] = Tail(@)]
  BY DEF Lamp!ReadByte
<1> HIDE DEF tok
<1>4. unread' \in [Clients -> Seq(Tokens)] /\ \A c \in Clients : c # client => unread'[c] = unread[c]
  BY <1>1, <1>2, <1>3
<1>5. Append(taken[client], tok) \in Seq(Tokens)
  BY <1>2
<1>6. taken' \in [Clients -> Seq(Tokens)] /\ \A c \in Clients : c # client => taken'[c] = taken[c]
  BY <1>1, <1>3, <1>5
<1>7. CASE tok = "cr"
  <2>1. currentLine' = currentLine /\ taken' = taken
    BY <1>3, <1>7 DEF Lamp!Line
  <2> QED BY <1>1, <1>4, <1>6, <2>1
<1>8. CASE tok = "nl"
  <2>1. currentLine' = <<>> /\ taken'[client] = Append(taken[client], tok)
    BY <1>1, <1>3, <1>8 DEF Lamp!Line
  <2> DEFINE t == Append(taken[client], tok)
  <2>2. t \in Seq(Tokens) /\ Len(t) > 0 /\ t[Len(t)] = "nl"
    BY <1>2, <1>8
  <2> HIDE DEF t
  <2>3. EndsWith(t, <<>>)
    BY <2>2, EmptyLine
  <2>4. currentLine' \in Seq(Tokens) /\ EndsWith(taken'[client], currentLine')
    BY <2>1, <2>3 DEF t
  <2> QED BY <1>4, <1>6, <2>4
<1>9. CASE tok # "cr" /\ tok # "nl"
  <2>1. currentLine' = Append(currentLine, tok) /\ taken'[client] = Append(taken[client], tok)
    BY <1>1, <1>3, <1>9 DEF Lamp!Line
  <2>2. EndsWith(Append(taken[client], tok), Append(currentLine, tok))
    BY <1>1, <1>2, LongerLine
  <2>3. currentLine' \in Seq(Tokens)
    BY <1>1, <1>2, <2>1
  <2> QED BY <1>4, <1>6, <2>1, <2>2, <2>3
<1> QED BY <1>7, <1>8, <1>9

LEMMA ReadByteKeeps ==
  ASSUME LampInv, Lamp!ReadByte
  PROVE  LampInv'
<1>1. /\ lampPc = "serve" /\ UNCHANGED <<lampPc, client, open, unsent, answered, visits>>
      /\ lamps' \in [Lamp!Lamps -> BOOLEAN]
  <2>1. lamps \in [Lamp!Lamps -> BOOLEAN]
    BY LampTypes DEF LampInv
  <2> QED BY <2>1 DEF Lamp!ReadByte
<1>2. EndsWith(taken[client], currentLine)'
  BY <1>1, LineBecomes DEF EndsWith
<1>3. Lamp!TypeOK'
  BY <1>1, <1>2 DEF LampInv, Lamp!TypeOK, EndsWith
<1>4. \A c \in Clients : (open'[c] \/ unread'[c] # <<>>) =>
         (lampPc' = "serve" /\ client' = c) \/ taken'[c] = <<>>
  BY <1>1, LineBecomes DEF LampInv
<1> QED BY <1>1, <1>3, <1>4, LineBecomes DEF LampInv

LEMMA VisitorKeeps ==
  ASSUME LampInv, NEW c \in Clients, Lamp!Visit(c) \/ Lamp!Send(c) \/ Lamp!Leave(c)
  PROVE  LampInv'
<1>1. UNCHANGED <<lampPc, client, currentLine, lamps>>
  BY DEF Lamp!Visit, Lamp!Send, Lamp!Leave, Lamp!sketch
<1>2. /\ open \in [Clients -> BOOLEAN] /\ answered \in [Clients -> BOOLEAN]
      /\ unsent \in [Clients -> Seq(Tokens)] /\ unread \in [Clients -> Seq(Tokens)]
      /\ taken \in [Clients -> Seq(Tokens)] /\ <<>> \in Seq(Tokens)
      /\ visits \in 0 .. MaxVisits /\ MaxVisits \in Nat /\ Requests \subseteq Seq(Tokens)
  BY LampTypes, LampLimits DEF LampInv
<1>3. CASE Lamp!Visit(c)
  <2>1. ~ (lampPc = "serve" /\ client = c) /\ visits < MaxVisits /\ visits' = visits + 1
    BY <1>3 DEF Lamp!Visit
  <2>2. /\ taken' = [taken EXCEPT ![c] = <<>>] /\ answered' = [answered EXCEPT ![c] = FALSE]
        /\ open' = [open EXCEPT ![c] = TRUE] /\ unread' = unread
        /\ \E r \in Requests : unsent' = [unsent EXCEPT ![c] = r]
    BY <1>3 DEF Lamp!Visit
  <2>3. /\ taken' \in [Clients -> Seq(Tokens)] /\ answered' \in [Clients -> BOOLEAN]
        /\ open' \in [Clients -> BOOLEAN] /\ unsent' \in [Clients -> Seq(Tokens)]
    BY <1>2, <2>2
  <2>4. visits' \in 0 .. MaxVisits
    BY <1>2, <2>1
  <2>5. lampPc = "serve" => taken'[client] = taken[client]
    BY <1>2, <2>1, <2>2 DEF LampInv, Lamp!TypeOK
  <2>6. Lamp!TypeOK'
    BY <1>1, <2>3, <2>4, <2>5 DEF LampInv, Lamp!TypeOK
  <2>7. \A d \in Clients : (open'[d] \/ unread'[d] # <<>>) =>
           (lampPc' = "serve" /\ client' = d) \/ taken'[d] = <<>>
    <3> SUFFICES ASSUME NEW d \in Clients, open'[d] \/ unread'[d] # <<>>,
                        ~ (lampPc = "serve" /\ client = d)
                 PROVE  taken'[d] = <<>>
      BY <1>1
    <3>1. CASE d = c
      BY <1>2, <2>2, <3>1
    <3>2. CASE d # c
      <4>1. taken'[d] = taken[d] /\ open'[d] = open[d]
        BY <1>2, <2>2, <3>2
      <4> QED BY <2>2, <4>1 DEF LampInv
    <3> QED BY <3>1, <3>2
  <2> QED BY <1>1, <1>2, <2>2, <2>3, <2>6, <2>7 DEF LampInv
<1>4. CASE Lamp!Send(c)
  <2>1. /\ open[c] /\ unsent[c] # <<>> /\ UNCHANGED <<open, taken, answered, visits>>
        /\ unread' = [unread EXCEPT ![c] = Append(@, Head(unsent[c]))]
        /\ unsent' = [unsent EXCEPT ![c] = Tail(@)]
    BY <1>4 DEF Lamp!Send
  <2>2. unsent[c] \in Seq(Tokens) /\ unread[c] \in Seq(Tokens)
    BY <1>2
  <2>3. Tail(unsent[c]) \in Seq(Tokens) /\ Append(unread[c], Head(unsent[c])) \in Seq(Tokens)
    BY <2>1, <2>2
  <2>4. unread' \in [Clients -> Seq(Tokens)] /\ unsent' \in [Clients -> Seq(Tokens)]
    BY <1>2, <2>1, <2>3
  <2>5. Lamp!TypeOK'
    BY <1>1, <2>1 DEF LampInv, Lamp!TypeOK
  <2>6. \A d \in Clients : d # c => unread'[d] = unread[d]
    BY <1>2, <2>1
  <2>7. \A d \in Clients : (open'[d] \/ unread'[d] # <<>>) =>
           (lampPc' = "serve" /\ client' = d) \/ taken'[d] = <<>>
    BY <1>1, <2>1, <2>6 DEF LampInv
  <2> QED BY <1>1, <1>2, <2>1, <2>4, <2>5, <2>7 DEF LampInv
<1>5. CASE Lamp!Leave(c)
  <2>1. /\ open' = [open EXCEPT ![c] = FALSE] /\ unsent' = [unsent EXCEPT ![c] = <<>>]
        /\ open[c] /\ UNCHANGED <<unread, taken, answered, visits>>
    BY <1>5 DEF Lamp!Leave
  <2>2. open' \in [Clients -> BOOLEAN] /\ unsent' \in [Clients -> Seq(Tokens)]
    BY <1>2, <2>1
  <2>3. Lamp!TypeOK'
    BY <1>1, <2>1, <2>2 DEF LampInv, Lamp!TypeOK
  <2>4. \A d \in Clients : open'[d] => open[d]
    BY <1>2, <2>1
  <2>5. \A d \in Clients : (open'[d] \/ unread'[d] # <<>>) =>
           (lampPc' = "serve" /\ client' = d) \/ taken'[d] = <<>>
    BY <1>1, <2>1, <2>4 DEF LampInv
  <2> QED BY <1>1, <1>2, <2>1, <2>2, <2>3, <2>5 DEF LampInv
<1> QED BY <1>3, <1>4, <1>5

LEMMA LampStep ==
  ASSUME LampInv, [Lamp!Next]_lampVars
  PROVE  LampInv'
<1>1. CASE Lamp!Setup
  BY <1>1 DEF Lamp!Setup, Lamp!net, LampInv, Lamp!TypeOK
<1>2. CASE Lamp!Answer
  <2>1. answered' = [answered EXCEPT ![client] = open[client]]
    BY <1>2 DEF Lamp!Answer
  <2>2. answered \in [Clients -> BOOLEAN] /\ client \in Clients /\ open \in [Clients -> BOOLEAN]
    BY DEF LampInv, Lamp!TypeOK
  <2>3. answered' \in [Clients -> BOOLEAN]
    BY <2>1, <2>2
  <2> QED BY <1>2, <2>3, StopKeeps DEF Lamp!Answer
<1>3. CASE Lamp!ClientGone
  <2>1. answered' \in [Clients -> BOOLEAN]
    BY <1>3 DEF Lamp!ClientGone, LampInv, Lamp!TypeOK
  <2> QED BY <1>3, <2>1, StopKeeps DEF Lamp!ClientGone
<1>4. CASE UNCHANGED lampVars
  BY <1>4 DEF lampVars, LampInv, Lamp!TypeOK
<1> QED BY <1>1, <1>2, <1>3, <1>4, ServedFromTheFirst, ReadByteKeeps, VisitorKeeps
        DEF Lamp!Next, Lamp!Sketch

\* The end of a line that orders something: "GET /" and a command.
LEMMA OrderIs ==
  ASSUME NEW S, NEW line \in Seq(S), NEW k \in Lamp!Ordered(line)
  PROVE  /\ Len(line) > 1 /\ k = line[Len(line)] /\ line[Len(line) - 1] = "GET"
         /\ k \in DOMAIN Lamp!Commands
BY DEF Lamp!Ordered

LEMMA EndOf ==
  ASSUME NEW S, NEW s \in Seq(S), NEW line \in Seq(S), EndsWith(s, line), Len(line) > 1
  PROVE  /\ Len(s) > 1 /\ s[Len(s)] = line[Len(line)]
         /\ s[Len(s) - 1] = line[Len(line) - 1]
<1> DEFINE n == Len(line)
<1>1. n \in Nat /\ Len(s) \in Nat /\ n <= Len(s) /\ n > 1
  BY DEF EndsWith
<1>2. line = SubSeq(s, Len(s) - n + 1, Len(s))
  BY DEF EndsWith
<1>3. \A i \in 1 .. n : SubSeq(s, Len(s) - n + 1, Len(s))[i] = s[Len(s) - n + i]
  BY <1>1
<1>4. line[n] = s[Len(s) - n + n] /\ line[n - 1] = s[Len(s) - n + (n - 1)]
  <2>1. n \in 1 .. n /\ n - 1 \in 1 .. n
    BY <1>1
  <2> QED BY <1>2, <1>3, <2>1
<1>5. Len(s) - n + n = Len(s) /\ Len(s) - n + (n - 1) = Len(s) - 1
  BY <1>1
<1> QED BY <1>1, <1>4, <1>5

Obeyed ==
  \A l \in Lamp!Lamps : lamps'[l] # lamps[l] =>
    LET t == taken'[client]
    IN  Len(t) > 1 /\ t[Len(t) - 1] = "GET" /\ t[Len(t)] \in DOMAIN Lamp!Commands
        /\ Lamp!Commands[t[Len(t)]] = <<l, lamps'[l]>>

LEMMA ObeysRead ==
  ASSUME LampInv, Lamp!ReadByte
  PROVE  Obeyed
<1> SUFFICES ASSUME NEW l \in Lamp!Lamps, lamps'[l] # lamps[l]
             PROVE  LET t == taken'[client]
                    IN  Len(t) > 1 /\ t[Len(t) - 1] = "GET" /\ t[Len(t)] \in DOMAIN Lamp!Commands
                        /\ Lamp!Commands[t[Len(t)]] = <<l, lamps'[l]>>
  BY DEF Obeyed
<1> DEFINE line == currentLine'
           t == taken'[client]
<1>1. line \in Seq(Tokens) /\ t \in Seq(Tokens) /\ EndsWith(t, line)
  BY LineBecomes DEF LampInv, Lamp!TypeOK
<1>2. lamps' = [m \in Lamp!Lamps |->
                  IF \E k \in Lamp!Ordered(line) : Lamp!Commands[k][1] = m
                  THEN \E k \in Lamp!Ordered(line) : Lamp!Commands[k] = <<m, TRUE>>
                  ELSE lamps[m]]
  BY DEF Lamp!ReadByte
<1> HIDE DEF line, t
<1>3. PICK k \in Lamp!Ordered(line) : Lamp!Commands[k][1] = l
  BY <1>2
<1>4. lamps'[l] = (\E j \in Lamp!Ordered(line) : Lamp!Commands[j] = <<l, TRUE>>)
  BY <1>2, <1>3
<1>5. /\ Len(line) > 1 /\ k = line[Len(line)] /\ line[Len(line) - 1] = "GET"
      /\ k \in DOMAIN Lamp!Commands /\ \A j \in Lamp!Ordered(line) : j = k
  BY <1>1, OrderIs
<1>6. Len(t) > 1 /\ t[Len(t)] = k /\ t[Len(t) - 1] = "GET"
  BY <1>1, <1>5, EndOf
<1>7. lamps'[l] = (Lamp!Commands[k] = <<l, TRUE>>)
  BY <1>4, <1>5
<1>8. Lamp!Commands[k] = <<l, TRUE>> \/ Lamp!Commands[k] = <<l, FALSE>>
  <2>1. k \in {"RH", "RL", "GH", "GL"}
    BY <1>5 DEF Lamp!Commands
  <2>2. /\ Lamp!Commands["RH"] = <<"red", TRUE>> /\ Lamp!Commands["RL"] = <<"red", FALSE>>
        /\ Lamp!Commands["GH"] = <<"green", TRUE>> /\ Lamp!Commands["GL"] = <<"green", FALSE>>
    BY DEF Lamp!Commands
  <2>3. \/ Lamp!Commands[k] = <<Lamp!Commands[k][1], TRUE>>
        \/ Lamp!Commands[k] = <<Lamp!Commands[k][1], FALSE>>
    <3>5. ASSUME NEW colour, NEW on PROVE <<colour, on>>[1] = colour
      OBVIOUS
    <3>1. CASE k = "RH"
      BY ONLY <2>2, <3>1, <3>5, Zenon
    <3>2. CASE k = "RL"
      BY ONLY <2>2, <3>2, <3>5, Zenon
    <3>3. CASE k = "GH"
      BY ONLY <2>2, <3>3, <3>5, Zenon
    <3>4. CASE k = "GL"
      BY ONLY <2>2, <3>4, <3>5, Zenon
    <3> QED BY <2>1, <3>1, <3>2, <3>3, <3>4
  <2> QED BY <1>3, <2>3
<1>9. Lamp!Commands[k] = <<l, lamps'[l]>>
  <2>1. CASE Lamp!Commands[k] = <<l, TRUE>>
    BY <1>7, <2>1
  <2>2. CASE Lamp!Commands[k] = <<l, FALSE>>
    BY <1>7, <2>2
  <2> QED BY <1>8, <2>1, <2>2
<1> QED BY <1>5, <1>6, <1>9 DEF t

LEMMA LampObeys ==
  ASSUME LampInv, [Lamp!Next]_lampVars
  PROVE  Obeyed
<1>1. CASE Lamp!ReadByte
  BY <1>1, ObeysRead
<1>2. CASE ~ Lamp!ReadByte
  <2>1. lamps' = lamps
    BY <1>2 DEF Lamp!Next, Lamp!Sketch, Lamp!Setup, Lamp!Available, Lamp!Answer, Lamp!ClientGone,
                Lamp!Visit, Lamp!Send, Lamp!Leave, Lamp!sketch, lampVars
  <2> QED BY <2>1 DEF Obeyed
<1> QED BY <1>1, <1>2

-----------------------------------------------------------------------------
(* The adders                                                              *)

\* BCD_Filter splits a nibble into its decimal digits.
LEMMA Filtered ==
  ASSUME NEW n \in 0 .. 15
  PROVE  /\ Adders!Filter(n, 0).low \in 0 .. 9 /\ Adders!Filter(n, 0).high \in 0 .. 1
         /\ 10 * Adders!Filter(n, 0).high + Adders!Filter(n, 0).low = n
         /\ Adders!Filter(n, 0).low = n % 10
<1>1. /\ Adders!Filter(n, 0).low = (n + 6 * Adders!OverNine(n) + 0) % 16
      /\ Adders!Filter(n, 0).high = (n + 6 * Adders!OverNine(n) + 0) \div 16
  BY DEF Adders!Filter, Adders!Adder
<1>2. CASE n >= 10
  <2>1. Adders!OverNine(n) = 1
    BY <1>2 DEF Adders!OverNine
  <2> QED BY <1>1, <1>2, <2>1
<1>3. CASE ~ (n >= 10)
  <2>1. Adders!OverNine(n) = 0
    BY <1>3 DEF Adders!OverNine
  <2> QED BY <1>1, <1>3, <2>1
<1> QED BY <1>2, <1>3

\* A sum below sixteen has no carry.
LEMMA NoCarry ==
  ASSUME NEW x \in 0 .. 15
  PROVE  x % 16 = x /\ x \div 16 = 0
OBVIOUS

\* For nibbles on the inputs both circuits add.
LEMMA AddsRight ==
  ASSUME A \in 0 .. 15, B \in 0 .. 15
  PROVE  AddersAreRight
<1>1. Adders!DigitIsRight
  <2> SUFFICES ASSUME A \in 0 .. 9, B \in 0 .. 9
               PROVE  /\ Adders!BCDAdder(A, B).s = (A + B) % 10
                      /\ A + B < 16 => Adders!BCDAdder(A, B).co = (A + B) \div 10
    BY DEF Adders!DigitIsRight, Adders!Digit
  <2> DEFINE sum == (A + B) % 16
             correct == IF sum >= 10 \/ (A + B) \div 16 = 1 THEN 6 ELSE 0
  <2>1. /\ Adders!BCDAdder(A, B).s = (correct + sum) % 16
        /\ Adders!BCDAdder(A, B).co = (correct + sum) \div 16
    BY DEF Adders!BCDAdder, Adders!Adder, Adders!OverNine
  <2>2. CASE A + B < 10
    <3>1. sum = A + B /\ correct = 0
      BY <2>2
    <3> QED BY <2>1, <2>2, <3>1
  <2>3. CASE 10 <= A + B /\ A + B < 16
    <3>1. sum = A + B /\ correct = 6
      BY <2>3
    <3> QED BY <2>1, <2>3, <3>1
  <2>4. CASE 16 <= A + B
    <3>1. sum = A + B - 16 /\ correct = 6
      BY <2>4
    <3> QED BY <2>1, <2>4, <3>1
  <2>5. A + B < 10 \/ (10 <= A + B /\ A + B < 16) \/ 16 <= A + B
    OBVIOUS
  <2> HIDE DEF sum, correct
  <2> QED BY <2>2, <2>3, <2>4, <2>5
<1>2. Adders!SumIsRight
  <2> DEFINE fa == Adders!Filter(A, 0)
             fb == Adders!Filter(B, 0)
             low == Adders!Adder(fa.low, fb.low, 0)
             carried == Adders!Adder(fa.high, fb.high, low.co)
             f3 == Adders!Filter(low.s, 0)
             top == Adders!Filter(carried.s, carried.co)
             sum == Adders!BCDAdderV2(A, B)
  <2> SUFFICES ASSUME (A % 10) + (B % 10) < 16 PROVE 10 * sum.high + sum.low = A + B
    BY DEF Adders!SumIsRight
  <2>0. 10 * fa.high + fa.low = A /\ 10 * fb.high + fb.low = B
    BY Filtered
  <2>1. sum.low = f3.low /\ sum.high = (top.low + f3.high + 0) % 16
    BY DEF Adders!BCDAdderV2, Adders!Adder
  <2>2. /\ fa.low \in 0 .. 9 /\ fa.high \in 0 .. 1 /\ fb.low \in 0 .. 9 /\ fb.high \in 0 .. 1
        /\ fa.low + fb.low < 16
    BY Filtered
  <2>3. fa.low + fb.low \in 0 .. 15 /\ fa.low + fb.low + 0 = fa.low + fb.low
    BY ONLY <2>2
  <2>4. low.s = fa.low + fb.low /\ low.co = 0
    BY <2>3, NoCarry DEF Adders!Adder
  <2>5. fa.high + fb.high \in 0 .. 2 /\ fa.high + fb.high + low.co = fa.high + fb.high
    BY ONLY <2>2, <2>4
  <2>6. carried.s = fa.high + fb.high /\ carried.co = 0
    <3>1. fa.high + fb.high \in 0 .. 15
      BY <2>5
    <3> QED BY <2>5, <3>1, NoCarry DEF Adders!Adder
  <2>7. f3.low \in 0 .. 9 /\ f3.high \in 0 .. 1 /\ 10 * f3.high + f3.low = low.s
    BY <2>3, <2>4, Filtered
  <2>8. top.low = fa.high + fb.high
    <3>1. /\ fa.high + fb.high \in 0 .. 15
          /\ (fa.high + fb.high) % 10 = fa.high + fb.high
      BY <2>5
    <3> QED BY <2>6, <3>1, Filtered
  <2> HIDE DEF fa, fb, low, carried, f3, top, sum
  <2>9. ASSUME NEW la \in 0 .. 9, NEW lb \in 0 .. 9, NEW l \in 0 .. 9,
               NEW ha \in 0 .. 1, NEW hb \in 0 .. 1, NEW h \in 0 .. 1,
               10 * h + l = la + lb
        PROVE  10 * ((ha + hb + h + 0) % 16) + l = (10 * ha + la) + (10 * hb + lb)
    <3>1. ha + hb + h + 0 = ha + hb + h /\ ha + hb + h \in 0 .. 15
      BY <2>9
    <3>2. (ha + hb + h + 0) % 16 = ha + hb + h
      BY <3>1, NoCarry
    <3> QED BY <2>9, <3>2
  <2>10. 10 * f3.high + f3.low = fa.low + fb.low
    BY <2>4, <2>7
  <2>11. sum.low = f3.low /\ sum.high = (fa.high + fb.high + f3.high + 0) % 16
    BY <2>1, <2>8
  <2>12. f3.low \in 0 .. 9 /\ f3.high \in 0 .. 1
    BY ONLY <2>7
  <2>13. fa.low \in 0 .. 9 /\ fb.low \in 0 .. 9 /\ fa.high \in 0 .. 1 /\ fb.high \in 0 .. 1
    BY ONLY <2>2
  <2>14. 10 * ((fa.high + fb.high + f3.high + 0) % 16) + f3.low
           = (10 * fa.high + fa.low) + (10 * fb.high + fb.low)
    BY ONLY <2>9, <2>10, <2>12, <2>13
  <2> QED BY ONLY <2>0, <2>11, <2>14
<1> QED BY <1>1, <1>2 DEF AddersAreRight

-----------------------------------------------------------------------------
(* All devices                                                             *)

\* A step of the devices is one of each, or none.
LEMMA StepOfEach ==
  ASSUME [DevicesNext]_devicesVars
  PROVE  /\ NextP \/ ([JoinNext]_joinVars /\ UNCHANGED sketchVars)
         /\ [Dht!Next]_dhtVars /\ [Lamp!Next]_lampVars
         /\ [Next]_<<guardsEveryCoin, vars>>
         /\ (A' \in 0 .. 15 /\ B' \in 0 .. 15) \/ UNCHANGED adderVars
<1>1. UNCHANGED machineVars => UNCHANGED <<guardsEveryCoin, vars>>
  BY DEF machineVars, vars
<1>2. CASE UNCHANGED devicesVars
  BY <1>1, <1>2 DEF devicesVars
<1>3. CASE Only("sensor") /\ NextP
  BY <1>1, <1>3 DEF Only
<1>4. CASE Only("wifi") /\ JoinNext
  BY <1>1, <1>4 DEF Only
<1>5. CASE Only("dht") /\ Dht!Next
  BY <1>1, <1>5 DEF Only
<1>6. CASE Only("lamp") /\ Lamp!Next
  BY <1>1, <1>6 DEF Only
<1>7. CASE Only("machine") /\ Next
  BY <1>1, <1>7 DEF Only
<1>8. CASE Only("adders") /\ Adders!Apply
  BY <1>1, <1>8 DEF Only, Adders!Apply, Adders!Nibbles
<1> QED BY <1>2, <1>3, <1>4, <1>5, <1>6, <1>7, <1>8 DEF DevicesNext

\* What all devices keep.
AllInv == WaitInv /\ SketchInv /\ DhtInv /\ LampInv /\ TypeOK /\ CoffeeIsPaid
            /\ A \in 0 .. 15 /\ B \in 0 .. 15

LEMMA AllAtFirst == DevicesInit => AllInv
BY WaitInit, SketchInit, DhtInit, LampInit, MachineTypes, PaidAtFirst
   DEF DevicesInit, InitP, AllInv, Adders!Init, Adders!Nibbles

LEMMA AllStep ==
  ASSUME AllInv, [DevicesNext]_devicesVars
  PROVE  AllInv'
<1>1. WaitInv'
  BY StepOfEach, SketchWaits, WaitStep DEF AllInv
<1>2. SketchInv'
  <2>1. CASE NextP
    BY <2>1, SketchStep DEF AllInv
  <2>2. CASE UNCHANGED sketchVars
    BY <1>1, <2>2 DEF AllInv, WaitInv, sketchVars, SketchInv, TypeOKP, RoundIsOneSample
  <2> QED BY <2>1, <2>2, StepOfEach
<1>3. DhtInv' /\ LampInv'
  BY StepOfEach, DhtStep, LampStep DEF AllInv
<1>4. TypeOK' /\ CoffeeIsPaid'
  BY StepOfEach, MachineTypesStep, PaidStep DEF AllInv
<1>5. A' \in 0 .. 15 /\ B' \in 0 .. 15
  BY StepOfEach DEF AllInv, adderVars
<1> QED BY <1>1, <1>2, <1>3, <1>4, <1>5 DEF AllInv

LEMMA AllKept == DevicesSpec => []AllInv
<1>1. AllInv /\ [DevicesNext]_devicesVars => AllInv'
  BY AllStep
<1> QED BY <1>1, AllAtFirst, PTL DEF DevicesSpec

\* All six devices keep their types; the three messages of a round of the sensor
\* sketch are of one correct measurement, through lost WiFi, failed reads and joins;
\* and a waiting call of WiFiClass returns undecided only when its time is over.
THEOREM DevicesHold == DevicesSpec => []DevicesInv
<1>1. AllInv => DevicesInv
  BY DEF AllInv, DevicesInv, SketchInv, LampInv, WaitInv
<1> QED BY <1>1, AllKept, PTL

\* Of whatever device a behaviour is: no coffee without three coins, no credit
\* without a coin, no digit with two glyphs, no sale without its letter.
THEOREM SalesHold == DevicesSpec => []SalesInv
<1>1. AllInv => SalesInv
  BY Legible DEF AllInv, SalesInv
<1> QED BY <1>1, AllKept, PTL

\* The sketch starts a round of messages only when an interval has passed since the
\* last one, whatever millis() wraps to and however long begin() kept it waiting.
THEOREM RoundsHoldPace == DevicesSpec => NoBurst
<1>1. AllInv => [StartRound => since >= Interval]_pubVars
  BY RoundBegins DEF AllInv
<1> QED BY <1>1, AllKept, PTL DEF NoBurst

\* With a sensor that measures within its range: a value the driver reports is the
\* one that was sent (no single wrong bit and no broken reception passes the sum), it
\* was asked for less than a minimal interval ago if it is kept from before, and it is
\* in that range; the first reading after begin() asks the sensor. The clock may wrap
\* and readings may be forced. Only the range needs the assumption on the sensor.
THEOREM ReadingsHold ==
  DevicesSpec => /\ [](Dht!OnlyWhatWasMeasured /\ Dht!FreshEnough) /\ Dht!FirstReadingIsDue
                 /\ MeasuresInRange => ReadingIsTrue
<1>1. AllInv => Dht!OnlyWhatWasMeasured /\ Dht!FreshEnough
  BY DEF AllInv, DhtInv
<1>2. AllInv /\ [DevicesNext]_devicesVars
        => [begun = "begin" /\ begun' = "read" => ~ result'.cached]_Dht!vars
  BY StepOfEach, DhtStep DEF AllInv
<1>3. DevicesSpec => [](Dht!OnlyWhatWasMeasured /\ Dht!FreshEnough)
  BY <1>1, AllKept, PTL
<1>4. DevicesSpec => Dht!FirstReadingIsDue
  BY <1>2, AllKept, PTL DEF DevicesSpec, Dht!FirstReadingIsDue
<1>5. MeasuresInRange => (DevicesSpec => []Dht!InRange)
  <2> SUFFICES ASSUME MeasuresInRange PROVE DevicesSpec => []Dht!InRange
    OBVIOUS
  <2>1. AllInv => Dht!InRange
    BY RangeFollows DEF AllInv
  <2> QED BY <2>1, AllKept, PTL
<1>6. DevicesSpec /\ MeasuresInRange => ReadingIsTrue
  BY <1>3, <1>4, <1>5, PTL DEF ReadingIsTrue
<1> QED BY <1>3, <1>4, <1>6

\* The web server changes a lamp only for a line that one client sent whole and that
\* ends with "GET /" and the lamp's command: no line is put together of two clients'.
THEOREM LampsHold == DevicesSpec => LampsObey
<1>1. AllInv /\ [DevicesNext]_devicesVars => Obeyed
  BY StepOfEach, LampObeys DEF AllInv
<1>2. Obeyed => [\A l \in Lamp!Lamps : lamps'[l] # lamps[l] =>
                   LET t == taken'[client]
                   IN  Len(t) > 1 /\ t[Len(t) - 1] = "GET" /\ t[Len(t)] \in DOMAIN Lamp!Commands
                       /\ Lamp!Commands[t[Len(t)]] = <<l, lamps'[l]>>]_Lamp!vars
  BY DEF Obeyed
<1> QED BY <1>1, <1>2, AllKept, PTL DEF DevicesSpec, LampsObey, Lamp!LampsObey

\* For every two nibbles BCD_Adder's digit is that of the decimal sum, its carry too
\* below sixteen, and BCD_AdderV2's two digits are the sum when no binary carry of
\* the low digits comes between.
THEOREM AddersHold == DevicesSpec => []AddersAreRight
<1>1. AllInv => AddersAreRight
  BY AddsRight DEF AllInv
<1> QED BY <1>1, AllKept, PTL
=============================================================================

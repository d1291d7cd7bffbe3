--------------------------- MODULE VendingMachine ---------------------------
(***************************************************************************)
(* The drinks vending machine of the final submission (VendingMachineV4    *)
(* Final.vhd) as the synthesised circuit behaves: two clocked processes    *)
(* (state memory and counters, both cleared by the asynchronous Reset),    *)
(* the combinational next-state and output logic, and the latches that     *)
(* synthesis infers where a process leaves a signal unassigned.            *)
(*                                                                         *)
(* The four input switches are asynchronous to the clock: any of them may  *)
(* move between two clock edges.  A combinational process settles within   *)
(* the step that disturbs it, so every action ends with Settle.            *)
(***************************************************************************)
EXTENDS Integers

CONSTANTS
  SecTicks,   \* value of secDealy at which the state memory loads (50000000)
  SecMod,     \* the 26-bit register of "integer range 0 to 50000000" wraps here
  FiveTicks,  \* value of fiveSecDelay that lets s60 go (250000000)
  FiveMod,    \* the 28-bit register of fiveSecDelay wraps here
  DigitTicks  \* clock edges one digit of the display stays lit (2^17)

ASSUME ClockAssumption ==
  /\ SecMod \in Nat \ {0}  /\ SecTicks  \in 0 .. SecMod - 1
  /\ FiveMod \in Nat \ {0} /\ FiveTicks \in 0 .. FiveMod - 1
  /\ FiveMod % SecMod = 0          \* both widths are powers of two
  /\ DigitTicks \in Nat \ {0}

States   == {"idle", "s20", "s40", "s60"}
Switches == {"euroIn", "twentyCent", "tee", "coffee"}
Drinks   == {"tee", "coffee"}

VARIABLES
  Reset,            \* the reset line is high
  high,             \* the input switches that are '1'
  currentState,     \* register of State_Memory_Process
  nextState,        \* output of Next_State_Process, a latch while in s60
  secDealy, fiveSecDelay, Refresh_counter,   \* the free-running counters
  LED_s20, LED_s40  \* latched wherever Output_Process does not assign them

inputs   == <<Reset, high>>
counters == <<secDealy, fiveSecDelay, Refresh_counter>>
leds     == <<LED_s20, LED_s40>>
vars     == <<inputs, currentState, nextState, counters, leds>>

-----------------------------------------------------------------------------
(* Next_State_Process: the state the memory loads at the next tick.  In    *)
(* s60 nothing is assigned unless fiveSecDelay matches: the value held is  *)
(* whatever was computed last.                                             *)
-----------------------------------------------------------------------------
\* (a bug to be caught: the euro in the slot is not looked at)
AfterIdleAnyCoin(sw) == IF "twentyCent" \in sw THEN "s20" ELSE "idle"

AfterIdle(sw) == IF "twentyCent" \in sw /\ "euroIn" \notin sw THEN "s20" ELSE "idle"

\* (a bug to be caught: the branch commented out at line 85, without a coin)
AfterS20OnCoffee(sw) == IF {"twentyCent", "coffee"} \cap sw # {} THEN "s40" ELSE "s20"

AfterS20(sw) == IF "twentyCent" \in sw THEN "s40" ELSE "s20"

\* (a bug to be caught: without the branch at line 97 no switch means waiting)
AfterS40Waits(sw) ==
  IF "twentyCent" \in sw
  THEN IF "coffee" \in sw THEN "s60" ELSE "s40"
  ELSE IF "tee" \in sw THEN "idle" ELSE "s40"

AfterS40(sw) ==
  IF "twentyCent" \in sw
  THEN IF "coffee" \in sw THEN "s60" ELSE "s40"
  ELSE IF "tee" \in sw \/ "coffee" \notin sw THEN "idle" ELSE "s40"

\* (a bug to be caught: nobody looks at fiveSecDelay)
AfterS60Holds(five, held) == held

AfterS60(five, held) == IF five = FiveTicks THEN "idle" ELSE held

NextStateLogic(s, sw, five, held) ==
  CASE s = "idle" -> AfterIdle(sw)
    [] s = "s20"  -> AfterS20(sw)
    [] s = "s40"  -> AfterS40(sw)
    [] s = "s60"  -> AfterS60(five, held)

-----------------------------------------------------------------------------
(* Output_Process: the Mealy outputs.  Amounts are in units of ten cents   *)
(* except balance = 1, which the code uses for the whole euro.             *)
-----------------------------------------------------------------------------
Output(dispense, bal, ret, choice) ==
  [DispenseD |-> dispense, balance |-> bal, returnAmount |-> ret, drinksChoice |-> choice]

OutputIdle(sw) ==
  LET asked == sw \cap Drinks
  IN  IF "euroIn" \notin sw \/ asked = {} THEN Output(FALSE, 0, 0, {})
      ELSE Output(TRUE, 1,
                  CASE asked = {"tee"}    -> 6
                    [] asked = {"coffee"} -> 4
                    [] asked = Drinks     -> 0,
                  asked)

OutputS20(sw) ==
  LET asked == sw \cap Drinks
  IN  Output(FALSE, 2, 0, IF asked = Drinks THEN {} ELSE asked)

\* The branch for a third coin (line 181) is shadowed by the one at line 163.
OutputS40(sw) ==
  LET asked == sw \cap Drinks
  IN  Output(asked = {"tee"}, 4, 0, IF asked = Drinks THEN {} ELSE asked)

\* DispenseD is '1' in every branch, also in the one that returns everything.
OutputS60(sw) ==
  LET asked == sw \cap Drinks
  IN  CASE asked = {"coffee"} -> Output(TRUE, 6, 0, {"coffee"})
        [] asked = {"tee"}    -> Output(TRUE, 2, 2, {"tee"})
        [] OTHER              -> Output(TRUE, 6, 6, {})

OutputLogic(s, sw) ==
  CASE s = "idle" -> OutputIdle(sw)
    [] s = "s20"  -> OutputS20(sw)
    [] s = "s40"  -> OutputS40(sw)
    [] s = "s60"  -> OutputS60(sw)

\* (a bug to be caught: the lamp is not switched off at line 195)
LedS20Stays(s, held) == CASE s = "s20" -> TRUE [] s = "idle" -> FALSE [] OTHER -> held

LedS20Logic(s, held) == CASE s = "s20" -> TRUE [] s = "s60" -> held [] OTHER -> FALSE

LedS40Logic(s, held) == CASE s = "s40" -> TRUE [] s = "idle" -> FALSE [] OTHER -> held

outputs == OutputLogic(currentState, high)

-----------------------------------------------------------------------------
\* Every combinational process has run: its outputs follow the new registers
\* and inputs, its latches keep what they held.
Settle ==
  /\ nextState' = NextStateLogic(currentState', high', fiveSecDelay', nextState)
  /\ LED_s20' = LedS20Logic(currentState', LED_s20)
  /\ LED_s40' = LedS40Logic(currentState', LED_s40)

\* Configuration of the device loads the first state and clears the counters.
Init ==
  /\ Reset \in BOOLEAN
  /\ high \in SUBSET Switches
  /\ currentState = "idle"
  /\ nextState = AfterIdle(high)
  /\ secDealy = 0 /\ fiveSecDelay = 0 /\ Refresh_counter = 0
  /\ LED_s20 = FALSE /\ LED_s40 = FALSE

\* A customer moves one of the four switches.
MoveSwitch(k) ==
  /\ high' = IF k \in high THEN high \ {k} ELSE high \cup {k}
  /\ UNCHANGED <<Reset, currentState, counters>>
  /\ Settle

\* The asynchronous reset branch of State_Memory_Process and of Refresh.
AssertReset ==
  /\ ~Reset
  /\ Reset' = TRUE
  /\ currentState' = "idle"
  /\ secDealy' = 0 /\ fiveSecDelay' = 0 /\ Refresh_counter' = 0
  /\ UNCHANGED high
  /\ Settle

ReleaseReset ==
  /\ Reset
  /\ Reset' = FALSE
  /\ UNCHANGED <<high, currentState, counters>>
  /\ Settle

\* (a bug to be caught: the compare with secDealy is not an equality)
TickFrom == secDealy >= SecTicks

\* The edge on which the state memory loads nextState.
Tick == secDealy = SecTicks

\* (two bugs to be caught: a counter without a width, one that stops when full)
AdvanceUnbounded(counter, width) == counter + 1
AdvanceStops(counter, width) == IF counter = width - 1 THEN counter ELSE counter + 1

\* A counter counts one edge and wraps at the width of its register.
Advance(counter, width) == (counter + 1) % width

\* A rising edge: the counters advance and wrap at their register width, and
\* the state memory loads when secDealy has matched.
ClockEdge ==
  /\ ~Reset
  /\ secDealy' = Advance(secDealy, SecMod)
  /\ fiveSecDelay' = Advance(fiveSecDelay, FiveMod)
  /\ Refresh_counter' = Advance(Refresh_counter, 8 * DigitTicks)
  /\ currentState' = IF Tick THEN nextState ELSE currentState
  /\ UNCHANGED inputs
  /\ Settle

Next ==
  \/ \E k \in Switches : MoveSwitch(k)
  \/ AssertReset
  \/ ReleaseReset
  \/ ClockEdge

\* The oscillator never stops; customers and the reset button owe nothing.
Fairness == WF_vars(ClockEdge)

Spec == Init /\ [][Next]_vars

FairSpec == Spec /\ Fairness

-----------------------------------------------------------------------------
\* Every register holds a value of its width.
TypeOK ==
  /\ Reset \in BOOLEAN
  /\ high \in SUBSET Switches
  /\ currentState \in States /\ nextState \in States
  /\ secDealy \in 0 .. SecMod - 1
  /\ fiveSecDelay \in 0 .. FiveMod - 1
  /\ Refresh_counter \in 0 .. 8 * DigitTicks - 1
  /\ LED_s20 \in BOOLEAN /\ LED_s40 \in BOOLEAN

=============================================================================

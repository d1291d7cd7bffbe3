-------------------------- MODULE VendingIntegrated --------------------------
(***************************************************************************)
(* The machine before the final submission (IntegratedFinalVM.vhd, and     *)
(* VendingMIntegrated.vhd of the Xilinx project, which looks at all four   *)
(* switches): three states that move at every edge of the clock, Mealy     *)
(* outputs and the display.  Reset clears the state memory on '0' and the  *)
(* counter of the display on '1'.                                          *)
(*                                                                         *)
(* coins, coffees and teas are history: what the clock edges have sampled. *)
(***************************************************************************)
EXTENDS VendingDisplay

CONSTANTS
  DigitTicks,       \* clock edges one digit of the display stays lit (2^17)
  MaxSold           \* bound on what the history counts

ASSUME IntegratedAssumption == DigitTicks \in Nat \ {0} /\ MaxSold \in Nat

Switches == {"euroIn", "twentyCent", "tee", "coffee"}
Drinks   == {"tee", "coffee"}

VARIABLES
  guardsEveryCoin,  \* the version, which never changes: its outputs test the
                    \* switch of the other coin as well
  Reset,            \* the reset line is high
  high,             \* the input switches that are '1'
  currentState,
  Refresh_counter,
  coins,            \* twenty-cent coins the state memory has taken
  sold              \* drinks paid in coins that were out at an edge

vars == <<Reset, high, currentState, Refresh_counter, coins, sold>>

-----------------------------------------------------------------------------
\* (a bug to be caught: the choice of a coffee stands for the second coin)
NextStateOnChoice(s, sw) ==
  CASE s = "idle" /\ "twentyCent" \in sw           -> "s20"
    [] s = "s20" /\ {"twentyCent", "coffee"} \cap sw # {} -> "s40"
    [] s = "s40" /\ "twentyCent" \in sw            -> "idle"
    [] OTHER                                       -> s

\* Next_State_Process: a coin moves the machine on; the third one ends the sale.
NextState(s, sw) ==
  CASE s = "idle" /\ "twentyCent" \in sw -> "s20"
    [] s = "s20" /\ "twentyCent" \in sw  -> "s40"
    [] s = "s40" /\ "twentyCent" \in sw  -> "idle"
    [] OTHER                             -> s

Output(dispense, bal, ret, code) ==
  [DispenseD |-> dispense, balance |-> bal, returnAmount |-> ret, drinksChoice |-> code]

\* The switch of the other coin is low, where the version looks at it.
Alone(other, sw) == guardsEveryCoin => other \notin sw

\* A euro: tee (01), coffee (10) or both (11), and the change.
OutputIdle(sw) ==
  LET asked == sw \cap Drinks
  IN  IF "euroIn" \notin sw \/ asked = {} \/ ~Alone("twentyCent", sw)
      THEN Output(FALSE, 0, 0, 0)
      ELSE CASE asked = {"tee"}    -> Output(TRUE, 1, 6, 1)
             [] asked = {"coffee"} -> Output(TRUE, 1, 4, 2)
             [] asked = Drinks     -> Output(TRUE, 1, 0, 3)

\* The third coin buys a coffee, the two coins there already buy a tee.
OutputS40(sw) ==
  LET asked == sw \cap Drinks
  IN  CASE "twentyCent" \in sw /\ asked = {"coffee"} /\ Alone("euroIn", sw)
             -> Output(TRUE, 6, 0, 2)
        [] "twentyCent" \notin sw /\ asked = {"tee"} /\ Alone("euroIn", sw)
             -> Output(TRUE, 4, 0, 1)
        [] OTHER -> Output(FALSE, 4, 0, 0)

outputs ==
  CASE currentState = "idle" -> OutputIdle(high)
    [] currentState = "s20"  -> Output(FALSE, 2, 0, 0)
    [] currentState = "s40"  -> OutputS40(high)

-----------------------------------------------------------------------------
Init ==
  /\ guardsEveryCoin \in BOOLEAN
  /\ Reset \in BOOLEAN /\ high \in SUBSET Switches
  /\ currentState = "idle" /\ Refresh_counter = 0
  /\ coins = 0 /\ sold = [d \in Drinks |-> 0]

MoveSwitch(k) ==
  /\ high' = IF k \in high THEN high \ {k} ELSE high \cup {k}
  /\ UNCHANGED <<Reset, currentState, Refresh_counter, coins, sold>>

\* Reset rises: the counter is cleared, the state memory is set free.
RaiseReset ==
  /\ ~Reset /\ Reset' = TRUE
  /\ Refresh_counter' = 0
  /\ UNCHANGED <<high, currentState, coins, sold>>

\* Reset falls: the state memory is cleared, the counter is set free.
LowerReset ==
  /\ Reset /\ Reset' = FALSE
  /\ currentState' = "idle"
  /\ UNCHANGED <<high, Refresh_counter, coins, sold>>

\* What the edge finds dispensed for coins is sold.
SoldAt(d) == IF /\ Reset /\ currentState = "s40" /\ outputs.DispenseD
                /\ outputs.drinksChoice = (IF d = "tee" THEN 1 ELSE 2)
             THEN sold[d] + 1 ELSE sold[d]

Refreshed == (Refresh_counter + 1) % (8 * DigitTicks)

ClockEdge ==
  /\ coins < 3 * MaxSold /\ \A d \in Drinks : sold[d] < MaxSold
  /\ currentState' = IF Reset THEN NextState(currentState, high) ELSE "idle"
  /\ Refresh_counter' = IF Reset THEN 0 ELSE Refreshed
  /\ coins' = IF Reset /\ "twentyCent" \in high THEN coins + 1 ELSE coins
  /\ sold' = [d \in Drinks |-> SoldAt(d)]
  /\ UNCHANGED <<Reset, high>>

Next == /\ (\E k \in Switches : MoveSwitch(k)) \/ RaiseReset \/ LowerReset \/ ClockEdge
        /\ UNCHANGED guardsEveryCoin

Spec == Init /\ [][Next]_<<guardsEveryCoin, vars>>

-----------------------------------------------------------------------------
Shown == Turn(outputs.drinksChoice, outputs)
Letters == {s.glyph : s \in {t \in Shown : t.at \in {6, 7}}}

(* Types.                                                                  *)
TypeOK ==
  /\ guardsEveryCoin \in BOOLEAN /\ Reset \in BOOLEAN /\ high \subseteq Switches
  /\ currentState \in {"idle", "s20", "s40"}
  /\ Refresh_counter \in 0 .. 8 * DigitTicks - 1
  /\ coins \in 0 .. 3 * MaxSold /\ sold \in [Drinks -> 0 .. MaxSold]

(* Whatever order switches, edges and reset come in, every coffee paid in  *)
(* coins and the credit that is left have coins of their own behind them.  *)
CoffeeIsPaid ==
  3 * sold["coffee"] + (CASE currentState = "s40" -> 2 [] currentState = "s20" -> 1
                          [] OTHER -> 0) <= coins

(* No digit is given two glyphs within one turn of the counter, and a      *)
(* sale lights a letter (not always that of its drink: the code this       *)
(* machine has for a tee is the display's code for a coffee).              *)
LegibleSale ==
  /\ \A s, t \in Shown : s.at = t.at => s.glyph = t.glyph
  /\ outputs.drinksChoice # 0 => Letters \cap {"t", "C"} # {}
=============================================================================

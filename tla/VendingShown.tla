---------------------------- MODULE VendingShown ----------------------------
(***************************************************************************)
(* What the customer of the final machine reads: VendingMachine's outputs  *)
(* on VendingDisplay's digits, beside VendingLedger's account of the sale. *)
(***************************************************************************)
EXTENDS VendingLedger, VendingDisplay

\* (a bug to be caught: the code of the comment at line 122, 01 for tee)
CodeCommented == IF outputs.drinksChoice = {"tee"} THEN 1
                 ELSE IF outputs.drinksChoice = {"coffee"} THEN 2
                 ELSE IF outputs.drinksChoice = Drinks THEN 3 ELSE 0

\* drinksChoice as Output_Process writes it.
Code == (IF "coffee" \in outputs.drinksChoice THEN 1 ELSE 0)
        + (IF "tee" \in outputs.drinksChoice THEN 2 ELSE 0)

\* (a bug to be caught: the digit is taken from bits that are too low)
LedActivationLow == Refresh_counter % 8
Led_activation == Refresh_counter \div DigitTicks

Shown == Turn(Code, outputs)
At(position) == CHOOSE glyph \in {s.glyph : s \in Shown} : [at |-> position, glyph |-> glyph] \in Shown

-----------------------------------------------------------------------------
(* No digit is given two glyphs within one turn of the counter: what is    *)
(* lit one after the other adds up to one picture.                         *)
Legible == \A s, t \in Shown : s.at = t.at => s.glyph = t.glyph

Digits == [g \in {"0", "1", "4", "6"} |-> CASE g = "0" -> 0 [] g = "1" -> 1 [] g = "4" -> 4
                                            [] g = "6" -> 6]
(* A drink is shown by its letter and by its own price; and whatever is    *)
(* dispensed for a euro with change, price and change make up the euro.    *)
TellsTheDrink ==
  /\ "t" \in {At(7), At(6)} <=> "tee" \in outputs.drinksChoice
  /\ "C" \in {At(7), At(6)} <=> "coffee" \in outputs.drinksChoice
  /\ 10 * Digits[At(5)] + Digits[At(4)] = Price(outputs.drinksChoice)
  /\ outputs.balance = 1 => Price(outputs.drinksChoice) + outputs.returnAmount = 10

(* While the machine is not reset every digit is lit again and again, and  *)
(* for DigitTicks edges each time.                                         *)
EveryDigitIsLit ==
  <>[]~Reset => \A act \in LedActivations : []<>(Led_activation = act)
DigitsStayLit ==
  [][Led_activation' # Led_activation /\ ~Reset' => Refresh_counter' % DigitTicks = 0]_vars

(* The display tells the sale: at every moment the picture of one turn is   *)
(* legible and that of the drink, and the turns go on at their pace.       *)
DisplayTellsSale == [](Legible /\ TellsTheDrink) /\ DigitsStayLit /\ EveryDigitIsLit
=============================================================================

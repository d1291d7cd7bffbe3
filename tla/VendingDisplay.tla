--------------------------- MODULE VendingDisplay ---------------------------
(***************************************************************************)
(* DisplayBCD and CallDisp, the same in all versions of the machine: one   *)
(* digit of the eight is lit at a time, chosen by the three upper bits of  *)
(* Refresh_counter, and shows one glyph.  The processes are combinational  *)
(* in the circuit.                                                         *)
(***************************************************************************)
EXTENDS Naturals

LedActivations == 0 .. 7

\* CallDisp: the glyph of a value of DataDisp (a letter, or a digit).
GlyphOf(data) ==
  CASE data = 5  -> "t"  [] data = 7  -> "n"  [] data = 9  -> "d"
    [] data = 10 -> "0." [] data = 11 -> "1." [] data = 12 -> "2."
    [] data = 13 -> "C"  [] data = 14 -> "E"  [] data = 15 -> "F"
    [] data = 0  -> "0"  [] data = 1  -> "1"  [] data = 2  -> "2"
    [] data = 3  -> "3"  [] data = 4  -> "4"  [] data = 6  -> "6"  [] data = 8 -> "8"

\* (a bug to be caught: the last branch lights the digit of the one before)
PositionShort(act) == IF act < 5 THEN 7 - act ELSE 1

\* An0: which of the eight digits is lit, the leftmost being 7; digit 2 never is.
Position(act) == CASE act < 5 -> 7 - act [] act = 5 -> 1 [] OTHER -> 0

\* DataDisp, from sw0 (the code of drinksChoice) and the other outputs.
DataDisp(act, code, out) ==
  CASE act = 0 -> (CASE code \in {1, 3} -> 13 [] code = 2 -> 5 [] OTHER -> 0)
    [] act = 1 -> (IF code = 3 THEN 5 ELSE 0)
    [] act = 2 -> (IF code = 3 THEN 1 ELSE 0)
    [] act = 3 -> (CASE code = 1 -> 6 [] code = 2 -> 4 [] OTHER -> 0)
    [] act = 4 -> (IF out.DispenseD THEN 9 ELSE 7)
    [] act = 5 -> out.balance
    [] OTHER   -> out.returnAmount

\* What one turn of Refresh_counter shows: a glyph at each digit that is lit.
Turn(code, out) ==
  {[at |-> Position(act), glyph |-> GlyphOf(DataDisp(act, code, out))] : act \in LedActivations}
=============================================================================

---------------------------- MODULE BcdArithmetic ----------------------------
(***************************************************************************)
(* The decimal adders of the labs: combinational circuits over two inputs  *)
(* of four bits, applied one after the other as their test benches do.     *)
(* A sum is a digit with its carry.                                        *)
(***************************************************************************)
EXTENDS Naturals

Nibbles == 0 .. 15
Digit   == 0 .. 9

\* RCA and RCAV2: four full adders in a row.
Adder(a, b, cin) == [s |-> (a + b + cin) % 16, co |-> (a + b + cin) \div 16]

\* (a bug to be caught: bit 1 is not looked at)
OverNineHalf(n) == IF n >= 12 THEN 1 ELSE 0
\* Bits 3 and 2, or 3 and 1.
OverNine(n) == IF n >= 10 THEN 1 ELSE 0

\* BCD_Filter, of one input: four bits and a carry as two decimal digits.
Filter(n, cin) ==
  LET sum == Adder(n, 6 * OverNine(n), cin) IN [high |-> sum.co, low |-> sum.s]

\* BCD_Adder: six is added to a sum that is no digit; C is that adder's carry.
BCDAdder(a, b) ==
  LET sum     == Adder(a, b, 0)
      correct == IF OverNine(sum.s) = 1 \/ sum.co = 1 THEN 6 ELSE 0
  IN  Adder(correct, sum.s, 0)

\* (a bug to be caught: the carry of the low digits is left out)
BCDAdderV2NoCarry(a, b) ==
  LET fa == Filter(a, 0)  fb == Filter(b, 0)
      low  == Adder(fa.low, fb.low, 0)
      high == Adder(fa.high, fb.high, low.co)
  IN  [high |-> Filter(high.s, high.co).low, low |-> Filter(low.s, 0).low]

\* BCD_AdderV2: both inputs as decimal digits, added digit by digit and filtered.
BCDAdderV2(a, b) ==
  LET fa == Filter(a, 0)  fb == Filter(b, 0)
      low  == Adder(fa.low, fb.low, 0)
      high == Adder(fa.high, fb.high, low.co)
      f3   == Filter(low.s, 0)
  IN  [high |-> Adder(Filter(high.s, high.co).low, f3.high, 0).s, low |-> f3.low]

-----------------------------------------------------------------------------
VARIABLES A, B
Init  == A \in Nibbles /\ B \in Nibbles
Apply == A' \in Nibbles /\ B' \in Nibbles
Spec  == Init /\ [][Apply]_<<A, B>>

(* BCD_Adder: of two decimal digits the digit of the sum is right, and the *)
(* carry too as long as the binary sum has none.                           *)
DigitIsRight ==
  A \in Digit /\ B \in Digit =>
    /\ BCDAdder(A, B).s = (A + B) % 10
    /\ A + B < 16 => BCDAdder(A, B).co = (A + B) \div 10

(* BCD_AdderV2 adds any two inputs whose low digits sum to less than 16.   *)
SumIsRight ==
  (A % 10) + (B % 10) < 16 =>
    10 * BCDAdderV2(A, B).high + BCDAdderV2(A, B).low = A + B
=============================================================================

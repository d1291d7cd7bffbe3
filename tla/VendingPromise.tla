--------------------------- MODULE VendingPromise ---------------------------
(***************************************************************************)
(* What the vending machine promises a customer who pays in 20-cent coins, *)
(* without clocks, counters or latches: the credit grows one coin at a     *)
(* time, each time because a coin is there, and goes back to nothing only  *)
(* for a tea, for a coffee, as a donation, or because somebody pressed     *)
(* reset.  VendingMachine implements it (VendingLedger!Promise).           *)
(***************************************************************************)
EXTENDS Integers

VARIABLES
  reset,   \* the reset button is down
  sw,      \* the switches that are up: coins in the slot and drinks asked for
  credit   \* 20-cent coins credited since the last sale

vars == <<reset, sw, credit>>

Switches == {"euroIn", "twentyCent", "tee", "coffee"}

Init == reset \in BOOLEAN /\ sw \in SUBSET Switches /\ credit = 0

\* A euro in the slot keeps the first coin from counting, and only a coin
\* with coffee asked for makes a third.
CoinCounts ==
  /\ credit < 3
  /\ "twentyCent" \in sw
  /\ credit = 0 => "euroIn" \notin sw
  /\ credit = 2 => "coffee" \in sw

CreditCoin == ~reset /\ CoinCounts /\ credit' = credit + 1 /\ UNCHANGED <<reset, sw>>

SellTea ==
  /\ ~reset /\ credit = 2 /\ "twentyCent" \notin sw /\ "tee" \in sw
  /\ credit' = 0 /\ UNCHANGED <<reset, sw>>

\* Forty cents and no drink asked for: "you are donating it".
KeepDonation ==
  /\ ~reset /\ credit = 2 /\ sw \cap {"twentyCent", "tee", "coffee"} = {}
  /\ credit' = 0 /\ UNCHANGED <<reset, sw>>

SellCoffee == ~reset /\ credit = 3 /\ credit' = 0 /\ UNCHANGED <<reset, sw>>

Customer == sw' \in SUBSET Switches /\ UNCHANGED <<reset, credit>>

PressReset == ~reset /\ reset' = TRUE /\ credit' = 0 /\ UNCHANGED sw

ReleaseReset == reset /\ reset' = FALSE /\ UNCHANGED <<sw, credit>>

Next ==
  \/ CreditCoin \/ SellTea \/ KeepDonation \/ SellCoffee
  \/ Customer \/ PressReset \/ ReleaseReset

Safety == Init /\ [][Next]_vars

\* A coffee that is paid for is eventually handed over.
Spec == Safety /\ WF_vars(SellCoffee)

=============================================================================

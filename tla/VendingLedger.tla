---------------------------- MODULE VendingLedger ----------------------------
(***************************************************************************)
(* VendingMachine with the two observations a customer would make of it:   *)
(* how many 20-cent coins the ticks have sampled since the sale began, and *)
(* for how many clock edges the current state has been shown.  Both are    *)
(* history variables: they saturate at their bound and constrain nothing.  *)
(***************************************************************************)
EXTENDS VendingMachine

CONSTANTS
  MaxPaid,   \* bound of the coin count
  MaxDwell   \* bound of the dwell count

ASSUME LedgerAssumption ==
  /\ MaxPaid \in Nat /\ MaxPaid >= 3
  /\ MaxDwell \in Nat /\ MaxDwell >= SecMod - 1 /\ MaxDwell >= FiveMod

VARIABLES
  paid,   \* ticks that sampled twentyCent since the machine left idle
  dwell   \* clock edges since currentState last changed

lvars == <<vars, paid, dwell>>

UpTo(bound, n) == IF n < bound THEN n ELSE bound

InitL == Init /\ paid = 0 /\ dwell = 0

MoveSwitchL(k) == MoveSwitch(k) /\ UNCHANGED <<paid, dwell>>

AssertResetL == AssertReset /\ paid' = 0 /\ dwell' = 0

ReleaseResetL == ReleaseReset /\ UNCHANGED <<paid, dwell>>

ClockEdgeL ==
  /\ ClockEdge
  /\ paid' = IF currentState' = "idle" THEN 0
             ELSE IF Tick /\ "twentyCent" \in high THEN UpTo(MaxPaid, paid + 1)
             ELSE paid
  /\ dwell' = IF currentState' = currentState THEN UpTo(MaxDwell, dwell + 1) ELSE 0

NextL ==
  \/ \E k \in Switches : MoveSwitchL(k)
  \/ AssertResetL
  \/ ReleaseResetL
  \/ ClockEdgeL

SpecL == InitL /\ [][NextL]_lvars

FairSpecL == SpecL /\ WF_lvars(ClockEdgeL)

-----------------------------------------------------------------------------
TypeOKL == TypeOK /\ paid \in 0 .. MaxPaid /\ dwell \in 0 .. MaxDwell

\* Price of a set of drinks in units of ten cents: tea 4, coffee 6.
Price(choice) ==
  (IF "tee" \in choice THEN 4 ELSE 0) + (IF "coffee" \in choice THEN 6 ELSE 0)

\* What the state says the customer has paid, in units of ten cents.
Credit == CASE currentState = "idle" -> 10
            [] currentState = "s20"  -> 2
            [] currentState = "s40"  -> 4
            [] currentState = "s60"  -> 6

\* Whatever the machine hands out is paid for: while DispenseD is '1' the
\* price of the drinks shown and the change shown add up to the credit, and
\* that credit was really sampled, coin by coin or as a euro that is there.
Solvent ==
  outputs.DispenseD =>
    /\ Price(outputs.drinksChoice) + outputs.returnAmount = Credit
    /\ IF currentState = "idle" THEN "euroIn" \in high ELSE Credit <= 2 * paid

\* The lamps are latches that some states leave unassigned, and still tell
\* the credit: LED_s20 in s20 only, LED_s40 from the second coin on.
LampsTellCredit ==
  /\ LED_s20 <=> currentState = "s20"
  /\ LED_s40 <=> currentState \in {"s40", "s60"}

\* Between two changes of state lies a whole period of secDealy (after a
\* reset, the part of it before the match): a bouncing or held switch cannot
\* drive the credit faster than one coin per period, and a drink is shown for
\* at least one.
OneChangePerPeriod ==
  [][ (currentState' # currentState /\ ~Reset') =>
        /\ dwell >= SecTicks
        /\ currentState # "idle" => dwell >= SecMod - 1 ]_lvars

\* fiveSecDelay is never started, it free-runs; still s60 is left within one
\* turn of it, whenever it was entered.
DispenseWithinOneTurn == currentState = "s60" => dwell < FiveMod

\* The two free-running counters never drift apart, so the match of
\* fiveSecDelay has the same place between two ticks in every turn.
CountersInStep == secDealy = fiveSecDelay % SecMod

\* Forty cents and no switch moved up: the machine keeps the money.
DonationKept == (currentState = "s40" /\ high = {}) ~> (currentState = "idle" \/ high # {})

\* The refinement mapping to the credit protocol.
Coins == CASE currentState = "idle" -> 0
           [] currentState = "s20"  -> 1
           [] currentState = "s40"  -> 2
           [] currentState = "s60"  -> 3

Protocol == INSTANCE VendingPromise WITH reset <- Reset, sw <- high, credit <- Coins

\* The clocked machine with its counters and latches implements the credit
\* protocol: every step of it is a step of the protocol or none.
Promise == Protocol!Safety

\* The same with the protocol's fairness: a paid coffee is handed over.
PromiseKept == Protocol!Spec

\* No sale hangs: a coffee that is paid for is handed over, as the protocol
\* promises, and forty cents nobody uses are taken as a donation.
SalesEnd == PromiseKept /\ DonationKept

-----------------------------------------------------------------------------
\* What nextState can hold: the logic's value everywhere but in s60, where
\* the latch keeps the s60 it was entered with until it lets go to idle.
Settled ==
  IF currentState = "s60" THEN nextState \in {"s60", "idle"}
  ELSE nextState = NextStateLogic(currentState, high, fiveSecDelay, nextState)

\* Each state beyond idle has that many sampled coins behind it.
CoinsSampled == Coins <= paid

\* Edges since the last match of secDealy, if there has been one.
SinceTick ==
  IF secDealy > SecTicks THEN secDealy - SecTicks - 1 ELSE secDealy + SecMod - SecTicks - 1

\* The dwell counter has counted at least the edges since the last tick; in
\* idle, which a reset enters at any time, at least those since the counter
\* was last at zero.
DwellCovers ==
  /\ dwell >= (IF secDealy > SecTicks THEN SinceTick ELSE secDealy)
  /\ currentState # "idle" => dwell >= SinceTick

\* Edges since fiveSecDelay last moved on from its match, or was cleared.
SinceMatch ==
  IF fiveSecDelay > FiveTicks THEN fiveSecDelay - FiveTicks - 1
  ELSE fiveSecDelay + FiveMod - FiveTicks - 1

\* s60 is entered at a tick, so the dwell counter and the ticks stay in phase;
\* and as long as the latch holds s60 no match has come by since.
DispensePhase ==
  currentState = "s60" =>
    /\ dwell < FiveMod /\ dwell % SecMod = SinceTick
    /\ nextState = "s60" => fiveSecDelay # FiveTicks /\ dwell <= SinceMatch

\* The inductive invariant of the machine.
MachineInv == TypeOKL /\ Settled /\ LampsTellCredit /\ CoinsSampled /\ DispensePhase

-----------------------------------------------------------------------------
\* "fiveSecDelay" (line 36) and its test in s60 (line 102) name the time a
\* coffee is shown; it should be at least FiveTicks edges.
CoffeeForFiveSeconds ==
  [][ (currentState = "s60" /\ currentState' # "s60" /\ ~Reset') => dwell >= FiveTicks ]_lvars

=============================================================================

---------------------------- MODULE VendingProofs ----------------------------
(***************************************************************************)
(* Theorems about VendingMachine, VendingLedger and VendingShown for every *)
(* width of the counters and every place of their matches.                 *)
(***************************************************************************)
EXTENDS VendingShown, TLAPS

\* The next-state logic yields a state, whatever it is given.
LEMMA NextStateLogicType ==
  ASSUME NEW s \in States, NEW sw \in SUBSET Switches, NEW five, NEW held \in States
  PROVE  NextStateLogic(s, sw, five, held) \in States
BY DEF NextStateLogic, AfterIdle, AfterS20, AfterS40, AfterS60, States

\* The lamp logic yields a boolean.
LEMMA LampLogicType ==
  ASSUME NEW s \in States, NEW held \in BOOLEAN
  PROVE  LedS20Logic(s, held) \in BOOLEAN /\ LedS40Logic(s, held) \in BOOLEAN
BY DEF LedS20Logic, LedS40Logic, States

\* Settling the combinational logic restores the types of what it drives.
LEMMA SettleType ==
  ASSUME TypeOK, Settle, currentState' \in States, high' \in SUBSET Switches
  PROVE  nextState' \in States /\ LED_s20' \in BOOLEAN /\ LED_s40' \in BOOLEAN
BY NextStateLogicType, LampLogicType DEF Settle, TypeOK

\* Type correctness of the machine and of its history variables.
THEOREM TypeCorrect == SpecL => []TypeOKL
<1>1. ASSUME InitL PROVE TypeOKL
  <2>1. /\ Reset \in BOOLEAN /\ high \in SUBSET Switches
        /\ currentState \in States /\ nextState \in States
        /\ LED_s20 \in BOOLEAN /\ LED_s40 \in BOOLEAN
    BY <1>1 DEF InitL, Init, States, AfterIdle
  <2>2. /\ secDealy \in 0 .. SecMod - 1
        /\ fiveSecDelay \in 0 .. FiveMod - 1
        /\ Refresh_counter \in 0 .. 8 * DigitTicks - 1
        /\ paid \in 0 .. MaxPaid /\ dwell \in 0 .. MaxDwell
    BY <1>1, ClockAssumption, LedgerAssumption
       DEF InitL, Init, ClockAssumption, LedgerAssumption
  <2>3. QED BY <2>1, <2>2 DEF TypeOKL, TypeOK
<1>2. TypeOKL /\ [NextL]_lvars => TypeOKL'
  <2> SUFFICES ASSUME TypeOKL, [NextL]_lvars PROVE TypeOKL'
    OBVIOUS
  <2>1. ASSUME NEW k \in Switches, MoveSwitchL(k) PROVE TypeOKL'
    <3>1. high' \in SUBSET Switches
      BY <2>1 DEF MoveSwitchL, MoveSwitch, TypeOKL, TypeOK
    <3>2. nextState' \in States /\ LED_s20' \in BOOLEAN /\ LED_s40' \in BOOLEAN
      BY <2>1, <3>1, SettleType DEF MoveSwitchL, MoveSwitch, TypeOKL, TypeOK
    <3>3. QED BY <2>1, <3>1, <3>2 DEF MoveSwitchL, MoveSwitch, TypeOKL, TypeOK, counters
  <2>2. CASE AssertResetL
    <3>1. nextState' \in States /\ LED_s20' \in BOOLEAN /\ LED_s40' \in BOOLEAN
      BY <2>2, SettleType DEF AssertResetL, AssertReset, TypeOKL, TypeOK, States
    <3>2. QED BY <2>2, <3>1, ClockAssumption, LedgerAssumption
       DEF ClockAssumption, LedgerAssumption, AssertResetL, AssertReset, TypeOKL, TypeOK, States
  <2>3. CASE ReleaseResetL
    <3>1. nextState' \in States /\ LED_s20' \in BOOLEAN /\ LED_s40' \in BOOLEAN
      BY <2>3, SettleType DEF ReleaseResetL, ReleaseReset, TypeOKL, TypeOK
    <3>2. QED BY <2>3, <3>1 DEF ReleaseResetL, ReleaseReset, TypeOKL, TypeOK, counters
  <2>4. CASE ClockEdgeL
    <3>1. currentState' \in States /\ high' \in SUBSET Switches
      BY <2>4 DEF ClockEdgeL, ClockEdge, Advance, TypeOKL, TypeOK, inputs
    <3>2. nextState' \in States /\ LED_s20' \in BOOLEAN /\ LED_s40' \in BOOLEAN
      BY <2>4, <3>1, SettleType DEF ClockEdgeL, ClockEdge, Advance, TypeOKL
    <3>3. /\ secDealy' \in 0 .. SecMod - 1
          /\ fiveSecDelay' \in 0 .. FiveMod - 1
          /\ Refresh_counter' \in 0 .. 8 * DigitTicks - 1
      BY <2>4, ClockAssumption DEF ClockAssumption, ClockEdgeL, ClockEdge, Advance, TypeOKL, TypeOK
    <3>4. paid' \in 0 .. MaxPaid /\ dwell' \in 0 .. MaxDwell
      BY <2>4, LedgerAssumption DEF LedgerAssumption, ClockEdgeL, UpTo, TypeOKL
    <3>5. QED
      BY <2>4, <3>1, <3>2, <3>3, <3>4 DEF ClockEdgeL, ClockEdge, Advance, TypeOKL, TypeOK, inputs
  <2>5. CASE UNCHANGED lvars
    BY <2>5 DEF TypeOKL, TypeOK, lvars, vars, inputs, counters, leds
  <2>6. QED BY <2>1, <2>2, <2>3, <2>4, <2>5 DEF NextL
<1>3. QED BY <1>1, <1>2, PTL DEF SpecL

-----------------------------------------------------------------------------
\* The combinational logic alone restores Settled after every step that
\* enters no state but by loading nextState.
LEMMA SettleSettles ==
  ASSUME TypeOK, Settle, currentState' \in States,
         currentState' = "s60" => nextState \in {"s60", "idle"}
  PROVE  Settled'
<1>1. CASE currentState' = "s60"
  BY <1>1 DEF Settle, Settled, NextStateLogic, AfterS60
<1>2. CASE currentState' # "s60"
  <2>1. currentState' \in {"idle", "s20", "s40"}
    BY <1>2 DEF States
  <2>2. QED BY <1>2, <2>1 DEF Settle, Settled, NextStateLogic
<1>3. QED BY <1>1, <1>2

\* The lamps follow any change of state that the next-state logic makes.
LEMMA LampsFollow ==
  ASSUME TypeOK, Settle, LampsTellCredit, currentState' \in States,
         \/ currentState' = currentState
         \/ currentState' = "idle"
         \/ currentState = "idle" /\ currentState' = "s20"
         \/ currentState = "s20" /\ currentState' = "s40"
         \/ currentState = "s40" /\ currentState' = "s60"
  PROVE  LampsTellCredit'
BY DEF Settle, LampsTellCredit, LedS20Logic, LedS40Logic, States, TypeOK

\* A tick moves the state along idle, s20, s40, s60 one coin at a time, or
\* back to idle from s40 or s60.
LEMMA TickMoves ==
  ASSUME TypeOK, Settled
  PROVE  \/ nextState = currentState
         \/ nextState = "idle" /\ currentState \in {"s40", "s60"}
         \/ "twentyCent" \in high /\ currentState = "idle" /\ nextState = "s20"
         \/ "twentyCent" \in high /\ currentState = "s20" /\ nextState = "s40"
         \/ "twentyCent" \in high /\ currentState = "s40" /\ nextState = "s60"
<1>1. CASE currentState = "idle"
  BY <1>1 DEF Settled, NextStateLogic, AfterIdle
<1>2. CASE currentState = "s20"
  BY <1>2 DEF Settled, NextStateLogic, AfterS20
<1>3. CASE currentState = "s40"
  BY <1>3 DEF Settled, NextStateLogic, AfterS40
<1>4. CASE currentState = "s60"
  BY <1>4 DEF Settled
<1>5. QED BY <1>1, <1>2, <1>3, <1>4 DEF TypeOK, States

-----------------------------------------------------------------------------
\* What each step of NextL does to the state register, stated once.
LEMMA Steps ==
  ASSUME TypeOKL, Settled, NextL
  PROVE  /\ Settle
         /\ currentState' \in States
         /\ \/ currentState' = currentState
            \/ currentState' = "idle"
            \/ currentState' = nextState
         /\ currentState' = "s60" => nextState \in {"s60", "idle"}
<1>1. ASSUME NEW k \in Switches, MoveSwitchL(k) PROVE Settle /\ currentState' = currentState
  BY <1>1 DEF MoveSwitchL, MoveSwitch
<1>2. CASE AssertResetL
  BY <1>2 DEF AssertResetL, AssertReset, States
<1>3. CASE ReleaseResetL
  BY <1>3 DEF ReleaseResetL, ReleaseReset, TypeOKL, TypeOK, Settled
<1>4. CASE ClockEdgeL
  BY <1>4 DEF ClockEdgeL, ClockEdge, Advance, TypeOKL, TypeOK, Settled
<1>5. QED BY <1>1, <1>2, <1>3, <1>4 DEF NextL, TypeOKL, TypeOK, Settled

\* The credit a state stands for is covered by sampled coins.
LEMMA CoinsStaySampled ==
  ASSUME MachineInv, NextL
  PROVE  CoinsSampled'
<1> USE DEF MachineInv
<1>1. ASSUME NEW k \in Switches, MoveSwitchL(k) PROVE CoinsSampled'
  BY <1>1 DEF MoveSwitchL, MoveSwitch, CoinsSampled, Coins
<1>2. CASE AssertResetL
  BY <1>2 DEF AssertResetL, AssertReset, CoinsSampled, Coins
<1>3. CASE ReleaseResetL
  BY <1>3 DEF ReleaseResetL, ReleaseReset, CoinsSampled, Coins
<1>4. CASE ClockEdgeL
  <2>1. CASE currentState' = currentState
    <3>1. CASE currentState' = "idle"
      <4>1. paid' = 0
        BY <3>1, <1>4 DEF ClockEdgeL
      <4>2. QED BY <3>1, <4>1 DEF CoinsSampled, Coins
    <3>2. CASE currentState' # "idle"
      <4>1. paid' >= paid /\ paid' \in Nat
        BY <3>2, <1>4, LedgerAssumption DEF ClockEdgeL, UpTo, TypeOKL, LedgerAssumption
      <4>2. Coins' = Coins /\ Coins \in Nat
        BY <2>1 DEF Coins, TypeOKL, TypeOK, States
      <4>3. QED BY <4>1, <4>2 DEF CoinsSampled, TypeOKL
    <3>3. QED BY <3>1, <3>2
  <2>2. CASE currentState' # currentState /\ currentState' = "idle"
    <3>1. paid' = 0
      BY <2>2, <1>4 DEF ClockEdgeL
    <3>2. QED BY <2>2, <3>1 DEF CoinsSampled, Coins
  <2>3. CASE currentState' # currentState /\ currentState' # "idle"
    <3>1. /\ Tick
          /\ currentState' = nextState
      BY <2>3, <1>4 DEF ClockEdgeL, ClockEdge, Advance
    <3>2. /\ "twentyCent" \in high
          /\ \/ currentState = "idle" /\ nextState = "s20"
             \/ currentState = "s20" /\ nextState = "s40"
             \/ currentState = "s40" /\ nextState = "s60"
      BY <2>3, <3>1, TickMoves DEF TypeOKL
    <3>3. paid' = UpTo(MaxPaid, paid + 1)
      BY <2>3, <3>1, <3>2, <1>4 DEF ClockEdgeL
    <3>4. Coins' = Coins + 1 /\ Coins \in 0 .. 2
      BY <3>1, <3>2 DEF Coins
    <3>5. QED BY <3>3, <3>4, LedgerAssumption DEF CoinsSampled, UpTo, LedgerAssumption, TypeOKL
  <2>4. QED BY <2>1, <2>2, <2>3
<1>5. QED BY <1>1, <1>2, <1>3, <1>4 DEF NextL

-----------------------------------------------------------------------------
\* A register of m values that counts up either advances or wraps to zero.
LEMMA WrapStep ==
  ASSUME NEW m \in Nat \ {0}, NEW c \in 0 .. m - 1
  PROVE  (c + 1) % m = IF c = m - 1 THEN 0 ELSE c + 1
OBVIOUS

\* Division with remainder is unique.
LEMMA RemainderUnique ==
  ASSUME NEW m \in Nat \ {0}, NEW q \in Int, NEW r \in 0 .. m - 1
  PROVE  (q * m + r) % m = r
OBVIOUS

\* Less than q times m, and a remainder below m - 1: the next number is below too.
LEMMA NextBelow ==
  ASSUME NEW m \in Nat \ {0}, NEW q \in Nat, NEW n \in 0 .. q * m - 1, (n % m) # m - 1
  PROVE  n + 1 < q * m /\ (n + 1) % m = (n % m) + 1
<1>1. PICK d \in Int, r \in 0 .. m - 1 : n = d * m + r /\ n % m = r
  <2>1. n = (n \div m) * m + (n % m) /\ n \div m \in Int /\ (n % m) \in 0 .. m - 1
    OBVIOUS
  <2>2. QED BY <2>1
<1>2. r + 1 \in 0 .. m - 1 /\ n + 1 = d * m + (r + 1)
  BY <1>1
<1>3. (d * m + (r + 1)) % m = r + 1
  BY <1>2, RemainderUnique
<1>4. (n + 1) % m = r + 1
  BY <1>2, <1>3
<1>5. n + 1 # q * m
  <2>1. (q * m + 0) % m = 0
    BY RemainderUnique
  <2>2. (q * m) % m = 0
    BY <2>1
  <2>3. QED BY <1>1, <1>4, <2>2
<1>6. QED BY <1>1, <1>4, <1>5

\* What an edge does to the three distances DispensePhase is about.
LEMMA EdgeDistances ==
  ASSUME MachineInv, ClockEdgeL
  PROVE  /\ SinceTick \in 0 .. SecMod - 1
         /\ Tick <=> SinceTick = SecMod - 1
         /\ SinceTick' = IF Tick THEN 0 ELSE SinceTick + 1
         /\ SinceMatch \in 0 .. FiveMod - 1
         /\ fiveSecDelay # FiveTicks => SinceMatch' = SinceMatch + 1 /\ SinceMatch < FiveMod - 1
<1> USE ClockAssumption DEF ClockAssumption, MachineInv, TypeOKL, TypeOK
<1>1. secDealy' = IF secDealy = SecMod - 1 THEN 0 ELSE secDealy + 1
  BY WrapStep DEF ClockEdgeL, ClockEdge, Advance
<1>2. fiveSecDelay' = IF fiveSecDelay = FiveMod - 1 THEN 0 ELSE fiveSecDelay + 1
  BY WrapStep DEF ClockEdgeL, ClockEdge, Advance
<1>3. /\ SinceTick \in 0 .. SecMod - 1
      /\ Tick <=> SinceTick = SecMod - 1
  BY DEF SinceTick, Tick
<1>4. SinceTick' = IF Tick THEN 0 ELSE SinceTick + 1
  BY <1>1 DEF SinceTick, Tick
<1>5. SinceMatch \in 0 .. FiveMod - 1
  BY DEF SinceMatch
<1>6. fiveSecDelay # FiveTicks => SinceMatch' = SinceMatch + 1 /\ SinceMatch < FiveMod - 1
  BY <1>2 DEF SinceMatch
<1>7. QED BY <1>3, <1>4, <1>5, <1>6

\* The phase of the coffee is kept by every edge of the clock.
LEMMA EdgeKeepsPhase ==
  ASSUME MachineInv, ClockEdgeL, TypeOKL'
  PROVE  DispensePhase'
<1> SUFFICES ASSUME currentState' = "s60"
             PROVE  /\ dwell' < FiveMod /\ dwell' % SecMod = SinceTick'
                    /\ nextState' = "s60" => fiveSecDelay' # FiveTicks /\ dwell' <= SinceMatch'
  BY DEF DispensePhase
<1> USE ClockAssumption, LedgerAssumption DEF ClockAssumption, LedgerAssumption
<1>1. nextState' = "s60" => fiveSecDelay' # FiveTicks
  BY DEF ClockEdgeL, ClockEdge, Settle, NextStateLogic, AfterS60
<1>2. CASE currentState # "s60"
  <2>1. Tick /\ dwell' = 0
    BY <1>2 DEF ClockEdgeL, ClockEdge, Advance
  <2>2. SinceTick' = 0
    BY <2>1, EdgeDistances
  <2>3. 0 % SecMod = 0
    <3>1. (0 * SecMod + 0) % SecMod = 0
      BY RemainderUnique
    <3>2. QED BY <3>1
  <2>4. SinceMatch' \in Nat
    <3>1. PICK five \in 0 .. FiveMod - 1 : fiveSecDelay' = five
      BY DEF TypeOKL, TypeOK
    <3>2. SinceMatch' = IF five > FiveTicks THEN five - FiveTicks - 1
                        ELSE five + FiveMod - FiveTicks - 1
      BY <3>1 DEF SinceMatch
    <3>3. QED BY <3>2
  <2>5. QED BY <1>1, <2>1, <2>2, <2>3, <2>4
<1>3. CASE currentState = "s60"
  <2>1. dwell \in 0 .. FiveMod - 1 /\ dwell % SecMod = SinceTick
    BY <1>3 DEF MachineInv, TypeOKL, DispensePhase
  <2>2. dwell' = dwell + 1
    BY <1>3, <2>1 DEF ClockEdgeL, UpTo
  <2>3. PICK q \in Nat : FiveMod = q * SecMod
    OBVIOUS
  <2>4. nextState' = "s60" => nextState = "s60" /\ fiveSecDelay # FiveTicks /\ dwell <= SinceMatch
    <3>1. nextState' = "s60" => nextState = "s60"
      BY DEF ClockEdgeL, ClockEdge, Settle, NextStateLogic, AfterS60
    <3>2. QED BY <1>3, <3>1 DEF MachineInv, DispensePhase
  <2>5. nextState' = "s60" => dwell' <= SinceMatch'
    BY <2>1, <2>2, <2>4, EdgeDistances
  <2>6. CASE ~Tick
    <3>1. dwell + 1 < q * SecMod /\ (dwell + 1) % SecMod = (dwell % SecMod) + 1
      <4>1. dwell \in 0 .. q * SecMod - 1
        BY <2>1, <2>3
      <4>2. (dwell % SecMod) # SecMod - 1
        BY <2>1, <2>6, EdgeDistances
      <4>3. SecMod \in Nat \ {0}
        BY ClockAssumption DEF ClockAssumption
      <4> HIDE ClockAssumption, LedgerAssumption
      <4>4. PICK n \in Nat, m \in Nat \ {0} : n = dwell /\ m = SecMod
        BY <2>1, <4>3
      <4>5. n \in 0 .. q * m - 1 /\ (n % m) # m - 1
        BY <4>1, <4>2, <4>4
      <4>6. n + 1 < q * m /\ (n + 1) % m = (n % m) + 1
        BY <4>5, NextBelow
      <4>7. QED BY <4>4, <4>6
    <3>2. QED BY <1>1, <2>1, <2>2, <2>3, <2>5, <2>6, <3>1, EdgeDistances
  <2>7. CASE Tick
    \* The latch holds s60, so no match has come: dwell is short of a turn.
    <3>1. nextState = "s60"
      BY <2>7 DEF ClockEdgeL, ClockEdge, Advance
    <3>2. dwell < FiveMod - 1
      <4>1. fiveSecDelay # FiveTicks /\ dwell <= SinceMatch
        BY <1>3, <3>1 DEF MachineInv, DispensePhase
      <4>2. QED BY <2>1, <4>1, EdgeDistances
    <3>3. dwell % SecMod = SecMod - 1 /\ SinceTick' = 0
      BY <2>1, <2>7, EdgeDistances
    <3>4. (dwell + 1) % SecMod = 0
      <4>1. dwell = (dwell \div SecMod) * SecMod + (SecMod - 1) /\ dwell \div SecMod \in Int
        BY <2>1, <3>3
      <4>2. dwell + 1 = (dwell \div SecMod + 1) * SecMod + 0
        BY <4>1
      <4>3. QED BY <4>1, <4>2, RemainderUnique
    <3>5. QED BY <1>1, <2>1, <2>2, <2>5, <3>2, <3>3, <3>4
  <2>8. QED BY <2>6, <2>7
<1>4. QED BY <1>2, <1>3

\* Nothing but an edge of the clock moves what the phase is about.
LEMMA PhaseKept ==
  ASSUME MachineInv, NextL, TypeOKL'
  PROVE  DispensePhase'
<1>1. ASSUME NEW k \in Switches, MoveSwitchL(k) PROVE DispensePhase'
  BY <1>1 DEF MoveSwitchL, MoveSwitch, Settle, NextStateLogic, AfterS60, counters, MachineInv,
              DispensePhase, SinceTick, SinceMatch
<1>2. CASE AssertResetL
  BY <1>2 DEF AssertResetL, AssertReset, DispensePhase
<1>3. CASE ReleaseResetL
  BY <1>3 DEF ReleaseResetL, ReleaseReset, Settle, NextStateLogic, AfterS60, counters, MachineInv,
              DispensePhase, SinceTick, SinceMatch
<1>4. CASE ClockEdgeL
  BY <1>4, EdgeKeepsPhase
<1>5. QED BY <1>1, <1>2, <1>3, <1>4 DEF NextL

\* The inductive invariant holds in every reachable state.
THEOREM MachineInvariant == SpecL => []MachineInv
<1>1. InitL => Settled /\ LampsTellCredit /\ CoinsSampled /\ DispensePhase
  BY DEF InitL, Init, DispensePhase, Settled, NextStateLogic, LampsTellCredit, CoinsSampled, Coins
<1>2. MachineInv /\ TypeOKL' /\ [NextL]_lvars => MachineInv'
  <2> SUFFICES ASSUME MachineInv, TypeOKL', [NextL]_lvars PROVE MachineInv'
    OBVIOUS
  <2> USE DEF MachineInv
  <2>1. CASE NextL
    <3>1. Settled'
      BY <2>1, Steps, SettleSettles DEF TypeOKL
    <3>2. LampsTellCredit'
      <4>1. \/ currentState' = currentState
            \/ currentState' = "idle"
            \/ currentState = "idle" /\ currentState' = "s20"
            \/ currentState = "s20" /\ currentState' = "s40"
            \/ currentState = "s40" /\ currentState' = "s60"
        BY <2>1, Steps, TickMoves DEF TypeOKL
      <4>2. TypeOK /\ Settle /\ LampsTellCredit /\ currentState' \in States
        BY <2>1, Steps DEF TypeOKL
      <4>3. QED BY <4>1, <4>2, LampsFollow
    <3>3. CoinsSampled'
      BY <2>1, CoinsStaySampled
    <3>4. DispensePhase'
      BY <2>1, PhaseKept
    <3>5. QED BY <3>1, <3>2, <3>3, <3>4
  <2>2. CASE UNCHANGED lvars
    BY <2>2 DEF lvars, vars, inputs, counters, leds, Settled, LampsTellCredit, CoinsSampled, Coins,
                DispensePhase, SinceTick, SinceMatch,
                NextStateLogic, AfterIdle, AfterS20, AfterS40, AfterS60
  <2>3. QED BY <2>1, <2>2
<1>3. QED BY <1>1, <1>2, TypeCorrect, PTL DEF SpecL, MachineInv

\* The lamps, latched or not, always tell the credit.
THEOREM LampsCorrect == SpecL => []LampsTellCredit
<1>1. MachineInv => LampsTellCredit
  BY DEF MachineInv
<1>2. QED BY <1>1, MachineInvariant, PTL

\* No drink and no change is given that was not paid for.
THEOREM AlwaysSolvent == SpecL => []Solvent
<1>1. ASSUME MachineInv PROVE Solvent
  <2> USE <1>1 DEF MachineInv, TypeOKL, TypeOK
  <2> DEFINE asked == high \cap Drinks
  <2>1. asked \in {{}, {"tee"}, {"coffee"}, Drinks}
    BY DEF Drinks
  <2>2. CASE currentState = "idle"
    BY <2>1, <2>2 DEF Solvent, outputs, OutputLogic, OutputIdle, Output, Price, Credit, Drinks
  <2>3. CASE currentState = "s20"
    BY <2>3 DEF Solvent, outputs, OutputLogic, OutputS20, Output
  <2>4. CASE currentState = "s40"
    <3>1. outputs = OutputS40(high)
      BY <2>4 DEF outputs, OutputLogic
    <3>2. CASE asked = {"tee"}
      <4>1. outputs.drinksChoice = {"tee"} /\ outputs.returnAmount = 0
        BY <3>1, <3>2 DEF OutputS40, Output, Drinks
      <4>2. QED BY <4>1, <2>4 DEF Solvent, Price, Credit, CoinsSampled, Coins
    <3>3. CASE asked # {"tee"}
      BY <3>1, <3>3 DEF OutputS40, Output, Solvent
    <3>4. QED BY <3>2, <3>3
  <2>5. CASE currentState = "s60"
    BY <2>1, <2>5 DEF Solvent, outputs, OutputLogic, OutputS60, Output, Price, Credit, Drinks,
                      CoinsSampled, Coins
  <2>6. QED BY <2>2, <2>3, <2>4, <2>5 DEF States
<1>2. QED BY <1>1, MachineInvariant, PTL

\* A coffee is shown for less than one turn of fiveSecDelay, whenever s60 was
\* entered, although nothing ever starts that counter.
THEOREM CoffeeWithinOneTurn == SpecL => []DispenseWithinOneTurn
<1>1. MachineInv => DispenseWithinOneTurn
  BY DEF MachineInv, DispensePhase, DispenseWithinOneTurn
<1>2. QED BY <1>1, MachineInvariant, PTL

-----------------------------------------------------------------------------
\* A state lasts a whole period of secDealy between two ticks.
THEOREM ChangePace == SpecL => OneChangePerPeriod
<1>1. InitL => DwellCovers
  BY ClockAssumption DEF InitL, Init, DwellCovers, ClockAssumption
<1>2. TypeOKL /\ DwellCovers /\ [NextL]_lvars => DwellCovers'
  <2> SUFFICES ASSUME TypeOKL, DwellCovers, [NextL]_lvars PROVE DwellCovers'
    OBVIOUS
  <2>1. ASSUME NEW k \in Switches, MoveSwitchL(k) PROVE DwellCovers'
    BY <2>1 DEF MoveSwitchL, MoveSwitch, counters, DwellCovers, SinceTick
  <2>2. CASE AssertResetL
    BY <2>2, ClockAssumption DEF AssertResetL, AssertReset, DwellCovers, ClockAssumption
  <2>3. CASE ReleaseResetL
    BY <2>3 DEF ReleaseResetL, ReleaseReset, counters, DwellCovers, SinceTick
  <2>4. CASE ClockEdgeL
    <3>1. secDealy' = IF secDealy = SecMod - 1 THEN 0 ELSE secDealy + 1
      BY <2>4, WrapStep, ClockAssumption
         DEF ClockAssumption, ClockEdgeL, ClockEdge, Advance, TypeOKL, TypeOK
    <3>2. CASE Tick
      <4>1. dwell' \in Nat
        BY <2>4, LedgerAssumption DEF LedgerAssumption, ClockEdgeL, UpTo, TypeOKL
      <4>2. secDealy' \in {0, SecTicks + 1} /\ (secDealy' = 0 => SecTicks = SecMod - 1)
        BY <3>1, <3>2, ClockAssumption DEF ClockAssumption, Tick
      <4>3. SinceTick' = 0
        <5>1. SecTicks \in Int /\ SecMod \in Int /\ SecTicks >= 0
          BY ClockAssumption DEF ClockAssumption
        <5>2. CASE secDealy' = 0
          BY <4>2, <5>1, <5>2 DEF SinceTick
        <5>3. CASE secDealy' = SecTicks + 1
          BY <5>1, <5>3 DEF SinceTick
        <5>4. QED BY <4>2, <5>2, <5>3
      <4>4. ~(secDealy' > SecTicks) => secDealy' = 0
        BY <4>2, ClockAssumption DEF ClockAssumption
      <4>5. QED BY <4>1, <4>3, <4>4 DEF DwellCovers
    <3>3. CASE ~Tick
      <4>1. currentState' = currentState /\ dwell' = UpTo(MaxDwell, dwell + 1)
        BY <2>4, <3>3 DEF ClockEdgeL, ClockEdge, Advance
      <4>2. secDealy \in 0 .. SecMod - 1 /\ secDealy # SecTicks /\ dwell \in Nat
        BY <3>3 DEF Tick, TypeOKL, TypeOK
      <4>3. QED BY <3>1, <4>1, <4>2, ClockAssumption, LedgerAssumption
                DEF ClockAssumption, LedgerAssumption, DwellCovers, SinceTick, UpTo
    <3>4. QED BY <3>2, <3>3
  <2>5. CASE UNCHANGED lvars
    BY <2>5 DEF lvars, vars, counters, DwellCovers, SinceTick
  <2>6. QED BY <2>1, <2>2, <2>3, <2>4, <2>5 DEF NextL
<1>3. TypeOKL /\ DwellCovers /\ [NextL]_lvars =>
        [ (currentState' # currentState /\ ~Reset') =>
            /\ dwell >= SecTicks
            /\ currentState # "idle" => dwell >= SecMod - 1 ]_lvars
  <2> SUFFICES ASSUME TypeOKL, DwellCovers, NextL, currentState' # currentState, ~Reset'
               PROVE  dwell >= SecTicks /\ (currentState # "idle" => dwell >= SecMod - 1)
    OBVIOUS
  <2>1. Tick
    BY DEF NextL, MoveSwitchL, MoveSwitch, AssertResetL, AssertReset, ReleaseResetL, ReleaseReset,
           ClockEdgeL, ClockEdge, Advance
  <2>2. QED BY <2>1, ClockAssumption DEF ClockAssumption, Tick, DwellCovers, SinceTick
<1>4. QED BY <1>1, <1>2, <1>3, TypeCorrect, PTL DEF SpecL, OneChangePerPeriod

\* The counters never drift apart.
THEOREM CountersStayInStep == SpecL => []CountersInStep
<1>1. InitL => CountersInStep
  BY RemainderUnique, ClockAssumption DEF InitL, Init, CountersInStep, ClockAssumption
<1>2. TypeOKL /\ CountersInStep /\ [NextL]_lvars => CountersInStep'
  <2> SUFFICES ASSUME TypeOKL, CountersInStep, [NextL]_lvars PROVE CountersInStep'
    OBVIOUS
  <2>1. CASE ClockEdgeL
    <3> DEFINE q == fiveSecDelay \div SecMod
    <3>1. /\ secDealy' = IF secDealy = SecMod - 1 THEN 0 ELSE secDealy + 1
          /\ fiveSecDelay' = IF fiveSecDelay = FiveMod - 1 THEN 0 ELSE fiveSecDelay + 1
      BY <2>1, WrapStep, ClockAssumption
         DEF ClockAssumption, ClockEdgeL, ClockEdge, Advance, TypeOKL, TypeOK
    <3>2. q \in Int /\ fiveSecDelay = q * SecMod + secDealy
      BY ClockAssumption DEF ClockAssumption, CountersInStep, TypeOKL, TypeOK
    <3>3. CASE fiveSecDelay # FiveMod - 1
      <4>1. CASE secDealy # SecMod - 1
        <5>1. fiveSecDelay' = q * SecMod + (secDealy + 1) /\ secDealy' = secDealy + 1
          BY <3>1, <3>2, <3>3, <4>1, ClockAssumption DEF ClockAssumption, TypeOKL, TypeOK
        <5>2. secDealy + 1 \in 0 .. SecMod - 1
          BY <4>1, ClockAssumption DEF ClockAssumption, TypeOKL, TypeOK
        <5>3. QED BY <3>2, <5>1, <5>2, RemainderUnique, ClockAssumption
                  DEF ClockAssumption, CountersInStep
      <4>2. CASE secDealy = SecMod - 1
        <5>1. fiveSecDelay' = (q + 1) * SecMod + 0 /\ secDealy' = 0
          BY <3>1, <3>2, <3>3, <4>2, ClockAssumption DEF ClockAssumption, TypeOKL, TypeOK
        <5>2. QED BY <3>2, <5>1, RemainderUnique, ClockAssumption
                  DEF ClockAssumption, CountersInStep
      <4>3. QED BY <4>1, <4>2
    <3>4. CASE fiveSecDelay = FiveMod - 1
      <4>1. PICK n \in Int : FiveMod = n * SecMod
        BY ClockAssumption DEF ClockAssumption
      <4>2. fiveSecDelay = (n - 1) * SecMod + (SecMod - 1)
        BY <3>4, <4>1, ClockAssumption DEF ClockAssumption
      <4>3. secDealy = SecMod - 1
        BY <4>2, RemainderUnique, ClockAssumption DEF ClockAssumption, CountersInStep
      <4>4. QED BY <3>1, <3>4, <4>3, RemainderUnique, ClockAssumption
                DEF ClockAssumption, CountersInStep
    <3>5. QED BY <3>3, <3>4
  <2>2. CASE AssertResetL
    BY <2>2, RemainderUnique, ClockAssumption
       DEF AssertResetL, AssertReset, CountersInStep, ClockAssumption
  <2>3. CASE ~ClockEdgeL /\ ~AssertResetL
    BY <2>3 DEF NextL, MoveSwitchL, MoveSwitch, ReleaseResetL, ReleaseReset, lvars, vars, counters,
                CountersInStep
  <2>4. QED BY <2>1, <2>2, <2>3
<1>3. QED BY <1>1, <1>2, TypeCorrect, PTL DEF SpecL

-----------------------------------------------------------------------------
\* The clocked machine implements the credit protocol.
THEOREM KeepsPromise == SpecL => Promise
<1>1. InitL => Protocol!Init
  BY DEF InitL, Init, Protocol!Init, Protocol!Switches, Switches, Coins
<1>2. MachineInv /\ [NextL]_lvars => [Protocol!Next]_(Protocol!vars)
  <2> SUFFICES ASSUME MachineInv, [NextL]_lvars
               PROVE  Protocol!Next \/ UNCHANGED <<Reset, high, Coins>>
    BY DEF Protocol!vars
  <2> USE DEF MachineInv, TypeOKL, TypeOK
  <2>1. ASSUME NEW k \in Switches, MoveSwitchL(k) PROVE Protocol!Next
    <3>1. high' \in SUBSET Switches /\ Reset' = Reset /\ currentState' = currentState
      BY <2>1 DEF MoveSwitchL, MoveSwitch
    <3>2. Protocol!Customer
      BY <3>1 DEF Protocol!Customer, Protocol!Switches, Switches, Coins
    <3>3. QED BY <3>2 DEF Protocol!Next
  <2>2. CASE AssertResetL
    <3>1. Protocol!PressReset
      BY <2>2 DEF AssertResetL, AssertReset, Protocol!PressReset, Coins
    <3>2. QED BY <3>1 DEF Protocol!Next
  <2>3. CASE ReleaseResetL
    <3>1. Protocol!ReleaseReset
      BY <2>3 DEF ReleaseResetL, ReleaseReset, Protocol!ReleaseReset, Coins
    <3>2. QED BY <3>1 DEF Protocol!Next
  <2>4. CASE ClockEdgeL
    <3>1. UNCHANGED <<Reset, high>> /\ ~Reset
      BY <2>4 DEF ClockEdgeL, ClockEdge, Advance, inputs
    <3>2. CASE currentState' = currentState
      BY <3>1, <3>2 DEF Coins
    <3>3. CASE currentState' # currentState
      <4>1. currentState' = nextState
        BY <2>4, <3>3 DEF ClockEdgeL, ClockEdge, Advance
      <4>2. CASE currentState = "idle"
        <5>1. Protocol!CreditCoin
          BY <3>1, <3>3, <4>1, <4>2
             DEF Settled, NextStateLogic, AfterIdle, Protocol!CreditCoin, Protocol!CoinCounts, Coins
        <5>2. QED BY <5>1 DEF Protocol!Next
      <4>3. CASE currentState = "s20"
        <5>1. Protocol!CreditCoin
          BY <3>1, <3>3, <4>1, <4>3
             DEF Settled, NextStateLogic, AfterS20, Protocol!CreditCoin, Protocol!CoinCounts, Coins
        <5>2. QED BY <5>1 DEF Protocol!Next
      <4>4. CASE currentState = "s40"
        <5>1. nextState = AfterS40(high) /\ Coins = 2
          BY <4>4 DEF Settled, NextStateLogic, Coins
        <5>2. CASE currentState' = "s60"
          <6>1. "twentyCent" \in high /\ "coffee" \in high
            BY <4>1, <5>1, <5>2 DEF AfterS40
          <6>2. Coins' = 3
            BY <5>2 DEF Coins
          <6>3. Protocol!CreditCoin
            BY <3>1, <5>1, <6>1, <6>2 DEF Protocol!CreditCoin, Protocol!CoinCounts
          <6>4. QED BY <6>3 DEF Protocol!Next
        <5>3. CASE currentState' = "idle" /\ "tee" \in high
          <6>1. Protocol!SellTea
            BY <3>1, <4>1, <5>1, <5>3 DEF AfterS40, Protocol!SellTea, Coins
          <6>2. QED BY <6>1 DEF Protocol!Next
        <5>4. CASE currentState' = "idle" /\ "tee" \notin high
          <6>1. Protocol!KeepDonation
            BY <3>1, <4>1, <5>1, <5>4 DEF AfterS40, Protocol!KeepDonation, Coins
          <6>2. QED BY <6>1 DEF Protocol!Next
        <5>5. QED BY <3>3, <4>1, <4>4, <5>1, <5>2, <5>3, <5>4 DEF AfterS40
      <4>5. CASE currentState = "s60"
        <5>1. Protocol!SellCoffee
          BY <3>1, <3>3, <4>1, <4>5 DEF Settled, Protocol!SellCoffee, Coins
        <5>2. QED BY <5>1 DEF Protocol!Next
      <4>6. QED BY <4>2, <4>3, <4>4, <4>5 DEF States
    <3>4. QED BY <3>2, <3>3
  <2>5. CASE UNCHANGED lvars
    BY <2>5 DEF lvars, vars, inputs, Coins
  <2>6. QED BY <2>1, <2>2, <2>3, <2>4, <2>5 DEF NextL
<1>3. QED BY <1>1, <1>2, MachineInvariant, PTL DEF SpecL, Promise, Protocol!Safety

-----------------------------------------------------------------------------
\* Whatever the outputs are, no digit is given two glyphs: each position is
\* that of one activation, but the last, whose two show the same value.
LEMMA OneGlyph ==
  ASSUME NEW code, NEW out, NEW s \in Turn(code, out), NEW t \in Turn(code, out),
         s.at = t.at
  PROVE  s.glyph = t.glyph
<1>1. PICK i \in LedActivations :
        s = [at |-> Position(i), glyph |-> GlyphOf(DataDisp(i, code, out))]
  BY DEF Turn
<1>2. PICK j \in LedActivations :
        t = [at |-> Position(j), glyph |-> GlyphOf(DataDisp(j, code, out))]
  BY DEF Turn
<1>3. Position(i) = Position(j)
  BY <1>1, <1>2
<1>4. i = j \/ (i \in {6, 7} /\ j \in {6, 7})
  BY <1>3 DEF Position, LedActivations
<1>5. DataDisp(i, code, out) = DataDisp(j, code, out)
  BY <1>4 DEF DataDisp
<1> QED BY <1>1, <1>2, <1>5

\* So the glyph at the digit of an activation is that of its data.
LEMMA GlyphAt ==
  ASSUME NEW act \in LedActivations
  PROVE  At(Position(act)) = GlyphOf(DataDisp(act, Code, outputs))
<1> DEFINE p == Position(act)
           g == GlyphOf(DataDisp(act, Code, outputs))
           G == {s.glyph : s \in Shown}
<1>1. [at |-> p, glyph |-> g] \in Shown
  BY DEF Shown, Turn
<1>2. g \in G
  <2>1. [at |-> p, glyph |-> g].glyph = g
    OBVIOUS
  <2> QED BY <1>1, <2>1
<1> HIDE DEF p, g
<1>3. ASSUME NEW h, [at |-> p, glyph |-> h] \in Shown PROVE h = g
  <2>1. [at |-> p, glyph |-> h].glyph = [at |-> p, glyph |-> g].glyph
    BY <1>1, <1>3, OneGlyph DEF Shown
  <2> QED BY <2>1
<1>4. (CHOOSE h \in G : [at |-> p, glyph |-> h] \in Shown) = g
  <2> HIDE DEF G
  <2> QED BY <1>1, <1>2, <1>3
<1> QED BY <1>4 DEF At, p, g

\* The four digits that tell the drink and its price, by activation.
LEMMA FourDigits ==
  /\ At(7) = GlyphOf(DataDisp(0, Code, outputs)) /\ At(6) = GlyphOf(DataDisp(1, Code, outputs))
  /\ At(5) = GlyphOf(DataDisp(2, Code, outputs)) /\ At(4) = GlyphOf(DataDisp(3, Code, outputs))
<1>1. /\ 0 \in LedActivations /\ 1 \in LedActivations
      /\ 2 \in LedActivations /\ 3 \in LedActivations
  BY DEF LedActivations
<1>2. Position(0) = 7 /\ Position(1) = 6 /\ Position(2) = 5 /\ Position(3) = 4
  BY DEF Position
<1> QED BY <1>1, <1>2, GlyphAt

\* A set of drinks is one of four.
LEMMA FourChoices ==
  ASSUME NEW sw
  PROVE  sw \cap Drinks \in {{}, {"tee"}, {"coffee"}, Drinks}
BY DEF Drinks

\* What the outputs choose and, for a euro, what they give back.
LEMMA OutputsAre ==
  ASSUME currentState \in States
  PROVE  /\ outputs.drinksChoice \in {{}, {"tee"}, {"coffee"}, Drinks}
         /\ outputs.balance = 1 => Price(outputs.drinksChoice) + outputs.returnAmount = 10
<1> DEFINE asked == high \cap Drinks
<1>1. asked \in {{}, {"tee"}, {"coffee"}, Drinks}
  BY FourChoices
<1>2. {"tee"} # {"coffee"} /\ Drinks # {"tee"} /\ Drinks # {"coffee"} /\ {} # Drinks
      /\ {} # {"tee"} /\ {} # {"coffee"}
  BY DEF Drinks
<1>3. Price({"tee"}) = 4 /\ Price({"coffee"}) = 6 /\ Price(Drinks) = 10
  BY DEF Price, Drinks
<1>4. CASE currentState = "idle"
  <2>1. outputs = OutputIdle(high)
    BY <1>4 DEF outputs, OutputLogic
  <2>2. CASE "euroIn" \notin high \/ asked = {}
    <3>1. outputs = Output(FALSE, 0, 0, {})
      BY <2>1, <2>2 DEF OutputIdle
    <3> QED BY <3>1 DEF Output
  <2>3. CASE ~ ("euroIn" \notin high \/ asked = {})
    <3>1. outputs = Output(TRUE, 1, CASE asked = {"tee"} -> 6 [] asked = {"coffee"} -> 4
                                       [] asked = Drinks -> 0, asked)
      BY <2>1, <2>3 DEF OutputIdle
    <3>2. outputs.drinksChoice = asked
          /\ outputs.returnAmount = CASE asked = {"tee"} -> 6 [] asked = {"coffee"} -> 4
                                      [] asked = Drinks -> 0
      BY <3>1 DEF Output
    <3> HIDE DEF asked
    <3>3. CASE asked = {"tee"}
      BY <1>2, <1>3, <3>2, <3>3
    <3>4. CASE asked = {"coffee"}
      BY <1>2, <1>3, <3>2, <3>4
    <3>5. CASE asked = Drinks
      BY <1>2, <1>3, <3>2, <3>5
    <3> QED BY <1>1, <2>3, <3>3, <3>4, <3>5 DEF asked
  <2> QED BY <2>2, <2>3
<1>5. CASE currentState = "s20"
  <2>1. outputs = Output(FALSE, 2, 0, IF asked = Drinks THEN {} ELSE asked)
    BY <1>5 DEF outputs, OutputLogic, OutputS20
  <2> QED BY <1>1, <2>1 DEF Output
<1>6. CASE currentState = "s40"
  <2>1. outputs = Output(asked = {"tee"}, 4, 0, IF asked = Drinks THEN {} ELSE asked)
    BY <1>6 DEF outputs, OutputLogic, OutputS40
  <2> QED BY <1>1, <2>1 DEF Output
<1>7. CASE currentState = "s60"
  <2>1. \/ outputs = Output(TRUE, 6, 0, {"coffee"}) \/ outputs = Output(TRUE, 2, 2, {"tee"})
        \/ outputs = Output(TRUE, 6, 6, {})
    BY <1>7 DEF outputs, OutputLogic, OutputS60
  <2> QED BY <2>1 DEF Output
<1> QED BY <1>4, <1>5, <1>6, <1>7 DEF States

\* The picture is legible and the drink's in every state.
LEMMA PictureIsRight ==
  ASSUME currentState \in States
  PROVE  Legible /\ TellsTheDrink
<1>1. Legible
  BY OneGlyph DEF Legible, Shown
<1> DEFINE choice == outputs.drinksChoice
           one(act) == GlyphOf(DataDisp(act, Code, outputs))
<1>2. choice = {} \/ choice = {"tee"} \/ choice = {"coffee"} \/ choice = Drinks
  BY OutputsAre
<1>3. Code = (IF "coffee" \in choice THEN 1 ELSE 0) + (IF "tee" \in choice THEN 2 ELSE 0)
  BY DEF Code
<1>4. /\ ("t" \in {At(7), At(6)} <=> "tee" \in choice)
      /\ ("C" \in {At(7), At(6)} <=> "coffee" \in choice)
      /\ 10 * Digits[At(5)] + Digits[At(4)] = Price(choice)
  <2> HIDE DEF choice
  <2>0. Digits["0"] = 0 /\ Digits["1"] = 1 /\ Digits["4"] = 4 /\ Digits["6"] = 6
    BY DEF Digits
  <2>1. CASE choice = {}
    <3>1. Code = 0 /\ Price(choice) = 0 /\ "tee" \notin choice /\ "coffee" \notin choice
      BY <1>3, <2>1 DEF Price
    <3>2. At(7) = "0" /\ At(6) = "0" /\ At(5) = "0" /\ At(4) = "0"
      BY <3>1, FourDigits DEF GlyphOf, DataDisp
    <3> QED BY <2>0, <3>1, <3>2
  <2>2. CASE choice = {"tee"}
    <3>1. Code = 2 /\ Price(choice) = 4 /\ "tee" \in choice /\ "coffee" \notin choice
      BY <1>3, <2>2 DEF Price
    <3>2. At(7) = "t" /\ At(6) = "0" /\ At(5) = "0" /\ At(4) = "4"
      BY <3>1, FourDigits DEF GlyphOf, DataDisp
    <3> QED BY <2>0, <3>1, <3>2
  <2>3. CASE choice = {"coffee"}
    <3>1. Code = 1 /\ Price(choice) = 6 /\ "tee" \notin choice /\ "coffee" \in choice
      BY <1>3, <2>3 DEF Price
    <3>2. At(7) = "C" /\ At(6) = "0" /\ At(5) = "0" /\ At(4) = "6"
      BY <3>1, FourDigits DEF GlyphOf, DataDisp
    <3> QED BY <2>0, <3>1, <3>2
  <2>4. CASE choice = Drinks
    <3>1. Code = 3 /\ Price(choice) = 10 /\ "tee" \in choice /\ "coffee" \in choice
      BY <1>3, <2>4 DEF Price, Drinks
    <3>2. At(7) = "C" /\ At(6) = "t" /\ At(5) = "1" /\ At(4) = "0"
      BY <3>1, FourDigits DEF GlyphOf, DataDisp
    <3> QED BY <2>0, <3>1, <3>2
  <2> QED BY <1>2, <2>1, <2>2, <2>3, <2>4
<1> QED BY <1>1, <1>4, OutputsAre DEF TellsTheDrink

\* Counting up by one moves to the next multiple of m, or leaves the quotient alone.
LEMMA QuotientStays ==
  ASSUME NEW m \in Nat \ {0}, NEW n \in Nat
  PROVE  (n + 1) \div m # n \div m => (n + 1) % m = 0
<1>1. PICK q \in Int, r \in 0 .. m - 1 : n = q * m + r /\ n \div m = q
  <2>1. n = (n \div m) * m + (n % m) /\ n \div m \in Int /\ (n % m) \in 0 .. m - 1
    OBVIOUS
  <2> QED BY <2>1
<1>2. CASE r + 1 = m
  <2>1. n + 1 = (q + 1) * m + 0
    BY <1>1, <1>2
  <2> QED BY <2>1, RemainderUnique
<1>3. CASE r + 1 # m
  <2>1. r + 1 \in 0 .. m - 1 /\ n + 1 = q * m + (r + 1)
    BY <1>1, <1>3
  <2>2. (q * m + (r + 1)) \div m = q
    BY <2>1
  <2> QED BY <1>1, <2>1, <2>2
<1> QED BY <1>2, <1>3

\* The display of the final machine, in safety: at every moment the picture of one
\* turn is legible and that of the drink and its price, with the change making up the
\* euro; and while there is no reset a digit stays lit for its DigitTicks edges.
THEOREM SaleIsShown == SpecL => [](Legible /\ TellsTheDrink) /\ DigitsStayLit
<1>1. TypeOKL => Legible /\ TellsTheDrink
  BY PictureIsRight DEF TypeOKL, TypeOK
<1>2. TypeOKL /\ [NextL]_lvars
        => [Led_activation' # Led_activation /\ ~Reset' => Refresh_counter' % DigitTicks = 0]_vars
  <2> SUFFICES ASSUME TypeOKL, [NextL]_lvars, Led_activation' # Led_activation, ~Reset'
               PROVE  Refresh_counter' % DigitTicks = 0
    OBVIOUS
  <2>1. DigitTicks \in Nat \ {0} /\ Refresh_counter \in Nat
        /\ Refresh_counter \in 0 .. 8 * DigitTicks - 1 /\ 8 * DigitTicks \in Nat \ {0}
    BY ClockAssumption DEF TypeOKL, TypeOK
  <2>2. Refresh_counter' # Refresh_counter
    BY DEF Led_activation
  <2>3. ClockEdge
    BY <2>2 DEF NextL, MoveSwitchL, MoveSwitch, AssertResetL, AssertReset, ReleaseResetL,
                ReleaseReset, ClockEdgeL, lvars, vars, counters
  <2>4. Refresh_counter' = IF Refresh_counter = 8 * DigitTicks - 1 THEN 0
                           ELSE Refresh_counter + 1
    BY <2>1, <2>3, WrapStep DEF ClockEdge, Advance
  <2>5. CASE Refresh_counter' = 0
    <3>1. (0 * DigitTicks + 0) % DigitTicks = 0
      BY <2>1, RemainderUnique
    <3> QED BY <2>1, <2>5, <3>1
  <2>6. CASE Refresh_counter' = Refresh_counter + 1
    BY <2>1, <2>6, QuotientStays DEF Led_activation
  <2> QED BY <2>4, <2>5, <2>6
<1>3. SpecL => [](Legible /\ TellsTheDrink)
  BY <1>1, TypeCorrect, PTL
<1>4. SpecL => DigitsStayLit
  BY <1>2, TypeCorrect, PTL DEF SpecL, DigitsStayLit
<1> QED BY <1>3, <1>4
=============================================================================

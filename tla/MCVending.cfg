CONSTANTS
  SecTicks   = 2
  SecMod     = 4
  FiveTicks  = 13
  FiveMod    = 16
  DigitTicks = 2
  MaxPaid    = 3
  MaxDwell   = 17
SPECIFICATION FairSpecL
INVARIANTS
  MachineInv
  Solvent
  CountersInStep
  DispenseWithinOneTurn
PROPERTIES
  OneChangePerPeriod
  Promise
  SalesEnd
  DisplayTellsSale

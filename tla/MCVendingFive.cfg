CONSTANTS
  SecTicks   = 2
  SecMod     = 4
  FiveTicks  = 13
  FiveMod    = 16
  DigitTicks = 1
  MaxPaid    = 3
  MaxDwell   = 17
SPECIFICATION SpecL
PROPERTIES CoffeeForFiveSeconds

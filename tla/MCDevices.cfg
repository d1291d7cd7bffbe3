SPECIFICATION FairDevicesSpec
CONSTANTS
  Timeout = 2
  Attempts = 3
  Interval = 2
  Wrap = 6
  Type = "DHT22"
  Frames <- MCFrames
  MinInterval = 2
  Faults = {0, 16, 30, 39}
  MaxPause = 3
  Clients = {a, b}
  Requests <- MCRequests
  MaxVisits = 3
  DigitTicks = 1
  MaxSold = 2
INVARIANTS
  DevicesInv
  SalesInv
  AddersAreRight
PROPERTIES
  SensorKeepsPace
  WifiIsJoined
  ReadingIsTrue
  LampsObey
  NobodyKeepsTheServer
CHECK_DEADLOCK FALSE

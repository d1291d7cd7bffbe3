SPECIFICATION FairSpec
CONSTANTS
  KeepAlive = 2
  ConnectionTimeout = 1
  MaxFaults = 1
  Settings <- MCSettings
INVARIANTS
  
  KeepaliveHolds
  TrueMeansDone
PROPERTIES
  NoFalseStop
  CallsReturn

SPECIFICATION FairSpecD
CONSTANTS
  Topics = {"temperature"}
  Values = {"v"}
  Sizes = {"fits", "over"}
  QosLevels = {1}
  KeepAlive = 4
  SocketTimeout = 3
  Latency = 1
  MaxUnits = 4
  MaxUp = 1
  MaxFailures = 1
INVARIANTS SessionInv KeepaliveHolds
PROPERTIES NoFalseTimeout
  CallsReturn
CHECK_DEADLOCK TRUE

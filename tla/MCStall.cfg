\* What is sent may be late by more than the socket timeout.
SPECIFICATION SpecD
CONSTANTS
  Topics = {"temperature"}
  Values = {"v"}
  Sizes = {"fits"}
  QosLevels = {0}
  KeepAlive = 2
  SocketTimeout = 1
  Latency = 2
  MaxUnits = 2
  MaxUp = 1
  MaxFailures = 1
INVARIANTS OneConnectPerSocket

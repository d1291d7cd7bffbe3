SPECIFICATION SpecA
CONSTANTS
  Topics = {"test", "temperature", "humidity"}
  Values = {269, 505, 610}
  Sizes = {"fits"}
  QosLevels = {0}
  KeepAlive = 2
  SocketTimeout = 3
  Latency = 1
  MaxUnits = 2
  MaxUp = 3
  MaxFailures = 1
INVARIANTS ActuatorInv

SPECIFICATION SpecA
CONSTANTS
  Topics = {"test", "temperature", "humidity"}
  Values = {269}
  Sizes = {"fits"}
  QosLevels = {0}
  KeepAlive = 4
  SocketTimeout = 3
  Latency = 1
  MaxUnits = 2
  MaxUp = 3
  MaxFailures = 1
INVARIANTS Resubscribed

SPECIFICATION MCSpec
CONSTANTS
  Clients = {a}
  Settings <- MCSettings
  MaxTurns = 2
  BufferSize = 2
  Lengths = {1, 2, 5}
  MaxPackets = 3
INVARIANTS
  SocketsInv
  
PROPERTIES
  CallsReturn
  ReadsOnePacket

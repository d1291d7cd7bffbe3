SPECIFICATION FairSpec
CONSTANTS
  Payloads = {0, 1, 2}
  Sizes = {1, 2}
  Base = 4
  TxPacketId = 7
  MaxPackets = 2
INVARIANTS
  ReceiverInv
  AckIsEarned
PROPERTIES
  BytesTaken

SPECIFICATION FairSpecS
CONSTANTS
    Sizes <- MCSizes
    Driven <- MCAll
    MaxIssued = 2
    MaxFaults = 1
INVARIANTS
    SpiInv
    OwnReply
    CommandIsWhole
PROPERTIES
    CallsComeBack

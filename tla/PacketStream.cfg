SPECIFICATION FairSpec
CONSTANTS
    MaxPacket = 3
    BufSize = 4
    MaxSent = 4
INVARIANTS
    Aligned
PROPERTIES
    InOrder
    Drained

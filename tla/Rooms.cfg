SPECIFICATION Spec
CONSTANTS
    MaxUser = 4
    MaxRoom = 2
    MaxGamer = 3
    Workers = 2
    MayDrop = FALSE
    MayOverflow = FALSE
INVARIANTS
    TypeOK
    OneRoom
    DistinctGameIDs
    ReadyBelowSize
    LoadAccounting

SPECIFICATION SessionSpec
CONSTANTS
    MaxUser = 3
    MaxRoom = 3
    MaxGamer = 3
    Workers = 2
    MayDrop = FALSE
    MayOverflow = FALSE
    Pace = "calm"
INVARIANTS
    ServerIDsKnown
    NoLostReady

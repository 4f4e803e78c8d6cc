SPECIFICATION RaceSpec
CONSTANTS
    MaxUser = 3
    MaxRoom = 2
    MaxGamer = 3
    Workers = 3
    MayDrop = FALSE
    MayOverflow = FALSE
    MayCollide = FALSE
INVARIANTS
    ApartIsSafe
    ListUpToDate
PROPERTIES
    SerialIsAtomic
CHECK_DEADLOCK FALSE

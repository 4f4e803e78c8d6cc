SPECIFICATION Spec
CONSTANTS
    MaxUser = 3
    MaxRoom = 2
    MaxGamer = 3
    Workers = 2
    MayDrop = TRUE
    MayOverflow = FALSE
INVARIANTS
    ReceiveKeptUp

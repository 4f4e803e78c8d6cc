SPECIFICATION Spec
CONSTANTS
    MaxUser = 3
    MaxRoom = 2
    MaxGamer = 2
    Workers = 2
    MayDrop = TRUE
    MayOverflow = FALSE
INVARIANTS
    StatusMatchesMembers
    RoomCapacity
PROPERTIES
    GameClosed
CHECK_DEADLOCK FALSE

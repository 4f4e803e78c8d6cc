SPECIFICATION MoveSpec
CONSTANTS
    Keys = {"LEFT", "DOWN"}
    Start <- Corner
    Spawn <- RespawnPlace
    Others <- Neighbour
    AttackRange = 7
    View <- CornerView
    Presses = 2
    Acts = 1
    Hits = 1
    Events = 3
    Backlog = 2
INVARIANTS
    StopsWhenReleased
    PlacesAgree
    
    AnimationsEnd
PROPERTIES
    InputReturns
CHECK_DEADLOCK FALSE

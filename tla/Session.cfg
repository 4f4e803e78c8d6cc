SPECIFICATION FairSession
CONSTANTS
    MaxUser = 2
    MaxRoom = 2
    MaxGamer = 2
    Workers = 2
    MayDrop = FALSE
    MayOverflow = FALSE
    Pace = "patient"
INVARIANTS
    LoadBarrier
    CopiesAgree
PROPERTIES
    Spec
    EveryonePlays

SPECIFICATION FairSpec
CONSTANTS
    Players = {0, 1}
    Room = 1
    MaxGamer = 2
    MaxHp = 2
    Damage = {1, 2}
    ResultDeath = 2
    Handlers = 1
    HitEmptySeats = FALSE
    KillBound = 4
    Backlog = 20
INVARIANTS
    ScoresAgree
    RespawnUnderWay
    ViewsAgree
    
    
PROPERTIES
    EveryoneSeesTable
CHECK_DEADLOCK FALSE

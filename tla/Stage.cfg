SPECIFICATION Spec
CONSTANTS
    Seats = {1, 2}
    Houses = {0, 1}
    Walls = {}
    Mine = 2
    Crowd = 2
    Matches = 2
    WinPictures = 2
    LosePictures = 2
    Long = 4
    Short = 0
    Slow = 1
    MaxHp = 1
    Deaths = 1
    Skills = {"S"}
INVARIANTS
    GraphSound
    HudTrue
PROPERTIES EndsByItsVerdict VerdictEndsMatch
CHECK_DEADLOCK FALSE

SPECIFICATION Spec
CONSTANTS
    BoxSize = 2
    Lines = 2
    Seats = {0, 2}
    Heroes = {1, 2}
    Talk = 3
    Courses = {"talk", "play"}
    Backlog = 2
INVARIANTS
    ChatDrawable
    
    
CHECK_DEADLOCK FALSE

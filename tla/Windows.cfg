SPECIFICATION Spec
CONSTANTS
    Xs = {200, 450, 600, 745}
    Ys = {60, 210, 320, 363, 410, 480}
    Margin = 10
INVARIANTS
    WindowFresh
    MouseTrue
CHECK_DEADLOCK FALSE

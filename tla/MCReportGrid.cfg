SPECIFICATION Spec
CONSTANTS
    Minute = 3
    Budget = 3
    Recovery = 3
    Tolerance = 0
    Window = 6
    MaxTime = 7
    MaxLives = 2
INVARIANT ReportDrawn
CHECK_DEADLOCK FALSE

SPECIFICATION Spec
CONSTANTS
    HourTicks = 2
    DayHours = 3
    Zones <- SpringOnly
    Attempts = 2
    MaxTurn = 1
    MaxTime = 4
    MaxStarts = 1
INVARIANT HourIsCompleted
CHECK_DEADLOCK FALSE

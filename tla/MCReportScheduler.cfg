SPECIFICATION Spec
CONSTANTS
    HourTicks = 2
    DayHours = 3
    Zones <- AllZones
    Attempts = 2
    MaxTurn = 1
    MaxTime = 4
    MaxStarts = 2
INVARIANTS TypeOK RecordedIsDone FinishedOnce NoneSkipped DegradedIsFailing InOneHourly
CHECK_DEADLOCK FALSE

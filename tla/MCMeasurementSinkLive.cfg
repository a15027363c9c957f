SPECIFICATION BoundedSpec
CONSTANTS
    Sweeps = {s1, s2}
    Closers = {c1}
    Flushers = {f1}
    MaxQueue = 1
    CloseMode = "owned"
PROPERTIES CloseBounded AcceptedSettles WriterStops FlushReturns SupervisorTold
CHECK_DEADLOCK FALSE

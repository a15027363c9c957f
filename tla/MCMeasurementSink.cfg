SPECIFICATION Spec
CONSTANTS
    Sweeps = {s1, s2, s3, s4}
    Closers = {c1, c2}
    Flushers = {f1}
    MaxQueue = 2
    CloseMode = "owned"
SYMMETRY Alike
INVARIANTS TypeOK AccountingAgrees NoneAbandoned CleanShutdownDurable FlushCovers
PROPERTY ImplementsContract
CHECK_DEADLOCK FALSE

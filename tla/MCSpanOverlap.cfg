SPECIFICATION Spec
CONSTANT MaxTime = 3
INVARIANT SnapshotExact
CHECK_DEADLOCK FALSE

SPECIFICATION Spec
CONSTANTS
    Points = 3
    Offset = {2, 3}
    MaxLives = 2
INVARIANTS CheckpointTrue UnsupportedJustified EndsWhole
CHECK_DEADLOCK FALSE

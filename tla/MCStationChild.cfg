SPECIFICATION Spec
CONSTANTS
    QueueBound = 1
    MaxScans = 2
    Stubborn = {1}
    MaxSurvivors = 1
CONSTRAINT FewSurvivors
INVARIANT LockCoversChildren
CHECK_DEADLOCK FALSE

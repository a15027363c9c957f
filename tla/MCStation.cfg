SPECIFICATION Spec
CONSTANTS
    QueueBound = 1
    MaxScans = 2
    Stubborn = {1}
    MaxSurvivors = 2
CONSTRAINT FewSurvivors
INVARIANTS TypeOK CleanExit LockCoversOwned HealthAgrees SummaryAgrees OwnedChild StopIsFinal
PROPERTIES ScannerSpec
CHECK_DEADLOCK FALSE

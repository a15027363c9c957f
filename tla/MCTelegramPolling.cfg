SPECIFICATION FairSpec
CONSTANTS
    Requests = {1, 3}
    Heavy = {2, 3}
    MaxHeavy = 1
    Limit = 2
    Attempts = 2
    MaxUpdates = 3
    MaxLives = 2
INVARIANTS NothingForgotten OnceInALife AnswersHonest LateBounded
PROPERTIES Served
CHECK_DEADLOCK FALSE

\* The downstream pipeline may end before its root.
SPECIFICATION FairSpec
CONSTANTS
    Workers = {w1, w2}
    NoWorker = NoWorker
    Pids = {1, 2}
    Validator = 2
    InspectErrors = FALSE
    TryLimit = 1
    EventIds = {1, 2, 3, 4, 5, 6, 7, 8}
    MaxPushes = 1
    MaxCrashes = 0
    MaxFence = 1
CHECK_DEADLOCK FALSE
PROPERTY WaitEnds

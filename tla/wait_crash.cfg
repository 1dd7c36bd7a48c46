\* A worker may crash, and come back, while the repair waits.
SPECIFICATION FairSpec
CONSTANTS
    Workers = {w1, w2}
    NoWorker = NoWorker
    Pids = {1}
    Validator = 1
    InspectErrors = FALSE
    TryLimit = 1
    EventIds = {1, 2, 3, 4, 5, 6, 7, 8}
    MaxPushes = 1
    MaxCrashes = 1
    MaxFence = 3
CHECK_DEADLOCK FALSE
PROPERTY WaitEnds

CONSTANTS
    Workers = {w1, w2}
    Schedulers = {w1}
    Tasks = {t1}
    NoWorker = NoWorker
    NoTask = NoTask
    RetryLimit = 1
    Faults = {}
    MaxCrashes = 2
    MaxFence = 5
SPECIFICATION FairSpec
INVARIANTS InFlightIsRecoverable RetryBudget
PROPERTIES Settles
CHECK_DEADLOCK FALSE

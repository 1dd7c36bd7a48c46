CONSTANTS
    Workers = {w1, w2}
    Schedulers = {w1}
    Tasks = {t1}
    NoWorker = NoWorker
    NoTask = NoTask
    RetryLimit = 1
    Faults = {"backlog"}
    MaxCrashes = 0
    MaxFence = 3
SPECIFICATION FairSpec
PROPERTIES Settles
CHECK_DEADLOCK FALSE

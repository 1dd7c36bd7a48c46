CONSTANTS
    Workers = {w1, w2}
    Schedulers = {w1}
    Tasks = {t1}
    NoWorker = NoWorker
    NoTask = NoTask
    RetryLimit = 1
    Faults = {"stall", "slow_pass", "outage", "backlog"}
    MaxCrashes = 0
    MaxFence = 2
SPECIFICATION Spec
PROPERTIES ImplementsService CompletedByCurrentRun
CHECK_DEADLOCK FALSE

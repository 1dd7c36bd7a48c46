CONSTANTS
    Workers = {w1, w2}
    Schedulers = {w1, w2}
    Tasks = {t1}
    NoWorker = NoWorker
    NoTask = NoTask
    RetryLimit = 1
    Faults = {"publish_crash", "slow_pass", "outage", "backlog"}
    MaxCrashes = 1
    MaxFence = 3
SPECIFICATION Spec
INVARIANTS TypeOK TokenNamesOneWorker QueuedIsPending AssignedIsPending
PROPERTIES ImplementsService
SYMMETRY WorkerSymmetry
CHECK_DEADLOCK FALSE

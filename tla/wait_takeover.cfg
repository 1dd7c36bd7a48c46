\* A repair whose workers crash, restart and take over from each other: safety.
SPECIFICATION Spec
CONSTANTS
    Workers = {w1, w2}
    NoWorker = NoWorker
    Pids = {1}
    Validator = 1
    InspectErrors = TRUE
    TryLimit = 1
    EventIds = {1, 2, 3, 4, 5, 6, 7, 8}
    MaxPushes = 1
    MaxCrashes = 2
    MaxFence = 2
INVARIANTS
    TypeOK
    OneExecution
    ResumeIsPending
CHECK_DEADLOCK FALSE
SYMMETRY WorkerSymmetry

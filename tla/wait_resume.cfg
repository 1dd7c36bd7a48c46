\* A repair with a downstream validation pipeline, unreliable webhooks and no
\* crash: a registered wait ends.
SPECIFICATION FairSpec
CONSTANTS
    Workers = {w1, w2}
    NoWorker = NoWorker
    Pids = {1, 2}
    Validator = 2
    InspectErrors = TRUE
    TryLimit = 1
    EventIds = {1, 2, 3, 4, 5, 6, 7, 8}
    MaxPushes = 1
    MaxCrashes = 0
    MaxFence = 1
PROPERTIES
    ResumedByItsPipeline
    RegisteredWaitEnds
CHECK_DEADLOCK FALSE

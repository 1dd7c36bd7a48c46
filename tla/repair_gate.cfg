\* Everything that may happen around two repairs: safety.
SPECIFICATION Spec
CONSTANTS
    Workers = {w1, w2}
    NoWorker = NoWorker
    AutoTask = AutoTask
    Repairs = {r1, r2}
    NoTask = NoTask
    Commands = 1
    MaxCancels = 1
    Races = TRUE
    MaxPushes = 1
    MaxFaults = 1
    MaxTrouble = 2
    MaxFence = 2
INVARIANTS
    TypeOK
    RollbackIsClosed
    GateHeldByActive
    
    ReviewOutsideRepair
    ExclusiveHasRepair
    CommandsOnce
PROPERTIES
    EndedForGood
CHECK_DEADLOCK FALSE
SYMMETRY GateSymmetry
VIEW GateView

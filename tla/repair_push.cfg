\* Two executions, two commits, a person who pushes and a rollback that is
\* tried twice: safety.
SPECIFICATION Spec
CONSTANTS
    Diffs = {d1, d2}
    NoDiff = NoDiff
    MaxExecs = 2
    MaxPushes = 2
    MaxHuman = 1
    MaxRollbacks = 2
INVARIANTS
    TypeOK
    ManifestOnBranch
    EvidenceFirst
    SuccessIsRecorded
    HumanWorkSurvives
    RollbackIsDone
    ReportedOnce
PROPERTIES
    FrozenForGood
CHECK_DEADLOCK FALSE
SYMMETRY DiffSymmetry
VIEW PushView

\* Two threads flush, optimize, close and abort; a merge or a commit may fail.
CONSTANTS
    Thread = {t1, t2}
    NoOne = none
    MergeFactor = 2
    MinMergeSize = 0
    MaxMergeSize = 8
    InitialSizes <- Written
    MaxSegments = 2
    MaxFlushes = 1
    MaxDeletes = 1
    MaxCalls = 2
    MaxFaults = 2
SPECIFICATION Spec
INVARIANTS
    TypeOK
    MergesApart
    MergingExact
    PendingServed
    MergedDown
PROPERTIES
    OptimizedDown
    CallsReturn
CHECK_DEADLOCK FALSE

\* autoCommit with compound files, a crash or an I/O error anywhere.
CONSTANTS
    Doc = {d1, d2}
    AutoCommitModes = {TRUE}
    UseCompound = TRUE
    Pins = FALSE
    Overlap = FALSE
    MaxSeg = 3
    MaxGen = 6
    MaxFaults = 1
SYMMETRY Symmetry
SPECIFICATION Spec
INVARIANTS
    TypeOK
    SegmentFilesExist
    NothingLeaks
    CommitFound
PROPERTIES
    DeleterContract
    Refinement
CHECK_DEADLOCK FALSE

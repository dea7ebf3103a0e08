\* A file system that refuses to delete files a reader has open.
CONSTANTS
    Doc = {d1, d2}
    AutoCommitModes = {TRUE}
    UseCompound = FALSE
    Pins = TRUE
    Overlap = FALSE
    MaxSeg = 3
    MaxGen = 4
    MaxFaults = 1
SYMMETRY Symmetry
SPECIFICATION Spec
INVARIANTS
    NamesFresh
PROPERTIES
    DeleterContract
CHECK_DEADLOCK FALSE

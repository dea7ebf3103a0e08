\* autoCommit = false: shared doc stores, abort, one commit on close.
CONSTANTS
    Doc = {d1, d2}
    AutoCommitModes = {FALSE}
    UseCompound = TRUE
    Pins = FALSE
    Overlap = FALSE
    MaxSeg = 3
    MaxGen = 3
    MaxFaults = 1
SYMMETRY Symmetry
SPECIFICATION Spec
INVARIANTS
    NothingLeaks
PROPERTIES
    Refinement
    AbortKeepsIndex
CHECK_DEADLOCK FALSE

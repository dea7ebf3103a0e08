\* A crash leaves doc stores behind; their name is used again and its document
\* fails.
CONSTANTS
    Doc = {d1, d2}
    AutoCommitModes = {TRUE}
    UseCompound = FALSE
    Pins = FALSE
    Overlap = FALSE
    MaxSeg = 2
    MaxGen = 3
    MaxFaults = 2
SYMMETRY Symmetry
SPECIFICATION Spec
INVARIANTS
    NothingLeaks
CHECK_DEADLOCK FALSE

\* A thread adds documents while another is in abort().
CONSTANTS
    Doc = {d1, d2}
    AutoCommitModes = {FALSE}
    UseCompound = FALSE
    Pins = FALSE
    Overlap = TRUE
    MaxSeg = 2
    MaxGen = 3
    MaxFaults = 0
SYMMETRY Symmetry
SPECIFICATION Spec
PROPERTIES
    AbortKeepsIndex
CHECK_DEADLOCK FALSE

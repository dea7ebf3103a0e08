\* close() fails to commit; the process dies in the next attempt.
CONSTANTS
    Doc = {d1, d2}
    AutoCommitModes = {FALSE}
    UseCompound = FALSE
    Pins = FALSE
    Overlap = FALSE
    MaxSeg = 2
    MaxGen = 4
    MaxFaults = 2
SYMMETRY Symmetry
SPECIFICATION Spec
INVARIANTS
    CommitFound
CHECK_DEADLOCK FALSE

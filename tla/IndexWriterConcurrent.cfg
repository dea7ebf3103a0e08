\* Three documents and four segment names: documents are added, flushed and
\* deleted while a merge runs.  No failures.
CONSTANTS
    Doc = {d1, d2, d3}
    AutoCommitModes = {TRUE}
    UseCompound = FALSE
    Pins = FALSE
    Overlap = FALSE
    MaxSeg = 4
    MaxGen = 5
    MaxFaults = 0
SYMMETRY Symmetry
SPECIFICATION Spec
INVARIANTS
    MergeSourcesStay
    DocsOnce
PROPERTIES
    Refinement
CHECK_DEADLOCK FALSE

\* KeepOnlyLastCommitDeletionPolicy, any delete may fail, crashes anywhere.
CONSTANTS
    Data = {d1, d2}
    MaxGen = 3
    File <- MCFile
    Gen <- MCGen
    SegmentsFile <- MCSegmentsFile
    Owner <- MCOwner
    Vectors <- MCVectors
    FileSets <- MCFileSets
    KeepAll = FALSE
SYMMETRY Symmetry
SPECIFICATION Spec
INVARIANTS
    TypeOK
    RefCountExact
    Protected
    PendingUnreferenced
    NewestCommitIntact
PROPERTIES
    CommitsAdvance

\* Two threads add, update and delete three documents; a document, a flush or
\* the doc stores may fail once.
CONSTANTS
    Thread = {t1, t2}
    NoOne = none
    MaxThreadState = 2
    MaxBufferedDocs = 2
    MaxBufferedDeleteTerms = 2
    MaxDocs = 3
    MaxCalls = 1
    MaxFaults = 1
SPECIFICATION Spec
INVARIANTS
    TypeOK
    StoredInOrder
    TurnComes
    NeverMoreThanN
    AllOrNone
    ClosedHoldsNothing
PROPERTIES
    Linearizable
    CallsReturn
CHECK_DEADLOCK FALSE

\* A reader and a writer of one index; one of them crashes, or a read, a write
\* or the disk fails.
CONSTANTS
    Reader = {r1}
    Writer = {w}
    Lookahead = 1
    MaxGen = 3
    MaxFaults = 1
SPECIFICATION Spec
INVARIANTS
    TypeOK
    SearchFinds
    LockExact
PROPERTIES
    NoLostUpdate
    SearchEnds
CHECK_DEADLOCK FALSE

SPECIFICATION Spec
CONSTANT MaxRuns = 6
INVARIANTS
    TypeOK
    CatchesUp
PROPERTIES
    NeverOlder
CHECK_DEADLOCK FALSE

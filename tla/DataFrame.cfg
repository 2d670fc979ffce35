\* A run may end in undefined behaviour: no deadlock check.
CONSTANTS
    Batches = {a, b}
    MaxBatches = 3
    Messages = {"plain", "NUL"}
    Garbage = {"NULL", "wild"}
SPECIFICATION Spec
SYMMETRY Contents
CHECK_DEADLOCK FALSE
INVARIANTS
    TypeOK
    TableIsWhole
    FailuresAreExplained
    ErrorsAreNamed
    BlockIsFreed
    ErrorsAreFreed
    NoFailureIsHidden
    CrashesAreKnown

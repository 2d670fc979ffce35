\* A run may end in undefined behaviour: no deadlock check.
CONSTANTS
    Batches = {a, b}
    MaxBatches = 2
    Messages = {"plain"}
    Garbage = {"NULL"}
SPECIFICATION Spec
SYMMETRY Contents
CHECK_DEADLOCK FALSE
INVARIANTS
    NoRowsMakeATable

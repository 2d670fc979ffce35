\* A usize of four values, so that a size may not fit; after a panic the
\* program is gone: no deadlock check.
CONSTANTS
    Properties = {p1, p2}
    Paths = {f1, f2}
    Sizes = {0, 1, 2, 4, 5}
    UsizeValues = 4
    DefaultSize = 3
    Rows = {0, 2, 4}
    None = None
SPECIFICATION Spec
SYMMETRY Pools
CHECK_DEADLOCK FALSE
INVARIANT WriteParquetReturns

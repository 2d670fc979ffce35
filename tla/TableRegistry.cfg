CONSTANTS
    data = data
    qualified = qualified
    other = other
    t1 = t1
    t2 = t2
    Names = {data, qualified, other}
    Utf8Names = {data, qualified, other}
    Tables = {t1, t2}
    Resolve <- MCResolve
    Batches = {b1, b2, b3}
    None = None
SPECIFICATION Spec
SYMMETRY Objects
INVARIANTS
    TablesAreKept

\* No symmetry: a liveness property.
CONSTANTS
    data = data
    qualified = qualified
    other = other
    broken = broken
    t1 = t1
    t2 = t2
    Names = {data, broken}
    Utf8Names = {data}
    Tables = {t1}
    Resolve <- MCResolve
    Batches = {b1, b2}
    Structs = {s1, s2}
    Providers = {p1, p2}
    Frames = {}
    MaxChunks = 2
    None = None
SPECIFICATION FairSpec
PROPERTIES
    EveryCallReturns
    CallsAdvance

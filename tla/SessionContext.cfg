\* Two names of one table, one of another, one that is not UTF-8.
CONSTANTS
    data = data
    qualified = qualified
    other = other
    broken = broken
    t1 = t1
    t2 = t2
    Names = {data, qualified, other, broken}
    Utf8Names = {data, qualified, other}
    Tables = {t1, t2}
    Resolve <- MCResolve
    Batches = {b1, b2, b3}
    Structs = {s1, s2, s3}
    Providers = {p1, p2}
    Frames = {f1}
    MaxChunks = 2
    None = None
SPECIFICATION Spec
SYMMETRY Pools
INVARIANTS
    TypeOK
    OneHolder
    NothingLeftOver
    RefsBalanced
    KeptAlive
    AllIsFreed
PROPERTIES
    ResultIsTruthful
    FramesAreSnapshots
    ImplementsRegistry

CONSTANTS
    nullable = nullable
    required = required
    Tables = {t1, t2}
    Columns = {nullable, required}
    NameAndType <- MCNameAndType
    Buffers = {b1, b2}
    Extensions = {parquet, pq, broken}
    Utf8Extensions = {parquet, pq}
    Default = parquet
    KeepsBuffers = TRUE
    None = None
SPECIFICATION Spec
SYMMETRY Pools
INVARIANTS
    TypeOK
    TablesReadAsTold
    TablesPruneAsAsked
    TablesPruneAsTold
PROPERTIES
    ImplementsFileOptions

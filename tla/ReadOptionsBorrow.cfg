\* A caller that frees or overwrites a string once the setter returned.
CONSTANTS
    nullable = nullable
    required = required
    Schemas = {s1, s2}
    Fields = {nullable, required}
    NameAndType <- MCNameAndType
    Buffers = {b1, b2}
    Extensions = {csv, tsv, broken}
    Utf8Extensions = {csv, tsv}
    Default = csv
    Values <- MCValues
    UsizeValues = 1024
    KeepsBuffers = FALSE
    None = None
SPECIFICATION Spec
SYMMETRY Pools
INVARIANTS
    ExtensionsAgree

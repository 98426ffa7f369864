SPECIFICATION Spec

CONSTANTS
    Node = {n1, n2}
    Version = {v6, v7}
    Default = port27017
    MaxMishaps = 2

CHECK_DEADLOCK FALSE

INVARIANTS
    TypeOK
    BootIsKept
    ImportedIsLinked

PROPERTIES
    ImportedInTheEnd

SPECIFICATION Spec
CONSTANTS
    Proc = {p1, p2}
    MaxMishaps = 2
INVARIANTS
    TypeOK
    InstalledIsWhole
PROPERTIES
    InstalledInTheEnd
CHECK_DEADLOCK FALSE

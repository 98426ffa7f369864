SPECIFICATION Spec
CONSTANTS
  p1 = p1  p2 = p2  p3 = p3
  Process = {p1, p2, p3}
  Timeout = 2
  NoFile = NoFile  Empty = Empty  Garbled = Garbled
  MaxMishaps = 2
  MaxOverlaps = 2
SYMMETRY Symmetry
INVARIANTS
  TypeOK
  WorkIsLocked
  OneHolderPerIncident
PROPERTIES
  ReleasedByOwner

SPECIFICATION Spec
CONSTANTS
  p1 = p1  p2 = p2  p3 = p3
  Process = {p1, p2}
  Timeout = 2
  NoFile = NoFile  Empty = Empty  Garbled = Garbled
  MaxMishaps = 0
  MaxOverlaps = 1
INVARIANT OneHolder

SPECIFICATION Spec
CONSTANTS
  a1 = a1  a2 = a2  a3 = a3  b1 = b1  b2 = b2  c1 = c1  c2 = c2  m1 = m1  m2 = m2
  Node = {a1, a2, a3}
  Shard = {"shard"}
  Topologies <- UnshardedClusters
  Initial = Initial  Target = Target  NoVersion = NoVersion  Torn = Torn
  NoFile = NoFile  None = None
  MaxMishaps = 2
  MaxElections = 1
CHECK_DEADLOCK FALSE
INVARIANTS
  TypeOK
  CompletedNeverOnOld
  OneNodeDownPerInterruption
  MissedOnlyByElections
  CleanUpgradeKeepsNodesUp
PROPERTIES
  PrimaryStepsDownFirst
  RollsForward
  ArchivedInTheEnd

SPECIFICATION Spec
CONSTANTS
    Cluster = {"c1", "c2"}
    Topology <- MCTopology
    ControlPort = {s1, s2}
    BasePort = 1
    PortIncrement = 3
    MaxAttempts = 2
    ForeignPort = {1, 5}
    MaxDeploys = 3
    MaxMishaps = 1
SYMMETRY MCSymmetry
INVARIANTS
    TypeOK
    RunningIsPrepared
    OrphansAreExplained
PROPERTIES
    SavedMeansServing
    StartsItsOwn
CHECK_DEADLOCK FALSE

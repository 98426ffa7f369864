SPECIFICATION Spec
CONSTANTS
    Cluster = {"c1", "c2"}
    Topology <- MCTopology
    ControlPort = {s1, s2}
    BasePort = 1
    PortIncrement = 3
    MaxAttempts = 2
    ForeignPort = {}
    MaxDeploys = 2
    MaxMishaps = 0
SYMMETRY MCSymmetry
PROPERTY
    SavedMeansHealthy
CHECK_DEADLOCK FALSE

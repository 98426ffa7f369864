SPECIFICATION Spec

CONSTANTS
    BasePort = 1
    PortIncrement = 2
    MaxAttempts = 3
    Version = {v6, v7}
    Tool = {"mongosh"}
    Replicas = 2
    ForeignPort = {1, 4}
    MaxCommands = 4
    MaxMishaps = 2

SYMMETRY VersionSymmetry

CHECK_DEADLOCK FALSE

INVARIANTS
    TypeOK
    RecordedFormReplicaSet
    RecordedIsCurrent
    NothingIsLost

PROPERTIES
    StoppedMeansStopped
    WaitsForItsOwn

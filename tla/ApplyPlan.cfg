SPECIFICATION Spec
CONSTANTS
  Plan <- DeployPlan
  NoFile = NoFile  Torn = Torn
  MaxMishaps = 3
CHECK_DEADLOCK FALSE
INVARIANTS
  TypeOK
  ExecutedInOrder
  RecordedIsExecuted
  CompletedMeansAll
  ProgressIsPersisted
PROPERTIES
  ApplyEnds

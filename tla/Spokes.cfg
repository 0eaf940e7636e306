SPECIFICATION Spec
CONSTANTS
    None = None
    Parts = {"fleet", "loop", "push", "values"}
INVARIANT TypeOK
PROPERTIES FleetFollows FailuresAreIsolated PushEnds
CHECK_DEADLOCK FALSE

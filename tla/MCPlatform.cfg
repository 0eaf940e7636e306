SPECIFICATION Spec
CONSTANTS
    None = None
    Parts = {"trigger", "unit", "plugin", "substrate", "planner", "retention", "archive", "listing"}
INVARIANTS TypeOK RecordsAreKept
PROPERTIES TriggerPromotes DerivedFollows StagesArePlanned
CHECK_DEADLOCK FALSE

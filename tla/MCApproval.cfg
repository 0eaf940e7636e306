SPECIFICATION Spec
CONSTANTS
    None = None
    MaxFaults = 1
    Parts = {"decision", "limits", "gate", "webhook", "metrics", "notification", "trace", "lifecycle"}
INVARIANTS TypeOK AgentLimits MetricsDecide
PROPERTIES LinksDecide AdvanceIsEarned LeavesMetricsCheck OutcomeIsTold HandlersHear
CHECK_DEADLOCK FALSE

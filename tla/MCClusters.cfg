SPECIFICATION Spec
CONSTANTS
    None = None
    Parts = {"bootstrap", "heartbeat"}
INVARIANT TypeOK
PROPERTIES SpokeRegisters HeartbeatIsNoticed
CHECK_DEADLOCK FALSE

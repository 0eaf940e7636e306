SPECIFICATION Spec
CONSTANTS
    None = None
    Parts = {"values"}
INVARIANT PromotedIsKept
CHECK_DEADLOCK FALSE

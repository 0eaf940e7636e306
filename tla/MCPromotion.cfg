CONSTANTS
    h1 = h1
    h2 = h2
    Hashes = {h1, h2}
    First = h1
    Budgets <- EditBudgets
SPECIFICATION FairSpec
INVARIANTS TypeOK SucceededWasCompleted
PROPERTIES LatestSpecStamped StatusMirrors SuspendReachesRuns
CHECK_DEADLOCK FALSE

CONSTANTS
    h1 = h1
    h2 = h2
    Hashes = {h1}
    First = h1
    Budgets <- ResumeBudgets
SPECIFICATION FairSpec
PROPERTY ResumeReachesRuns
CHECK_DEADLOCK FALSE

CONSTANTS
    t1 = t1
    c1 = c1
    r1 = r1
    NoRun = NoRun
    Clusters = {c1}
    RunOf <- MCRunOf
    ClusterOf <- MCClusterOf
    Targets = {t1}
    Runs = {r1}
    SoakTargets = {t1}
    GatedTargets = {t1}
    TimedTargets = {t1}
    ApprovalTargets = {t1}
    ContinueTargets = {}
    SharedTargets = {t1}
    ResumedRuns = {r1}
    MissingLimit = 2
    MaxApplies = 1
SPECIFICATION Spec
INVARIANTS TypeOK GatesBeforeApply VetoWins ConvergedWasApplied
PROPERTY PhaseMovesForward
CHECK_DEADLOCK FALSE

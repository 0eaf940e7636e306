CONSTANTS
    t1 = t1
    c1 = c1
    r1 = r1
    NoRun = NoRun
    Clusters = {c1}
    RunOf <- MCRunOf
    ClusterOf <- MCClusterOf
    Targets = {t1}
    Runs = {r1}
    SoakTargets = {}
    GatedTargets = {t1}
    TimedTargets = {t1}
    ApprovalTargets = {}
    ContinueTargets = {t1}
    SharedTargets = {t1}
    ResumedRuns = {}
    MissingLimit = 1
    MaxApplies = 1
SPECIFICATION HFairSpec
INVARIANT NoLostWakeup
PROPERTIES Terminates ImplementsLife
CHECK_DEADLOCK FALSE

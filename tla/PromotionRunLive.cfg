CONSTANTS
    c1 = c1
    c2 = c2
    Clusters = {c1, c2}
    Plans <- MCPlans
    PlanDeps <- MCPlanDeps
    StagesOf <- MCStagesOf
    StageDeps <- MCStageDeps
    Selected <- MCSelected
    Rank <- MCRank
    MaxParallel <- MCMaxParallel
    OnFailure <- MCOnFailure
    MaxFaults = 0
SPECIFICATION FairSpec
PROPERTY RunEnds
CHECK_DEADLOCK FALSE

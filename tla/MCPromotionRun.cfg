CONSTANTS
    c1 = c1
    c2 = c2
    Clusters = {c1, c2}
    Plans <- MCPlans
    PlanDeps <- MCPlanDeps
    StagesOf <- MCStagesOf
    StageDeps <- MCStageDeps
    Selected <- MCSelected
    Rank <- MCRank
    MaxParallel <- MCMaxParallel
    OnFailure <- MCOnFailure
    MaxFaults = 1
SPECIFICATION Spec
INVARIANTS TypeOK StageOrder ParallelBound OutcomeIsEarned
CHECK_DEADLOCK FALSE

SPECIFICATION FairSpec
CONSTANTS
    NoValue = NoValue
    None = NoValue
    MaxPlan = 3
    Plans <- MCPlans
    Tokens <- MCTokens
    Contracts <- MCContracts
    Ids <- MCIds
    Backends <- MCBackends
    Caps <- MCCaps
    Endpoints <- MCEndpoints
INVARIANTS
    TypeOK
    BudgetsHold
    EvidenceBeforeIrreversible
    RefusalEndsRun
    CompletedMeansWholePlan
    WitnessTrail
PROPERTIES
    IsGovernedRun
CHECK_DEADLOCK FALSE

SPECIFICATION Spec
CONSTANTS
    NoValue = NoValue
    None = NoValue
    MaxPlan = 1
    Plans <- MCPlans
    Tokens <- MCTokens
    Contracts <- MCContracts
    Ids <- MCIds
    Backends <- MCBackends
    Caps <- MCCaps
    Endpoints <- MCEndpoints
INVARIANT
    RefusalsYieldConstraintWitness
CHECK_DEADLOCK FALSE

SPECIFICATION Spec
CONSTANTS
    None = None
    Torn = Torn
    MaxRuns = 1
    Plans <- MCPlans
    Settings <- MCDryRun
INVARIANT
    OnlyLiveModePlaces
CHECK_DEADLOCK FALSE

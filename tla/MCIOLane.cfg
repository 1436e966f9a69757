SPECIFICATION FairSpec
CONSTANTS
    None = None
    Torn = Torn
    MaxRuns = 2
    Plans <- MCPlans
    Settings <- MCSettings
INVARIANTS
    TypeOK
    CommitIsOfThisRun
    EvidenceAgrees
    PlacedOrdersAreLogged
PROPERTIES
    NoSecondThoughts
    RollbackFollowsOutcome
    RunsEnd
CHECK_DEADLOCK FALSE

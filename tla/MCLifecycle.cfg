SPECIFICATION Spec
CONSTANTS
    Jobs <- MCJobs
    MaxCommands = 3
    Commits = {c1, c2}
    NoJob = NoJob
    NoPlan = NoPlan
    NoBundle = NoBundle
INVARIANTS
    TypeOK
    OkIsProven
    RefusedIsWitnessed
    FreshEvidence
    InputsAreThere
PROPERTIES
    EarlierVerdictsStand
    RefusedRunsWriteNothing
CONSTRAINT Bounded
ACTION_CONSTRAINT HeadBounded
SYMMETRY AnyCommit
CHECK_DEADLOCK FALSE

SPECIFICATION Spec
CONSTANTS
    Jobs <- ByDefault
    MaxCommands = 1
    Commits = {c1, c2}
    NoJob = NoJob
    NoPlan = NoPlan
    NoBundle = NoBundle
INVARIANTS
    AnchorVerificationPasses
CONSTRAINT Bounded
ACTION_CONSTRAINT HeadBounded
SYMMETRY AnyCommit
CHECK_DEADLOCK FALSE

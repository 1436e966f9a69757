SPECIFICATION Spec
CONSTANTS
    Hot = 2
    Every = 2
    Available = 10
    System = 2
    Sizes = {1, 4}
    WarmSize = 1
    MaxMessages = 6
    MaxSaves = 2
INVARIANTS
    TypeOK
    TailIsVerbatim
    SummariesAccumulate
    CheckpointsKeepUp
CHECK_DEADLOCK FALSE

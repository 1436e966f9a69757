SPECIFICATION FairSpec
CONSTANTS
    Sessions = {"s", "t"}
    MaxTurns <- MC_Turns
    MaxApi = 2
    MaxTools = 1
    MaxTears = 1
INVARIANTS
    TypeOK
    VerifiesIffUnbroken
    TearsCostOneTurnEach
    SealCoversLog
    AnsweredUnlessCutOff
PROPERTY
    TurnsEnd
CHECK_DEADLOCK FALSE

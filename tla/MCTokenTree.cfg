SPECIFICATION Spec
CONSTANTS
    Tools <- MCTools
    Caps <- MCCaps
    Root <- MCRoot
    Requests <- MCRequests
    Toolboxes <- MCToolboxes
    MaxTurn = 2
    MaxWork = 3
    MaxChildren = 3
INVARIANTS
    TypeOK
    Attenuated
    OneLateTurn
    LogIsComplete
PROPERTIES
    IsLease
CHECK_DEADLOCK FALSE

SPECIFICATION Spec
CONSTANTS
    Tools <- MCTools
    Caps <- MCCaps
    Root <- MCRoot
    Requests <- MCRequests
    Toolboxes <- MCToolboxes
    MaxTurn = 2
    MaxWork = 3
    MaxChildren = 1
INVARIANT
    OverspenderRevoked
CHECK_DEADLOCK FALSE

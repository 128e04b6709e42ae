SPECIFICATION FairSpec
CONSTANTS
    EventBlocks = {1, 2, 3}
    MaxHeight = 4
    BlockConfirmations = 1
    Window = 1
    Capacity = 2
    UseWebSocket = TRUE
    MaxFaults = 2
    MayStop = TRUE
INVARIANTS
    TypeOK
    OneSource
PROPERTIES
    LeavesNothingRunning
CHECK_DEADLOCK FALSE

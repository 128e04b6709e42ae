SPECIFICATION FairSpec
CONSTANTS
    EventBlocks = {1, 2, 3}
    MaxHeight = 4
    BlockConfirmations = 1
    Window = 1
    Capacity = 1
    UseWebSocket = TRUE
    MaxFaults = 0
    MayStop = TRUE
PROPERTIES
    StopTerminates
CHECK_DEADLOCK FALSE

SPECIFICATION FairSpec
CONSTANTS
    MaxEvents = 3
    Capacity = 1
    FaultKinds = {"fatal", "mq", "chain", "consume", "conn", "handler"}
    MaxFaults = 2
    MayStop = TRUE
INVARIANTS
    TypeOK
PROPERTIES
    ShutdownLosesNoMessage
    SignalEndsService
    QueueIsServed
CHECK_DEADLOCK FALSE

SPECIFICATION FairSpec
CONSTANTS
    Zero = Zero
    None = None
    Alice = Alice
    Users <- MCUsers
    Transfers <- MCTransfers
    Mined <- MCMined
    FaultKinds = {"publish", "tx", "mq", "crash"}
    MaxFaults = 1
    EventBlocks = {1, 3}
    MaxHeight = 4
    BlockConfirmations = 1
    Window = 1
    Capacity = 1
    MayStop = TRUE
INVARIANTS
    AppliedAtMostOnce
    PolledIsConfirmed
PROPERTIES
    LedgerSpec
    StopTerminates
    ConfirmedIsApplied
CHECK_DEADLOCK FALSE

SPECIFICATION FairSpec
CONSTANTS
    Zero = Zero
    None = None
    Alice = Alice
    Bob = Bob
    Users <- MCUsers
    Transfers <- MCMintSend
    FaultKinds = {"publish", "query", "create", "tx", "mq", "crash"}
    MaxFaults = 2
INVARIANTS
    TypeOK
    RowPostedIffProcessed
    HistoryExplainsBalance
    NoMessageLost
PROPERTIES
    PublishedIsApplied
CHECK_DEADLOCK FALSE

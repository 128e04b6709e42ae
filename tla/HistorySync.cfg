SPECIFICATION FairSpec
CONSTANTS
    Callers = {c1, c2}
    MaxHeight = 3
    Confirmations = 1
    BatchSize = 1
    ContractBlock = 0
    Deployment = 0
    ResetBlocks <- Resets
    FaultKinds = {"query", "write", "node", "event", "crash"}
    MaxFaults = 1
    MaxResets = 1
INVARIANTS
    TypeOK
    NoBlockSkipped
    
PROPERTIES
    FlagIsCleared
    SafeBlocksAreOffered
CHECK_DEADLOCK FALSE

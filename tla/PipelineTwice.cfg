SPECIFICATION Spec
CONSTANTS
    Zero = Zero
    None = None
    Alice = Alice
    Bob = Bob
    Users <- MCUsers
    Transfers <- MCMintSend
    FaultKinds = {"crash"}
    MaxFaults = 1
INVARIANTS
    AppliedAtMostOnce
CHECK_DEADLOCK FALSE

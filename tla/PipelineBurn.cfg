SPECIFICATION Spec
CONSTANTS
    Zero = Zero
    None = None
    Alice = Alice
    Bob = Bob
    Users <- MCUsers
    Transfers <- MCMintBurn
    FaultKinds = {}
    MaxFaults = 0
INVARIANTS
    BalanceMirrorsContract
CHECK_DEADLOCK FALSE

SPECIFICATION Spec
CONSTANTS
    Requests = {"r1", "r2"}
    Amounts <- MCAmounts
    MaxChanges = 3
    MaxTime = 3
INVARIANTS
    TypeOK
    BalanceWasHeld
    BalanceIsLast
CHECK_DEADLOCK FALSE

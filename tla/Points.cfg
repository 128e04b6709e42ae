SPECIFICATION FairSpec
CONSTANTS
    Tickers = {"ticker"}
    Triggers = {"request"}
    Balances <- MCBalances
    MinPeriod = 2
    MaxPeriod = 3
    Unit = 3
    MaxLag = 1
    MaxTime = 5
    MaxChanges = 2
    MaxFaults = 1
INVARIANTS
    TypeOK
    PaidOnceUnlessRaced
    TotalIsSumUnlessRaced
    TotalWithinRows
    RowsPayHeldBalance
    PeriodsMatchReference
PROPERTIES
    HolderIsPaid
CHECK_DEADLOCK FALSE

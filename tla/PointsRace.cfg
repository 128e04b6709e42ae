SPECIFICATION Spec
CONSTANTS
    Tickers = {"ticker"}
    Triggers = {"request"}
    Balances = {1}
    MinPeriod = 2
    MaxPeriod = 5
    Unit = 1
    MaxLag = 0
    MaxTime = 4
    MaxChanges = 1
    MaxFaults = 0
INVARIANTS
    CalculationsExclude
CHECK_DEADLOCK FALSE

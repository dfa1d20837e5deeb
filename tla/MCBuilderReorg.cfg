CONSTANTS
    Orders <- PairOrders
    Info <- PairInfo
    Remainder <- NoRemainder
    Foreign <- None
    Cancels <- OnlyA1
    MAX_ROUND_ORDERS = 2
    ZOMBIE_CAP = 3
    SettleHold = TRUE
    MaxFaults = 3
    MaxReorgs = 1
SPECIFICATION BudgetSpec
INVARIANTS
    NothingLost
    OneHome
    FillsAreReal
CHECK_DEADLOCK FALSE

CONSTANTS
    Orders <- PairOrders
    Info <- PairInfo
    Remainder <- NoRemainder
    Foreign <- None
    Cancels <- OnlyA1
    MAX_ROUND_ORDERS = 2
    ZOMBIE_CAP = 1
    SettleHold = FALSE
    MaxFaults = 2
    MaxReorgs = 1
SPECIFICATION LiveSpec
PROPERTY
    EveryOrderEnds
CHECK_DEADLOCK FALSE

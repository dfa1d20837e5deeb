CONSTANTS
    Orders <- PairOrders
    Info <- PairInfo
    Remainder <- NoRemainder
    Foreign <- None
    Cancels <- None
    MAX_ROUND_ORDERS = 2
    ZOMBIE_CAP = 8
    SettleHold = FALSE
    MaxFaults = 4
    MaxReorgs = 2
SPECIFICATION Spec
INVARIANTS
    LandedIsReported
CHECK_DEADLOCK FALSE

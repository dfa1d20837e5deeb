CONSTANTS
    Orders <- PairOrders
    Info <- PairInfo
    Remainder <- NoRemainder
    Foreign <- None
    Cancels <- PairOrders
    MAX_ROUND_ORDERS = 2
    ZOMBIE_CAP = 8
    SettleHold = FALSE
    MaxFaults = 1
    MaxReorgs = 0
SPECIFICATION Spec
INVARIANTS
    ReceiptedOnce
CHECK_DEADLOCK FALSE

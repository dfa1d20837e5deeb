CONSTANTS
    Orders <- MixedOrders
    Info <- MixedInfo
    Remainder <- MixedRemainder
    Foreign <- FloorOne
    Cancels <- None
    MAX_ROUND_ORDERS = 2
    ZOMBIE_CAP = 8
    SettleHold = FALSE
    MaxFaults = 1
    MaxReorgs = 0
SPECIFICATION Spec
INVARIANT
    NoneStranded
PROPERTY
    KeepsPromise
CHECK_DEADLOCK FALSE

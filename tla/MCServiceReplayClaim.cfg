CONSTANTS
    k1 = k1
    k2 = k2
    Keys = {k1, k2}
    NoKey = NoKey
    Handles <- MCHandles
    Orders <- MCOrders
    Terms <- MCTerms
    DepositOps <- MCDeposits
    WithdrawOps <- MCWithdrawals
    TreasuryOps <- MCSweeps
    CancelOps <- MCCancels
    Worlds <- OnlyLone
    FEE_ACCOUNT = 99
    FEE_FLAT = 1
    SCALE = 2
    WINDOW = 2
    U64_MAX = 1000
    U32 = 1024
    FirstOid = 1
    ExecPrices <- MCPrices
    BAND_PCT = 10
    MaxNet = 2
    MaxBatch = 2
SPECIFICATION Spec
INVARIANTS
    PayloadAcceptedOnce
\* what a world holds runs out
CHECK_DEADLOCK FALSE

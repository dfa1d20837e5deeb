CONSTANTS
    a1 = a1
    a2 = a2
    c1 = c1
    c2 = c2
    c3 = c3
    Depositors = {a1, a2}
    Nonces <- MCNonces
    WINDOW = 2
    SLOT_MAX = 6
    RoundIds = {r1, r2, r3}
    LANDED_TTL_SLOTS = 2
    GC_STEPS = 2
    PerSlot = 2
    Accounts = {a1, a2}
    SignedCommits <- MCSignedCommits
    CarryIds <- MCCarryIds
    COMMIT_TTL_SLOTS = 2
    Ids <- MCIds
    PriceSet <- MCPriceSet
    QtySet <- MCQtySet
    MaxBatch = 2
    SCALE = 2
    U32 = 65536
    Shapes <- MCShapes
    RestingShapes <- MCResting
    MaxQueue = 4
    MAX_ROUND_ORDERS = 3
    GAS_SEALED = 2
    ROUND_GAS_BUDGET = 4
    SealedCaps <- MCSealedCaps
    FIT_PASSES = 1
    ACCTS = {1, 2}
    TREASURY = 0
    BuyBand = {5, 6}
    SellBand = {3}
    UnitSet = {1, 2}
    Pairs = 2
    FEE = 1
    SC = 2
    Funds = 50
SPECIFICATION MCSpec
INVARIANTS
    CreditedOnce
    LostOnlyBeyondWindow
    LiveMarkerKept
    NoOrphanMarker
    CageInStep
    CommitOnce
    CreditsCoverRemainders
    PriceIsOptimal
    BookIsLeftover
    PriorityRespected
    SettlementConserves
    PlanExact
    RevealsExactly
    OracleHolds
PROPERTY BacklogDrains
\* commits, ids and slots run out and the queue is bounded
CHECK_DEADLOCK FALSE

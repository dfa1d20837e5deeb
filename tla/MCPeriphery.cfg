CONSTANTS
    Watched = {o1}
    OPEN_GRACE = 1
    MaxClock = 4
    MaxEvents = 3
    Fills = {f1, f2}
    MaxReorgs = 2
    MaxStarts = 2
    Submitters = {s1}
    Readers = {r1}
    CoreCount = 2
    MaxBlocks = 2
    MaxCalls = 5
    MaxWire = 1
    RECENT = 1
    REPORT_TIMEOUT = 1
    READY_GRACE_SLOTS = 2
    LOOKUP_MARGIN = 2
    MaxSlot = 5
    MaxSends = 2
    MaxRuns = 2
    d1 = d1
    d2 = d2
    DevAccounts <- MCDev
    Assets = {0}
    MAX_ITEMS = 3
    DEPOSIT_WINDOW = 2
    MaxOwnDeposits = 1
    MaxSetups = 2
    n1 = n1
    n2 = n2
    n3 = n3
    Nodes = {n1, n2, n3}
    Seen <- MCSeen
    MAX_LAG = 1
    HOPS = 1
    EPOCH = 1
    WALK = 64
    FORK_RUN = 1
    KEEP = 1
    DROP = 2
    WINDOW = 2
    MaxSamples = 3
    PinnedNodes = {p1, p2}
    ReaderNodes = {u1, u2}
    Bridges = {b1}
    NoBridge = none
    KeyCount = 2
    ATTEMPTS = 2
    READ_ATTEMPTS = 2
    MaxHeight = 2
    FINALITY_WINDOW = 2
    SETTLE_HOLD = 3
    MIN_CONFIRM = 1
    CACHE_SECS = 1
    MaxTime = 5
    MaxFinal = 2
SPECIFICATION MCSpec
INVARIANTS
    VerdictAgrees
    ReceiptsTrue
    AccessFaithful
    OneUsableService
    SetupAsGenesis
    AlarmsAreReal
    ParityIsReal
    FinalityTrusted
\* every part comes to its end
CHECK_DEADLOCK FALSE

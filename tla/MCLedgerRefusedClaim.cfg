CONSTANTS
    MaxRent = 1
    MaxMoves = 1
    BUFFER = 1
    SUPPLY = 2
    WINDOW = 2
    MaxOthers = 1
    Resting = {o1}
    MaxRounds = 3
    RegKeys = {k1, k2}
    REG_MAX_ATTEMPTS = 2
    MaxRequests = 3
    Relays = {r1}
    Counted = {c1, c2}
    LEDGER_KEEP = 1
SPECIFICATION MCSpec
INVARIANT
    RefusedNotTimedOut
\* requests, rounds and submissions run out
CHECK_DEADLOCK FALSE

SPECIFICATION ListenerSpec
CONSTANTS
    PoolMembers = {a1, a2}
    Quorum = 2
    Polls = {p1, p2}
    Processes = {A, B}
    p1 = p1
    p2 = p2
    A = A
    B = B
    Owners <- MCOwners
    Limit = 3
    Lookback = 2
    MaxLedger = 5
    MaxFaults = 1
INVARIANTS
    NeverAhead
    Converges
SYMMETRY Symmetry
CHECK_DEADLOCK FALSE

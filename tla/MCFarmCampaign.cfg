SPECIFICATION Spec
CONSTANTS
    InvestorCount = 2
    a = a b = b m1 = m1 m2 = m2
    Milestones = {m1, m2}
    Arbitrators = {a, b}
    Rosters <- MCRosters
    FundingTarget = 3
    InitMaxFunding = 4
    Deadline = 1
    PlatformFeeBps = 2500
    PartialReleaseCapBps = 7000
    Amounts = {2, 3}
    PartialBps = {3500}
    Windows = {1}
    MaxTime = 2
    MaxRevenue = 2
SYMMETRY Interchangeable
CONSTRAINT OneBreach
INVARIANTS
    ClaimsCovered
    RaisedIsInvested
    RefundsBounded
    ClosingSucceeds
PROPERTIES
    VerdictIsFinal
CHECK_DEADLOCK FALSE

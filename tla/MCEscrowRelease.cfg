SPECIFICATION FairSpec
CONSTANTS
    Keys <- MCKeys
    Msgs = {m1, m2}
    Requests = {m1}
    Deals = {"payable", "invalid", "uninvested"}
    MaxAttempts = 2
    EscrowFunds = 3
    MaxCrashes = 1
    MaxFailures = 2
    MaxExpiries = 1
    MaxReplays = 1
CHECK_DEADLOCK FALSE
INVARIANTS
    ExclusivePayout
    DoneMeansCommitted
    CompletedMeansPaid
    ExtraPayoutNeedsFault
    LossNeedsCause
PROPERTIES
    DeliveredIsReleased

SPECIFICATION Spec
CONSTANTS
    Keys <- MCKeys
    Msgs = {m1, m2}
    Requests = {m1}
    Deals = {"payable"}
    MaxAttempts = 2
    EscrowFunds = 2
    MaxCrashes = 1
    MaxFailures = 1
    MaxExpiries = 0
    MaxReplays = 1
CHECK_DEADLOCK FALSE
INVARIANTS
    NoSilentLoss

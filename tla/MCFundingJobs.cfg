SPECIFICATION Spec
CONSTANTS
    Keys = {1}
    Investments = {1}
    Copies = {1, 2}
    Amount <- MCAmount
    TotalValue = 2
    MinimumTarget = 2
    Ops = {"fund", "cool", "cancel", "close"}
    SchemaChecks = FALSE
    MaxAttempts = 2
    MaxCrashes = 1
    MaxFailures = 3
    MaxExpiries = 1
INVARIANTS
    ConfirmedIsBacked
    FundingDecided
    ExtraTokensNeedFault
CHECK_DEADLOCK FALSE

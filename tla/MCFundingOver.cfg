SPECIFICATION Spec
CONSTANTS
    Keys = {1, 2}
    Investments = {1, 2}
    Copies = {1}
    Amount <- MCAmount
    TotalValue = 2
    MinimumTarget = 2
    Ops = {"confirm"}
    SchemaChecks = FALSE
    MaxAttempts = 2
    MaxCrashes = 0
    MaxFailures = 0
    MaxExpiries = 0
INVARIANTS
    NeverOverfunded
CHECK_DEADLOCK FALSE

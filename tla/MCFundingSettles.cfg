SPECIFICATION FairSpec
CONSTANTS
    Keys = {1, 2}
    Investments = {1, 2}
    Copies = {1}
    Amount <- MCAmount
    TotalValue = 3
    MinimumTarget = 3
    Ops = {"confirm", "cool", "withdraw", "cancel", "close"}
    SchemaChecks = FALSE
    MaxAttempts = 2
    MaxCrashes = 0
    MaxFailures = 2
    MaxExpiries = 0
PROPERTIES
    ExpiredDrains
    DeadStaysDead
CHECK_DEADLOCK FALSE

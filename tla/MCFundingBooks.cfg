SPECIFICATION Spec
CONSTANTS
    Keys = {1, 2, 3}
    Investments = {1, 2, 3}
    Copies = {1}
    Amount <- MCAmount
    TotalValue = 3
    MinimumTarget = 3
    Ops = {"confirm", "cool"}
    SchemaChecks = FALSE
    MaxAttempts = 3
    MaxCrashes = 0
    MaxFailures = 2
    MaxExpiries = 0
INVARIANTS
    TotalNeverOverstated
    ExactUnlessOverlapping
CHECK_DEADLOCK FALSE

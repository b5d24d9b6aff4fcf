SPECIFICATION Spec
CONSTANTS
    Tokens <- MCTokens
    TotalValue = 102
    Drift <- MCDrift
    BatchSize = 2
    MaxAttempts = 4
    MaxRuns = 3
    MaxTrustChanges = 2
INVARIANTS
    OncePerRun
    SharesOfOneRun
PROPERTIES
    ImplementsPayout
CHECK_DEADLOCK FALSE

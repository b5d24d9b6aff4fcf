SPECIFICATION Spec
CONSTANTS
    OrderCount = 3
    Replicas = {1, 2}
    TermsOf <- MCTermsOf
    SortAccepted = TRUE
    Prices = {1}
    MaxRequests = 1
    MaxFaults = 1
INVARIANTS
    SettledWithinSize
    FilledIsSettled
    DormantUntouched
PROPERTIES
    TerminalIsFinal
CHECK_DEADLOCK FALSE

SPECIFICATION Spec
CONSTANTS
    Addr = {adm, fm, pf, i1, i2}
    Admin = adm
    Farmer = fm
    Platform = pf
    Escrow = Escrow
    InitBalance <- MCInitBalance
    DealValue = 3
    MilestoneCount = 2
    Deadline = 0
    MaxTime = 1
    MaxAmount = 2
SYMMETRY InvestorSymmetry
INVARIANTS
    Solvency
    InvestorsWhole
    PayoutExact
    BooksBalance
PROPERTIES
    ReleaseFinal
    BatchRefundComplete
    ImplementsLedger

CONSTANTS
    Txs = {f1, f2}
    Workers = {w1}
    Approvals = {}
    NoFlow = NoFlow
    NoApproval = NoApproval
    Requests <- RequestsAll
    ApprovalKinds <- NoKinds
    RateScale = 2
    FullBps = 10
    MinDeposit = 2
    YieldRounding = 1
    RealizeOverhead = 1
    Buffer = 0
    PenaltyBps = 1
    PenaltyLamports = 0
    RedeemCapacity = 6
    FlowFee = 1
    Registrations = {TRUE, FALSE}
    InitialShares = {0, 8}
    InitialRate = 2
    MaxRate = 3
    Moves <- MovesBothWays
    MaxMoves = 1
    MovesInFlight = FALSE
    ReadsMayFail = FALSE
    Ledger = "memory"
    MaxVersion = 3
    MaxCrashes = 0
SPECIFICATION Spec
SYMMETRY FlowSymmetry
INVARIANTS
    PrincipalCovered
    PrincipalNeverSpent
    RefusalIsRecorded
CHECK_DEADLOCK FALSE

CONSTANTS
    Txs = {f1, f2}
    Workers = {w1}
    Approvals = {}
    NoFlow = NoFlow
    NoApproval = NoApproval
    Requests <- RequestsAll
    ApprovalKinds <- NoKinds
    RateScale = 2
    FullBps = 10
    MinDeposit = 2
    YieldRounding = 0
    RealizeOverhead = 1
    Buffer = 0
    PenaltyBps = 0
    PenaltyLamports = 0
    RedeemCapacity = 10
    FlowFee = 1
    Registrations = {}
    InitialShares = {4}
    InitialRate = 2
    MaxRate = 3
    Moves = {2}
    MaxMoves = 1
    MovesInFlight = FALSE
    ReadsMayFail = TRUE
    Ledger = "postgres"
    MaxVersion = 2
    MaxCrashes = 0
SPECIFICATION Spec
INVARIANTS
    PrincipalNeverSpent
CHECK_DEADLOCK FALSE

CONSTANTS
    Txs = {f1, f2}
    Workers = {w1}
    Approvals = {a1}
    NoFlow = NoFlow
    NoApproval = NoApproval
    Requests <- RequestsOneDeposit
    ApprovalKinds <- DepositOnly
    RateScale = 2
    FullBps = 10
    MinDeposit = 2
    YieldRounding = 0
    RealizeOverhead = 1
    Buffer = 0
    PenaltyBps = 0
    PenaltyLamports = 0
    RedeemCapacity = 10
    FlowFee = 0
    Registrations = {}
    InitialShares = {4}
    InitialRate = 2
    MaxRate = 2
    Moves = {}
    MaxMoves = 0
    MovesInFlight = FALSE
    ReadsMayFail = FALSE
    Ledger = "postgres"
    MaxVersion = 2
    MaxCrashes = 1
SPECIFICATION FairSpec
INVARIANTS
    ApprovalSingleUse
PROPERTIES
    SubmittedResolves
CHECK_DEADLOCK FALSE

CONSTANTS
    Txs = {f1}
    Workers = {w1, w2}
    Approvals = {}
    NoFlow = NoFlow
    NoApproval = NoApproval
    Requests <- RequestsAll
    ApprovalKinds <- NoKinds
    RateScale = 2
    FullBps = 10
    MinDeposit = 2
    YieldRounding = 0
    RealizeOverhead = 1
    Buffer = 0
    PenaltyBps = 0
    PenaltyLamports = 0
    RedeemCapacity = 10
    FlowFee = 1
    Registrations = {}
    InitialShares = {0, 4}
    InitialRate = 2
    MaxRate = 3
    Moves <- MovesBothWays
    MaxMoves = 1
    MovesInFlight = FALSE
    ReadsMayFail = FALSE
    Ledger = "postgres"
    MaxVersion = 3
    MaxCrashes = 0
SPECIFICATION Spec
SYMMETRY WorkerSymmetry
INVARIANTS
    TypeOK
    PrincipalCovered
    NoPhantomPrincipal
CHECK_DEADLOCK FALSE

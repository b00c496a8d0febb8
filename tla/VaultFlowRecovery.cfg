CONSTANTS
    Txs = {f1, f2}
    Workers = {w1, w2}
    Approvals = {}
    NoFlow = NoFlow
    NoApproval = NoApproval
    Requests <- RequestsOneDeposit
    ApprovalKinds <- NoKinds
    RateScale = 2
    FullBps = 10
    MinDeposit = 2
    YieldRounding = 0
    RealizeOverhead = 1
    Buffer = 0
    PenaltyBps = 0
    PenaltyLamports = 0
    RedeemCapacity = 10
    FlowFee = 0
    Registrations = {}
    InitialShares = {4}
    InitialRate = 2
    MaxRate = 2
    Moves = {}
    MaxMoves = 0
    MovesInFlight = FALSE
    ReadsMayFail = TRUE
    Ledger = "postgres"
    MaxVersion = 1
    MaxCrashes = 1
SPECIFICATION Spec
INVARIANTS
    LandedNeverWrittenOff
    BookedOnce
PROPERTIES
    TerminalIsFinal
    ImplementsContract
CHECK_DEADLOCK FALSE

CONSTANTS
    Txs = {p1, p2}
    Workers = {w1}
    NoPayment = NoPayment
    NoRequest = NoRequest
    SellerRequests = {r1, r2}
    PaymentAmount = 2
    RateScale = 2
    FullBps = 10
    PayPenaltyBps = 0
    PayPenaltyLamports = 0
    FeeEstimate = 3
    Fees = {1, 4}
    ShareMargin = 1
    SafetyBuffer = 0
    Capacity = 20
    StartShares = 10
    StartBasis = 5
    StartRate = 2
    LastRate = 3
    Exits = 1
    PromptReads = TRUE
    KeepsOnThrow = TRUE
    LastVersion = 6
    MaxFaults = 1
SPECIFICATION SettlementSpec
SYMMETRY PaymentAndRequestSymmetry
INVARIANTS
    SettlementTypeOK
    RequestPaidOnce
    FailedNeverPaid
    LedgerFollowsChain
    PrincipalReserved
CHECK_DEADLOCK FALSE

CONSTANTS
    Txs = {p1}
    Workers = {w1, w2}
    NoPayment = NoPayment
    NoRequest = NoRequest
    SellerRequests = {r1}
    PaymentAmount = 2
    RateScale = 2
    FullBps = 10
    PayPenaltyBps = 0
    PayPenaltyLamports = 0
    FeeEstimate = 3
    Fees = {1}
    ShareMargin = 0
    SafetyBuffer = 0
    Capacity = 20
    StartShares = 16
    StartBasis = 4
    StartRate = 2
    LastRate = 2
    Exits = 0
    PromptReads = FALSE
    KeepsOnThrow = FALSE
    LastVersion = 4
    MaxFaults = 1
SPECIFICATION FairSettlementSpec
INVARIANTS
    ReservedExact
PROPERTIES
    TerminalPaymentIsFinal
    PaymentResolves
CHECK_DEADLOCK FALSE

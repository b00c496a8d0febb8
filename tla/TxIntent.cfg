CONSTANTS
    RateScale = 2
    FullBps = 10
    Amount = 2
    Rates = {2, 3}
    PenaltyBps = 1
    PenaltyLamports = 1
    Losses = {0, 1}
    Margin = 1
    Rounding = 2
    Overhead = 2
    MaxUnits = 2
    Holdings <- SomeHoldings
    MaxEdits = 2
SPECIFICATION Spec
INVARIANTS
    SignedDoesAsAsked
    BuiltIsSigned
    SponsorKeepsRent
CHECK_DEADLOCK FALSE

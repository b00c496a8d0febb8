CONSTANTS
    Clients = {c1, c2}
    Keys = {k1, k2}
    Flows = {w1, w2, w3}
    Prices = {1, 2}
    NoFlow = NoFlow
    Legacy <- LegacyRecords
    MaxForces = 1
SPECIFICATION Spec
SYMMETRY Symmetric
INVARIANTS
    PayerTypeOK
    PaidOnce
    PaymentFunded
    RealizationOnRecord
CHECK_DEADLOCK FALSE

CONSTANTS
    Unit = 2
    Ips = {a, b}
    Handlers = {h1, h2}
    Ttl = 1
    MaxOpen = 3
    PerIp <- PerIpConfig
    Overall <- OverallConfig
    LastTime = 3
    LastChallenge = 4
    LastPayment = 2
    MaxDrained = 1
SPECIFICATION Spec
SYMMETRY SellerSymmetry
INVARIANTS
    SellerTypeOK
    AccessPaid
    SettlingExclusive
    RoomForBuyers
    AllowancePerEviction
PROPERTIES
    InvitedOnlyTooLate
CHECK_DEADLOCK FALSE

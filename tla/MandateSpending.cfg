CONSTANTS
    Owners = {o1, o2}
    o1 = o1
    o2 = o2
    shop = shop
    Payees = {shop}
    NoDoc = NoDoc
    NoApproval = NoApproval
    NoMandate = NoMandate
    DefaultPolicy <- Default
    Day = 1
    Month = 3
    ApprovalTtl = 2
    FlowTtl = 1
    SessionTtl = 2
    Grace = 1
    MaxAge = 1
    MaxWait = 0
    MaxPending = 2
    Unclassified = FALSE
    Documents <- SpendingDocuments
    Sessions = {}
    Approvals = {a1, a2}
    Flows = {f1, f2}
    Requests <- SpendingRequests
    Level = "on"
    MaxTime = 3
    MaxSignatures = 0
SPECIFICATION Spec
SYMMETRY Symmetric
INVARIANTS
    CapsHold
    OwnerApproved
    ApprovalSpentOnce
CHECK_DEADLOCK FALSE

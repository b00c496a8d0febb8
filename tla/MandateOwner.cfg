CONSTANTS
    Owners = {o1, o2}
    o1 = o1
    o2 = o2
    shop = shop
    Payees = {shop}
    NoDoc = NoDoc
    NoApproval = NoApproval
    NoMandate = NoMandate
    DefaultPolicy <- Default
    Day = 2
    Month = 4
    ApprovalTtl = 2
    FlowTtl = 1
    SessionTtl = 1
    Grace = 1
    MaxAge = 1
    MaxWait = 1
    MaxPending = 2
    Unclassified = FALSE
    Documents <- OwnerDocuments
    Sessions = {x1}
    Approvals = {}
    Flows = {f1}
    Requests <- UnboundRequest
    Level = "warn"
    MaxTime = 3
    MaxSignatures = 1
SPECIFICATION Spec
INVARIANTS
    MandateTypeOK
    RevokedMovesNothing
PROPERTIES
    OwnerKeepsControl
    LinkNeverUndoesRevocation
CHECK_DEADLOCK FALSE

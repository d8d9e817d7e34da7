SPECIFICATION FairAuditSpec
CONSTANTS
    Fault = {"crash", "oserror", "rpc", "evict", "rotate", "rules", "stranger"}
    MaxLine = 3
    MaxRotation = 1
    MaxQueued = 2
INVARIANTS
    AuditTypeOK
    NoNonceGap
    HeardLinesStayAnnounced
PROPERTIES
    ImplementsAuditTrail
    HeardLinesAreRead
CHECK_DEADLOCK FALSE

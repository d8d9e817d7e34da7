SPECIFICATION FairAuditSpec
CONSTANTS
    Fault = {}
    MaxLine = 2
    MaxRotation = 0
    MaxQueued = 2
INVARIANT ReadAccessesRecorded
CHECK_DEADLOCK FALSE

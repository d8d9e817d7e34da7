SPECIFICATION ApiSpec
CONSTANTS
    MaxUser = 3
    MaxGroup = 1
    MaxMessage = 1
    MaxEpoch = 2
    r1 = r1
    r2 = r2
    Request = {r1, r2}
SYMMETRY RequestSymmetry
INVARIANTS
    ApiTypeOK
    NoGroupWithoutMembers
    PendingKeysNotAhead
PROPERTIES
    LeaveChangesKey
    RemovalPurgesPendingKeys
    MessageKeptUntilAcknowledged
CHECK_DEADLOCK FALSE

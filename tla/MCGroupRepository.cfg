SPECIFICATION FairSpec
CONSTANTS
    MaxUser = 3
    MaxGroup = 1
    MaxMessage = 1
    MaxEpoch = 3
INVARIANTS
    TypeOK
    CreatorIsMember
    CurrentKeyKeptInside
    PendingKeysNotAhead
PROPERTIES
    AudienceOnlyShrinks
    RemovalPurgesPendingKeys
    ImplementsGroupLife
    MessagesGoOrAreStranded
CHECK_DEADLOCK FALSE

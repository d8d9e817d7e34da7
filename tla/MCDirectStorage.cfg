SPECIFICATION StorageSpec
CONSTANTS
    alice = alice
    bob = bob
    carol = carol
    c1 = c1
    c2 = c2
    Account = {alice, bob, carol}
    Connection = {c1, c2}
    InboxMax = 1
    MaxMessage = 1
    MaxPrekey = 2
    MaxUpload = 2
    MaxPost = 1
SYMMETRY StorageSymmetry
INVARIANTS
    StorageTypeOK
    PrekeyHandedOutOnce
    EndedOnce
    NothingOfDeletedAccounts
    StaysOnlyIfOverlapped
PROPERTIES
    GoesWhenAllHaveIt
    ImplementsAtomicStorage
CHECK_DEADLOCK FALSE

SPECIFICATION StorageSpec
CONSTANTS
    alice = alice
    bob = bob
    carol = carol
    c1 = c1
    c2 = c2
    Account = {alice, bob, carol}
    Connection = {c1, c2}
    InboxMax = 1
    MaxMessage = 2
    MaxPrekey = 2
    MaxUpload = 2
    MaxPost = 0
SYMMETRY StorageSymmetry
INVARIANT InboxWithinLimit
CHECK_DEADLOCK FALSE

SPECIFICATION FairServerSpec
CONSTANTS
    r1 = r1
    r2 = r2
    r3 = r3
    Request = {r1, r2, r3}
    None = None
    PoolSize = 2
    ThreadLimit = 2
INVARIANTS
    ServerTypeOK
    NothingLeaks
    OnlyRefusalsHoldRows
    SomebodyGoesOrStuck
PROPERTY EveryRequestEnds
CHECK_DEADLOCK FALSE

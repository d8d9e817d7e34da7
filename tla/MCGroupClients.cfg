SPECIFICATION ClientSpec
CONSTANTS
    MaxUser = 3
    MaxGroup = 1
    MaxMessage = 0
    MaxEpoch = 3
    r1 = r1
    r2 = r2
    r3 = r3
    Request = {r1, r2, r3}
SYMMETRY RequestSymmetry
INVARIANT RemovedMemberLacksCurrentKey
CHECK_DEADLOCK FALSE

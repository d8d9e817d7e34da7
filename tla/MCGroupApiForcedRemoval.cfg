SPECIFICATION ApiSpec
CONSTANTS
    MaxUser = 3
    MaxGroup = 1
    MaxMessage = 0
    MaxEpoch = 2
    r1 = r1
    r2 = r2
    Request = {r1, r2}
SYMMETRY RequestSymmetry
PROPERTY OnlyCreatorRemovesOthers
CHECK_DEADLOCK FALSE

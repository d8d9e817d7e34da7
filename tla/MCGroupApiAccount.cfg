SPECIFICATION ApiSpec
CONSTANTS
    MaxUser = 4
    MaxGroup = 1
    MaxMessage = 0
    MaxEpoch = 3
    r1 = r1
    r2 = r2
    Request = {r1, r2}
SYMMETRY RequestSymmetry
PROPERTY OnlyLastMemberTakesGroup
CHECK_DEADLOCK FALSE

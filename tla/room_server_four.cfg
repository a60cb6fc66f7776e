CONSTANTS
    u1 = u1
    u2 = u2
    NoUser = NoUser
    Users = {u1, u2}
    IdCount = 2
    MaxCounts = {0, 2}
    ReqLevels = {1, 3}
SPECIFICATION Spec
INVARIANT NoCountMeansFour
SYMMETRY AccountSymmetry
CHECK_DEADLOCK FALSE

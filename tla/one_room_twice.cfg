CONSTANTS
    u1 = u1
    u2 = u2
    u3 = u3
    NoUser = NoUser
    Users = {u1, u2, u3}
    MaxUserSize = 2
    ReqLevels = {1, 3}
SPECIFICATION Spec
INVARIANT NoAccountListedTwice
SYMMETRY AccountSymmetry
CHECK_DEADLOCK FALSE

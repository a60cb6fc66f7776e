CONSTANTS
    u1 = u1
    u2 = u2
    NoUser = NoUser
    Users = {u1, u2}
    IdCount = 2
    MaxCounts = {0, 2}
    ReqLevels = {1, 3}
SPECIFICATION Spec
INVARIANTS
    TypeOK
    RoomsInv
    IndexInv
    FreshIds
PROPERTIES
    AnswersTellTheTruth
    RoomsAreNeverReplaced
SYMMETRY AccountSymmetry
CHECK_DEADLOCK FALSE

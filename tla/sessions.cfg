SPECIFICATION Spec
CONSTANTS
    o1 = o1
    o2 = o2
    o3 = o3
    game = game
    node = node
    other = other
    Objects <- MCObjects
    Hosts <- MCOneHost
    Types <- MCTypes
    CT_DEFAULT = other
    HostType <- MCOneHostType
    Uids = {0, 1}
    IdCount = 3
    ConvStart = 3
    ConvBound = 4
    ConnectBound = 2
SYMMETRY MCSymmetry
CHECK_DEADLOCK FALSE
INVARIANTS
    TypeOK
    IndexesAgree
    NoDanglingUid

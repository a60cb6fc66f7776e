SPECIFICATION FairSpec
CONSTANTS
    o1 = o1
    o2 = o2
    o3 = o3
    game = game
    node = node
    other = other
    Objects <- MCTwoObjects
    Hosts <- MCTwoHosts
    Types <- MCTypes
    CT_DEFAULT = other
    HostType <- MCTwoHostTypes
    Uids = {0}
    IdCount = 3
    ConvStart = 3
    ConvBound = 4
    ConnectBound = 2
CHECK_DEADLOCK FALSE
INVARIANTS
    HostsHaveSessions
PROPERTIES
    LostHostsAreRetried

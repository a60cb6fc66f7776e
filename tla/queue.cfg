CONSTANTS
    p1 = p1
    p2 = p2
    w1 = w1
    w2 = w2
    a = a
    b = b
    NoCall = NoCall
    Producers = {p1, p2}
    Workers = {w1, w2}
    Values = {a, b}
    MAX_SIZE = 2
SPECIFICATION FairSpec
INVARIANTS
    TypeOK
    RingInv
    NoLostWakeup
PROPERTIES
    ImplementsChannel
    WaitingWritersAreWoken

SPECIFICATION Spec
CONSTANTS
    g1 = g1
    g2 = g2
    c1 = c1
    c2 = c2
    u1 = u1
    Users = {u1}
    Gates = {g1, g2}
    Clients <- MCClients
    GateOf <- MCGateOf
    IdOf <- MCIdOf
    AccountOf <- MCAccountOf
    Ids = {1}
    Rooms = {1}
    MaxNode = 1
    MaxAsked = 1
    MaxWaiting = 2
    CreateAnswered = FALSE
    NoUser = NoUser
CHECK_DEADLOCK FALSE
INVARIANT
    UnknownUsersAreRefused

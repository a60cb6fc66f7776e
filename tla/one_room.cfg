CONSTANTS
    u1 = u1
    u2 = u2
    u3 = u3
    NoUser = NoUser
    Users = {u1, u2, u3}
    MaxUserSize = 3
    ReqLevels = {1, 3}
SPECIFICATION FairSpec
INVARIANTS
    TypeOK
    MapInv
    NumbersInv
    ReadyInv
    OwnerInv
    StartInv
PROPERTIES
    RunningRoomIsFrozen
    StayersKeepTheirPlace
    ImplementsLobby
    FullRoomStarts
CHECK_DEADLOCK FALSE

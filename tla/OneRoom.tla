------------------------------ MODULE OneRoom ------------------------------
(***************************************************************************)
(* One room of the room server and the requests about it that reach        *)
(* NodeService: an account enters, leaves, is ready, chooses a level.  A    *)
(* handler runs to its end in the io thread, so it is one step; the         *)
(* requests come in any order and number, from node servers that do not     *)
(* know who is in the room.  In particular an account that is already in    *)
(* the list may be made to enter again: onEnterRoom makes a new User for    *)
(* every request.                                                           *)
(***************************************************************************)
EXTENDS Room

CONSTANTS
    MaxUserSize,  \* maxusercount of the request that created the room
    ReqLevels     \* the levels requests ask for

ASSUME OneRoomAssumption ==
    /\ MaxUserSize \in Nat
    /\ ReqLevels \subseteq Int

VARIABLE room

Init == room = NewRoom(MaxUserSize)

(* onEnterRoom: a fresh User, userEnter. *)
Enter(u) ==
    /\ UserEnterRet(room, "none") = 0
    /\ room' = UserEnter(room, u)

(* onLeaveRoom. *)
Leave(u) ==
    /\ UserLeaveRet(room, u) = 0
    /\ room' = UserLeave(room, u)

(* onUserReady of a member that is not the owner ... *)
Ready(u) ==
    /\ UserReadyRet(room, u) = 0
    /\ room' = UserReady(room, u)

(* ... and of the owner, which starts the game. *)
StartGame(u) ==
    /\ UserReadyRet(room, u) = 1
    /\ room' = SetStatus(UserReady(room, u), RoomStateRunning)

(* onChooseLevel. *)
ChooseLevel(u, level) ==
    /\ UserChoseLevelRet(room, u, level) = 0
    /\ room' = UserChoseLevel(room, level)

Next ==
    \E u \in Users :
        \/ Enter(u)
        \/ Leave(u)
        \/ Ready(u)
        \/ StartGame(u)
        \/ \E level \in ReqLevels : ChooseLevel(u, level)

Spec == Init /\ [][Next]_room

(***************************************************************************)
(* The environment assumed for liveness: every client keeps asking to be    *)
(* ready as long as its request would be granted.                           *)
(***************************************************************************)
Fairness == \A u \in Users : WF_room(Ready(u)) /\ WF_room(StartGame(u))
FairSpec == Spec /\ Fairness

-----------------------------------------------------------------------------
(* The room's record has the types of Room's data members. *)
TypeOK == room \in RoomObject /\ room.max = MaxUserSize

(* No iterator of m_map_users_ is left on another account's user object. *)
MapInv == MapLeadsToOwnEntry(room)

(* Player numbers, the list and m_cur_room_size_ agree; no number is leaked
   by a leave or given to two players. *)
NumbersInv == NumbersMatchUsers(room)

(* m_cur_ready_users_ is the number of listed users that are ready. *)
ReadyInv == ReadyCountMatches(room)

(* The front of the list, and nobody else, is the owner. *)
OwnerInv == OneOwnerAtFront(room)

(* A running game has every place taken and every listed user ready. *)
StartInv == StartedFullAndReady(room)

(* Once the game runs nothing of the room changes: nobody enters or leaves,
   the owner stays and the level is the one the owner chose before. *)
RunningRoomIsFrozen == [][~IsRunning(room)]_room

(* Whoever leaves, a user that stays keeps its player number, never loses its
   ready state and keeps its place relative to the others, so the next owner
   is always the one who has been in the room longest. *)
StayersKeepTheirPlace ==
    [][\A i, j \in Positions(room) :
         i <= j /\ {SeatOf(room, i), SeatOf(room, j)} \subseteq PlayersOf(room')
         => \E k, l \in Positions(room') :
              /\ k <= l
              /\ SeatOf(room', k) = SeatOf(room, i)
              /\ SeatOf(room', l) = SeatOf(room, j)
              /\ room.users[i].ready => room'.users[k].ready]_room

(* The room implements the lobby: a user sits on the seat of its player
   number, the owner's seat is that of the front of the list. *)
LobbySitting ==
    [s \in 1..MaxUserSize |->
        IF s \in PlayersOf(room)
        THEN room.users[CHOOSE i \in Positions(room) : SeatOf(room, i) = s].uid
        ELSE NoUser]

LobbyOwner == IF room.users = << >> THEN 0 ELSE SeatOf(room, 1)

TheLobby == INSTANCE Lobby WITH
    Players <- Users,
    Seats   <- 1..MaxUserSize,
    Empty   <- NoUser,
    NoSeat  <- 0,
    sitting <- LobbySitting,
    ready   <- ReadyPlayers(room),
    owner   <- LobbyOwner,
    started <- IsRunning(room)

ImplementsLobby == TheLobby!Spec

(* Liveness: a full room with all its users in the map and an owner that is
   not ready yet does not stay so: when every client keeps asking to be ready,
   the game is started, unless somebody leaves. *)
Waiting ==
    /\ ~IsRunning(room)
    /\ room.size = room.max
    /\ room.size > 0
    /\ ~room.users[1].ready
    /\ EveryUserMapped(room)

FullRoomStarts == Waiting ~> ~Waiting

-----------------------------------------------------------------------------
(* What the comments of the code say and the code does not do. *)

(* userEnter answers "2: the user already exists": no account is listed twice
   in a room. *)
NoAccountListedTwice ==
    \A i, j \in Positions(room) : room.users[i].uid = room.users[j].uid => i = j
=============================================================================

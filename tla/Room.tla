-------------------------------- MODULE Room --------------------------------
(***************************************************************************)
(* The class Room of RoomServer/src/model/Room: its data members as one    *)
(* record, its methods as operators.  A method that may refuse has two     *)
(* operators: the return code the caller sees (UserEnterRet ...) and the   *)
(* object after a call that returned success (UserEnter ...).              *)
(*                                                                         *)
(* m_list_users_ is a sequence of the User objects it shares; m_map_users_ *)
(* maps a user id to an iterator into that list, which is a position in    *)
(* the sequence here, and 0 when the id is not in the map.  num_use is the *)
(* set of the player numbers taken.                                        *)
(***************************************************************************)
EXTENDS Integers, Sequences, FiniteSets, SequencesExt, FiniteSetsExt

CONSTANTS
    Users,    \* account ids that node servers send
    NoUser    \* the value 0 of m_userid_master_

ASSUME UserAssumption == NoUser \notin Users

RoomStatePreparation == 0
RoomStateReady       == 1
RoomStateRunning     == 2
RoomStateSettleMent  == 3
RoomStates == RoomStatePreparation .. RoomStateSettleMent

(* m_set_levels, filled by both constructors. *)
SetLevels == {0, 1, 2}

(* A User while a room lists it; player is -1 when no number was free. *)
UserObject == [uid : Users, player : Int, master : BOOLEAN, ready : BOOLEAN]

RoomObject ==
    [max     : Nat,                    \* MAX_USER_SIZE
     users   : Seq(UserObject),   \* m_list_users_
     at      : [Users -> Nat],         \* m_map_users_
     size    : Int,                    \* m_cur_room_size_
     readies : Int,                    \* m_cur_ready_users_
     state   : RoomStates,             \* m_rs_state_
     master  : Users \cup {NoUser},    \* m_userid_master_
     level   : SetLevels,              \* m_lid_level_
     numUse  : SUBSET Nat]             \* num_use

NewRoom(maxSize) ==
    [max     |-> maxSize,
     users   |-> << >>,
     at      |-> [u \in Users |-> 0],
     size    |-> 0,
     readies |-> 0,
     state   |-> RoomStatePreparation,
     master  |-> NoUser,
     level   |-> 0,
     numUse  |-> {}]

IsRunning(r) == r.state >= RoomStateReady
Holds(r, u)  == r.at[u] # 0
UserOf(r, u) == r.users[r.at[u]]

(* The lowest player number not in use, or -1. *)
FreePlayer(r) ==
    LET free == 1..r.max \ r.numUse
    IN  IF free = {} THEN -1 ELSE Min(free)

-----------------------------------------------------------------------------
(* userEnter.  inRoom says where the User object passed already is: the    *)
(* service passes a User it has just made, which is in no room ("none").   *)

UserEnterRet(r, inRoom) ==
    IF IsRunning(r) THEN 4
    ELSE IF r.size >= r.max THEN 1
    ELSE IF inRoom = "this" THEN 3
    ELSE IF inRoom = "other" THEN 2
    ELSE 0

UserEnter(r, u) ==
    LET first  == r.size = 0
        player == FreePlayer(r)
        entry  == [uid |-> u, player |-> player, master |-> first, ready |-> FALSE]
    IN  [r EXCEPT !.users  = Append(@, entry),
                  !.at     = [@ EXCEPT ![u] = Len(r.users) + 1],
                  !.master = IF first THEN u ELSE @,
                  !.numUse = @ \cup ({player} \ {-1}),
                  !.size   = @ + 1]

(* userLeave, with clear_user_info and, when the owner's id is the one that *)
(* left, find_new_master: the front of the list becomes the owner and keeps *)
(* its ready flag.                                                          *)

(* Mutant of UserLeaveRet: a running room can be left. *)
UserLeaveRet_AnyState(r, u) == IF ~Holds(r, u) THEN 2 ELSE 0

UserLeaveRet(r, u) ==
    IF IsRunning(r) THEN 1 ELSE IF ~Holds(r, u) THEN 2 ELSE 0

(* Mutants of the parts of userLeave: the map keeps the account, the number is
   not given back, a ready user leaves without being counted off, the new owner
   gets no flag or has to be ready again. *)
AtWithout_KeepsAccount(r, u, k) ==
    [v \in Users |-> IF r.at[v] > k THEN r.at[v] - 1 ELSE r.at[v]]
NumUseWithout_Leaks(r, entry) == r.numUse
ReadiesWithout_Keeps(r, entry) == r.readies
FindNewMaster_NoFlag(rest) == rest
FindNewMaster_NotReady(rest) ==
    IF rest = << >> THEN rest
    ELSE [rest EXCEPT ![1].master = TRUE, ![1].ready = FALSE]

(* The map without u, when the list has lost the element at position k. *)
AtWithout(r, u, k) ==
    [v \in Users |-> IF v = u THEN 0
                     ELSE IF r.at[v] > k THEN r.at[v] - 1
                     ELSE r.at[v]]

NumUseWithout(r, entry) == r.numUse \ {entry.player}

ReadiesWithout(r, entry) == IF entry.ready THEN r.readies - 1 ELSE r.readies

FindNewMaster(rest) ==
    IF rest = << >> THEN rest ELSE [rest EXCEPT ![1].master = TRUE]

UserLeave(r, u) ==
    LET k          == r.at[u]
        entry      == r.users[k]
        rest       == RemoveAt(r.users, k)
        needMaster == entry.uid = r.master
    IN  [r EXCEPT !.users   = IF needMaster THEN FindNewMaster(rest) ELSE rest,
                  !.at      = AtWithout(r, u, k),
                  !.master  = IF ~needMaster THEN @
                              ELSE IF rest = << >> THEN NoUser ELSE rest[1].uid,
                  !.readies = ReadiesWithout(r, entry),
                  !.numUse  = NumUseWithout(r, entry),
                  !.size    = @ - 1]

(* userReady.  The owner's ready is the command to start. *)

(* Mutants of the owner's start: in a room with free places, or only when the
   owner itself is counted ready before; and of userReady: twice by one user. *)
MayStart_NotFull(r) == r.readies >= r.size - 1
MayStart_OwnerReady(r) == r.size = r.max /\ r.readies >= r.size

MayStart(r) == r.size = r.max /\ r.readies >= r.size - 1

UserReadyRet_Twice(r, u) ==
    IF r.state >= RoomStateRunning THEN 2
    ELSE IF ~Holds(r, u) THEN 3
    ELSE IF UserOf(r, u).master THEN (IF MayStart(r) THEN 1 ELSE 6)
    ELSE 0

UserReadyRet(r, u) ==
    IF r.state >= RoomStateRunning THEN 2
    ELSE IF ~Holds(r, u) THEN 3
    ELSE IF UserOf(r, u).ready THEN 4
    ELSE IF UserOf(r, u).master THEN (IF MayStart(r) THEN 1 ELSE 6)
    ELSE 0

UserReady(r, u) ==
    [r EXCEPT !.users   = [@ EXCEPT ![r.at[u]].ready = TRUE],
              !.readies = @ + 1]

(* Mutant of UserChoseLevelRet: any level is accepted. *)
UserChoseLevelRet_AnyLevel(r, u, level) ==
    IF IsRunning(r) THEN 1
    ELSE IF ~Holds(r, u) THEN 2
    ELSE IF r.master # u THEN 3
    ELSE 0

(* userChoseLevel. *)

UserChoseLevelRet(r, u, level) ==
    IF IsRunning(r) THEN 1
    ELSE IF ~Holds(r, u) THEN 2
    ELSE IF r.master # u THEN 3
    ELSE IF level \notin SetLevels THEN 4
    ELSE 0

UserChoseLevel(r, level) == [r EXCEPT !.level = level]

SetStatus(r, st) == [r EXCEPT !.state = st]

-----------------------------------------------------------------------------
(* What is true of a room object between two calls. *)

Positions(r)    == 1..Len(r.users)
SeatOf(r, i)    == r.users[i].player
PlayersOf(r)      == {SeatOf(r, i) : i \in Positions(r)}
ReadyPlayers(r) == {SeatOf(r, i) : i \in {j \in Positions(r) : r.users[j].ready}}

(* The map leads each account to a user object of that account in the list:
   no iterator is left on another user's node when an entry in front of it
   is erased, or when an account enters twice. *)
MapLeadsToOwnEntry(r) ==
    \A u \in Users : Holds(r, u) =>
        r.at[u] \in Positions(r) /\ UserOf(r, u).uid = u

(* The player numbers in use are exactly those of the listed users, no two
   users share one, and their number is m_cur_room_size_: a number is never
   leaked by a leave nor given to two players by an enter, and the room never
   holds more than MAX_USER_SIZE users. *)
NumbersMatchUsers(r) ==
    /\ r.size = Len(r.users)
    /\ r.size <= r.max
    /\ PlayersOf(r) \subseteq 1..r.max
    /\ r.numUse = PlayersOf(r)
    /\ \A i, j \in Positions(r) : SeatOf(r, i) = SeatOf(r, j) => i = j

(* m_cur_ready_users_ counts the listed users that are ready, whichever of
   them left in between and whatever their ready state was. *)
ReadyCountMatches(r) == r.readies = Cardinality(ReadyPlayers(r))

(* A room that is not empty has exactly one owner: the user at the front of
   the list holds the owner's flag, nobody else does, and m_userid_master_ is
   that user's id. *)
OneOwnerAtFront(r) ==
    IF r.users = << >> THEN r.master = NoUser
    ELSE /\ r.master = r.users[1].uid
         /\ \A i \in Positions(r) : r.users[i].master <=> i = 1

(* The game is started only with every place taken and every listed user
   ready, the owner included. *)
StartedFullAndReady(r) ==
    IsRunning(r) =>
        /\ Len(r.users) = r.max
        /\ \A i \in Positions(r) : r.users[i].ready

(* The map leads to every listed user: nobody entered twice, and nobody who
   did has left since. *)
EveryUserMapped(r) == \A i \in Positions(r) : r.at[r.users[i].uid] = i
=============================================================================

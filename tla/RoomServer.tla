----------------------------- MODULE RoomServer -----------------------------
(***************************************************************************)
(* The room server: the rooms RoomManager indexes and the handlers of       *)
(* NodeService.  A handler finds the room by its id, calls one method of    *)
(* Room and answers the node server the request came from; it runs to its   *)
(* end in the io thread.  Requests come from any number of node servers in  *)
(* any order, for rooms that may not exist and accounts that may be in any  *)
(* number of rooms.  No handler removes a room.                             *)
(***************************************************************************)
EXTENDS Room

CONSTANTS
    IdCount,     \* how many room ids there are before m_cur_roomids_ wraps: 2^32
    MaxCounts,   \* the maxusercount values of create requests, 0 when not given
    ReqLevels    \* the levels requests ask for

ASSUME RoomServerAssumption ==
    /\ IdCount \in Nat \ {0}
    /\ MaxCounts \subseteq Nat
    /\ ReqLevels \subseteq Int

(* The low half of a room id; the high half is the uid of the server. *)
RoomIds == 0..(IdCount - 1)

VARIABLES
    rooms,    \* m_map_id_rooms_, from the id to the room itself
    list,     \* m_list_id_rooms_, as a sequence of ids
    types,    \* m_map_type_rooms_: the rooms of each MAX_USER_SIZE, as ids
    nextId,   \* m_cur_roomids_
    sent      \* the last message sent to a node server

roomVars == <<rooms, list, types, nextId>>
vars == <<rooms, list, types, nextId, sent>>

(***************************************************************************)
(* An answer.  "asker": it goes to the node server that asked, with the     *)
(* request_id of the request; "account": to the connection whose number is  *)
(* the account id, without a request_id; "garbled": to the asker, with a    *)
(* request_id that is not the request's.                                    *)
(***************************************************************************)
Answer(kind, u, id, code, to) ==
    [kind |-> kind, account |-> u, room |-> id, code |-> code, to |-> to]

NoAnswer == Answer("none", NoUser, 0, "NONE", "none")

Init ==
    /\ rooms = << >>
    /\ list = << >>
    /\ types = [m \in MaxCounts |-> << >>]
    /\ nextId = 0
    /\ sent = NoAnswer

Exists(id) == id \in DOMAIN rooms

(* Mutant of GenerateRoomID: a counter half as wide as the ids. *)
GenerateRoomID_Narrow == nextId' = (nextId + 1) % ((IdCount + 1) \div 2)

(* GenerateRoomID. *)
GenerateRoomID == nextId' = (nextId + 1) % IdCount

(* Mutant of TypeIndexWith: the room takes the place of those of its size. *)
TypeIndexWith_Replaces(idx, m, id) == [idx EXCEPT ![m] = << id >>]

(* findRoomForCreate, of an id that is not in the map. *)
TypeIndexWith(idx, m, id) == [idx EXCEPT ![m] = Append(@, id)]

AddRoom(id, r) ==
    /\ rooms' = [i \in DOMAIN rooms \cup {id} |-> IF i = id THEN r ELSE rooms[i]]
    /\ list' = Append(list, id)
    /\ types' = TypeIndexWith(types, r.max, id)

(* Mutant of CreateRefused: the id is not looked up. *)
CreateRefused_Never(id) == FALSE

(* onCreateRoom: the creator enters the new room, whatever userEnter says. *)
CreateRefused(id) == Exists(id)

CreateRoom(u, m) ==
    LET id  == nextId
        new == NewRoom(m)
    IN  /\ GenerateRoomID
        /\ IF CreateRefused(id)
           THEN /\ sent' = Answer("create", u, id, "ROOMID_EXIST", "account")
                /\ UNCHANGED <<rooms, list, types>>
           ELSE /\ AddRoom(id, IF UserEnterRet(new, "none") = 0
                               THEN UserEnter(new, u) ELSE new)
                /\ sent' = Answer("create", u, id, "SUCC", "account")

(* The room id's object becomes r, the answer is SUCC. *)
Succeed(kind, u, id, r) ==
    /\ rooms' = [rooms EXCEPT ![id] = r]
    /\ sent' = Answer(kind, u, id, "SUCC", "asker")
    /\ UNCHANGED <<list, types, nextId>>

Refuse(kind, u, id, code) ==
    /\ sent' = Answer(kind, u, id, code, "asker")
    /\ UNCHANGED roomVars

(* Mutant of EnterCode: the case of the busy room is missing. *)
EnterCode_NoBusy(ret) ==
    CASE ret = 1 -> "ROOM_FULL"
      [] ret \in {2, 3} -> "IN_ROOM"
      [] OTHER -> "SUCC"

(* onEnterRoom, with a User made for the request. *)
EnterCode(ret) ==
    CASE ret = 1 -> "ROOM_FULL"
      [] ret \in {2, 3} -> "IN_ROOM"
      [] ret = 4 -> "ROOM_BUSY"
      [] OTHER -> "SUCC"

EnterUnknown(u, id) == ~Exists(id) /\ Refuse("enter", u, id, "ROOM_NOT_EXIST")

EnterRefused(u, id) ==
    /\ Exists(id)
    /\ UserEnterRet(rooms[id], "none") # 0
    /\ Refuse("enter", u, id, EnterCode(UserEnterRet(rooms[id], "none")))

EnterRoom(u, id) ==
    /\ Exists(id)
    /\ UserEnterRet(rooms[id], "none") = 0
    /\ Succeed("enter", u, id, UserEnter(rooms[id], u))

(* onLeaveRoom. *)
LeaveUnknown(u, id) == ~Exists(id) /\ Refuse("leave", u, id, "REQ_INVALID")

LeaveRefused(u, id) ==
    /\ Exists(id)
    /\ UserLeaveRet(rooms[id], u) # 0
    /\ Refuse("leave", u, id,
              IF UserLeaveRet(rooms[id], u) = 1 THEN "ROOM_BUSY" ELSE "NOT_IN_ROOM")

LeaveRoom(u, id) ==
    /\ Exists(id)
    /\ UserLeaveRet(rooms[id], u) = 0
    /\ Succeed("leave", u, id, UserLeave(rooms[id], u))

(* onUserReady: the owner's ready, answered 1, starts the game. *)
ReadyCode(ret) ==
    CASE ret = 2 -> "FAILED"
      [] ret = 3 -> "REQ_INVALID"
      [] ret = 4 -> "USER_BEEN_READY"
      [] ret = 6 -> "USER_NOT_READY"

ReadyUnknown(u, id) == ~Exists(id) /\ Refuse("ready", u, id, "REQ_INVALID")

ReadyRefused(u, id) ==
    /\ Exists(id)
    /\ UserReadyRet(rooms[id], u) > 1
    /\ Refuse("ready", u, id, ReadyCode(UserReadyRet(rooms[id], u)))

UserIsReady(u, id) ==
    /\ Exists(id)
    /\ UserReadyRet(rooms[id], u) = 0
    /\ Succeed("ready", u, id, UserReady(rooms[id], u))

GameStart(u, id) ==
    /\ Exists(id)
    /\ UserReadyRet(rooms[id], u) = 1
    /\ Succeed("ready", u, id, SetStatus(UserReady(rooms[id], u), RoomStateRunning))

(***************************************************************************)
(* onChooseLevel.  For a room that does not exist the code sets the return  *)
(* code through a pointer to the wrong message: the number lands in the     *)
(* outer message, where its request_id lies, and the inner message keeps    *)
(* the default of the code, RET_SUCC.                                       *)
(***************************************************************************)
LevelCode(ret) ==
    CASE ret = 1 -> "ROOM_BUSY"
      [] ret \in {2, 3} -> "REQ_INVALID"
      [] ret = 4 -> "LEVEL_NOT_EXIST"

LevelUnknown(u, id) ==
    /\ ~Exists(id)
    /\ sent' = Answer("level", u, id, "SUCC", "garbled")
    /\ UNCHANGED roomVars

LevelRefused(u, id, level) ==
    /\ Exists(id)
    /\ UserChoseLevelRet(rooms[id], u, level) # 0
    /\ Refuse("level", u, id, LevelCode(UserChoseLevelRet(rooms[id], u, level)))

ChooseLevel(u, id, level) ==
    /\ Exists(id)
    /\ UserChoseLevelRet(rooms[id], u, level) = 0
    /\ Succeed("level", u, id, UserChoseLevel(rooms[id], level))

onEnterRoom(u, id) == EnterUnknown(u, id) \/ EnterRefused(u, id) \/ EnterRoom(u, id)
onLeaveRoom(u, id) == LeaveUnknown(u, id) \/ LeaveRefused(u, id) \/ LeaveRoom(u, id)
onUserReady(u, id) ==
    \/ ReadyUnknown(u, id)
    \/ ReadyRefused(u, id)
    \/ UserIsReady(u, id)
    \/ GameStart(u, id)
onChooseLevel(u, id) ==
    \/ LevelUnknown(u, id)
    \/ \E level \in ReqLevels : LevelRefused(u, id, level) \/ ChooseLevel(u, id, level)

Next ==
    \E u \in Users :
        \/ \E m \in MaxCounts : CreateRoom(u, m)
        \/ \E id \in RoomIds :
              onEnterRoom(u, id) \/ onLeaveRoom(u, id) \/ onUserReady(u, id) \/ onChooseLevel(u, id)

Spec == Init /\ [][Next]_vars

-----------------------------------------------------------------------------
(* The data members of RoomManager have their types. *)
TypeOK ==
    /\ DOMAIN rooms \subseteq RoomIds
    /\ \A id \in DOMAIN rooms : rooms[id] \in RoomObject /\ rooms[id].max \in MaxCounts
    /\ list \in Seq(RoomIds)
    /\ types \in [MaxCounts -> Seq(RoomIds)]
    /\ nextId \in RoomIds

(* Every room keeps its list, map, numbers, counters and owner consistent
   while requests for other rooms, and of the same accounts in other rooms,
   are served in between. *)
RoomsInv ==
    \A id \in DOMAIN rooms :
        /\ MapLeadsToOwnEntry(rooms[id])
        /\ NumbersMatchUsers(rooms[id])
        /\ ReadyCountMatches(rooms[id])
        /\ OneOwnerAtFront(rooms[id])
        /\ StartedFullAndReady(rooms[id])

(* The elements of s are elements of t, in the order they have there: of a t
   without repetition, s is SelectSeq(t, LAMBDA e : e \in ToSet(s)). *)
InOrderOf(s, t) ==
    \A i, j \in DOMAIN s : i < j =>
        \E k, l \in DOMAIN t : k < l /\ t[k] = s[i] /\ t[l] = s[j]

OfType(m) == {id \in DOMAIN rooms : rooms[id].max = m}

(* The three indexes of RoomManager agree: the list holds each room of the map
   exactly once, and so does the type index, under the room's own size and in
   the order of the list. *)
IndexInv ==
    /\ Len(list) = Cardinality(DOMAIN rooms)
    /\ ToSet(list) = DOMAIN rooms
    /\ \A m \in MaxCounts : ToSet(types[m]) = OfType(m) /\ InOrderOf(types[m], list)

(* The counter of the ids and the map agree: the next id is refused only when
   every id has been given to a room, so a create request fails only then. *)
FreshIds == Exists(nextId) => DOMAIN rooms = RoomIds

(***************************************************************************)
(* What a request of u does to a room, as its users see it: who is in it,  *)
(* and what each finds changed.                                            *)
(***************************************************************************)
OthersStay(u, old, new) == \A v \in Users \ {u} : Holds(new, v) <=> Holds(old, v)

(* The creator is alone in the room and owns it; a room of size 0 is empty. *)
HasCreated(u, new) ==
    IF new.max = 0 THEN new.users = << >>
    ELSE Len(new.users) = 1 /\ new.master = u /\ Holds(new, u)

HasEntered(u, old, new) ==
    /\ Len(new.users) = Len(old.users) + 1
    /\ Holds(new, u) /\ ~UserOf(new, u).ready
    /\ OthersStay(u, old, new)

HasLeft(u, old, new) ==
    /\ Len(new.users) = Len(old.users) - 1
    /\ Holds(old, u) /\ ~Holds(new, u)
    /\ OthersStay(u, old, new)

(* The owner is ready to start the game, another user is not. *)
IsReady(u, old, new) ==
    /\ Holds(old, u) /\ ~UserOf(old, u).ready
    /\ new.at = old.at /\ UserOf(new, u).ready
    /\ IsRunning(new) <=> UserOf(old, u).master

HasChosen(u, old, new) ==
    /\ Holds(old, u) /\ old.master = u
    /\ \E level \in ReqLevels \cap SetLevels : new = [old EXCEPT !.level = level]

HasHappened(kind, u, old, new) ==
    CASE kind = "enter" -> HasEntered(u, old, new)
      [] kind = "leave" -> HasLeft(u, old, new)
      [] kind = "ready" -> IsReady(u, old, new)
      [] kind = "level" -> HasChosen(u, old, new)

(* The other rooms are as they were. *)
OnlyRoomChanges(id) ==
    \A i \in DOMAIN rooms \ {id} : i \in DOMAIN rooms' /\ rooms'[i] = rooms[i]

(***************************************************************************)
(* What an answer says of the room it names is so.  SUCC: the request has  *)
(* taken place there, between the state before and the state after, and    *)
(* has touched no other room.  Any other code: no room has changed.  There *)
(* is one exception, which changes no room either: a level chosen for a    *)
(* room that does not exist is answered SUCC (see LevelOfAnExistingRoom).  *)
(* An answer does not name the level, so the room may have any that        *)
(* requests ask for; and the creator of a room of size 0, who is answered  *)
(* SUCC, is not in it (see NoCountMeansFour).                              *)
(***************************************************************************)
AnswersTellTheTruth ==
    [][IF sent'.code # "SUCC" \/ sent'.to = "garbled" THEN UNCHANGED rooms
       ELSE /\ OnlyRoomChanges(sent'.room)
            /\ sent'.room \in DOMAIN rooms'
            /\ IF sent'.kind = "create"
               THEN /\ sent'.room \notin DOMAIN rooms
                    /\ HasCreated(sent'.account, rooms'[sent'.room])
               ELSE /\ sent'.room \in DOMAIN rooms
                    /\ HasHappened(sent'.kind, sent'.account,
                                   rooms[sent'.room], rooms'[sent'.room])]_vars

(* A room is never replaced by another of the same id, not even after the
   counter of the ids has wrapped; the size it was created with stays, and
   once its game runs nothing of it changes. *)
RoomsAreNeverReplaced ==
    [][\A id \in DOMAIN rooms :
         /\ id \in DOMAIN rooms'
         /\ rooms'[id].max = rooms[id].max
         /\ IsRunning(rooms[id]) => rooms'[id] = rooms[id]]_vars

-----------------------------------------------------------------------------
(* What the comments of the protocol say and the code does not do. *)

(* "MaxUserCount: the most users of the room, 4 when it is not given." *)
NoCountMeansFour ==
    sent.kind = "create" /\ sent.code = "SUCC" => rooms[sent.room].max # 0

(* "RET_REQ_INVALID: the request is not legal": a level can be chosen with
   success only in a room that exists. *)
LevelOfAnExistingRoom ==
    sent.kind = "level" /\ sent.code = "SUCC" => sent.room \in DOMAIN rooms
=============================================================================

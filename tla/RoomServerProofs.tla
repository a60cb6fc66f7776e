-------------------------- MODULE RoomServerProofs --------------------------
(***************************************************************************)
(* The room server, for every set of accounts, every number of ids and      *)
(* every size and level that requests ask for.  Each handler either leaves  *)
(* the rooms alone, adds one, or puts one method's result in the place of   *)
(* a room that is not running; the three cases are the lemma NextCases, and *)
(* the theorems follow from it and from the lemmas about Room.              *)
(***************************************************************************)
EXTENDS RoomServer, RoomProofs

(* The inductive invariant: every room is a consistent one of a size that was
   asked for, under an id the counter can give. *)
IInv ==
    /\ rooms = [id \in DOMAIN rooms |-> rooms[id]]
    /\ DOMAIN rooms \subseteq RoomIds
    /\ \A id \in DOMAIN rooms : RoomInv(rooms[id]) /\ rooms[id].max \in MaxCounts
    /\ list \in Seq(RoomIds)
    /\ types \in [MaxCounts -> Seq(RoomIds)]
    /\ nextId \in RoomIds
    /\ DOMAIN rooms = RoomIds \/ DOMAIN rooms = 0..(nextId - 1)
    /\ IndexInv

(* A room that is added, and one that changes. *)
RoomAdded ==
    \E u \in Users, m \in MaxCounts : \E r :
        /\ ~Exists(nextId)
        /\ RoomInv(r) /\ r.max = m
        /\ HasCreated(u, r)
        /\ AddRoom(nextId, r)
        /\ GenerateRoomID
        /\ sent' = Answer("create", u, nextId, "SUCC", "account")

RoomChanged ==
    \E id \in DOMAIN rooms : \E r :
        /\ ~IsRunning(rooms[id])
        /\ RoomInv(r) /\ r.max = rooms[id].max
        /\ rooms' = [rooms EXCEPT ![id] = r]
        /\ UNCHANGED <<list, types, nextId>>

NoRoomChanged ==
    /\ UNCHANGED <<rooms, list, types>>
    /\ UNCHANGED nextId \/ (Exists(nextId) /\ GenerateRoomID)

(* A create request is refused, or adds a room its creator owns if it has a place. *)
LEMMA CreateCases ==
    ASSUME IInv, NEW u \in Users, NEW m \in MaxCounts, CreateRoom(u, m)
    PROVE  \/ Exists(nextId) /\ NoRoomChanged
           \/ ~Exists(nextId) /\ RoomAdded
<1>  DEFINE new == NewRoom(m)
            r == IF UserEnterRet(new, "none") = 0 THEN UserEnter(new, u) ELSE new
<1>1. CASE Exists(nextId)
  BY <1>1 DEF CreateRoom, CreateRefused, NoRoomChanged
<1>2. CASE ~Exists(nextId)
  <2>1. m \in Nat
    BY RoomServerAssumption
  <2>2. RoomInv(new) /\ new \in RoomObject /\ new.max = m
    BY <2>1, NewRoomInv DEF RoomInv, NewRoom
  <2>3. RoomInv(r) /\ r.max = m
    BY <2>2, UserEnterInv, MaxIsFixed
  <2>4. HasCreated(u, r)
    <3>1. CASE m = 0
      <4>1. UserEnterRet(new, "none") # 0
        BY <3>1 DEF UserEnterRet, NewRoom
      <4>2. r = new /\ new.users = << >>
        BY <4>1 DEF NewRoom
      <4> QED
        BY <2>3, <3>1, <4>2 DEF HasCreated
    <3>2. CASE m # 0
      <4>1. UserEnterRet(new, "none") = 0
        BY <2>1, <3>2 DEF UserEnterRet, IsRunning, NewRoom, RoomStatePreparation, RoomStateReady
      <4>2. r = UserEnter(new, u)
        BY <4>1
      <4>3. UserEnter(new, u).master = u /\ UserEnter(new, u).at[u] = 1
        BY EmptySeq DEF UserEnter, NewRoom
      <4>4. Len(UserEnter(new, u).users) = 1
        BY EmptySeq DEF UserEnter, NewRoom
      <4> QED
        BY <2>3, <3>2, <4>2, <4>3, <4>4 DEF HasCreated, Holds
    <3> QED
      BY <3>1, <3>2
  <2>5. AddRoom(nextId, r) /\ GenerateRoomID
        /\ sent' = Answer("create", u, nextId, "SUCC", "account")
    BY <1>2 DEF CreateRoom, CreateRefused
  <2> HIDE DEF r
  <2> QED
    BY <1>2, <2>3, <2>4, <2>5 DEF RoomAdded
<1> QED
  BY <1>1, <1>2

(* Every request is one of the three cases. *)
LEMMA NextCases ==
    ASSUME IInv, Next
    PROVE  NoRoomChanged \/ RoomAdded \/ RoomChanged
<1>1. PICK u \in Users :
        \/ \E m \in MaxCounts : CreateRoom(u, m)
        \/ \E id \in RoomIds : onEnterRoom(u, id) \/ onLeaveRoom(u, id)
                               \/ onUserReady(u, id) \/ onChooseLevel(u, id)
  BY DEF Next
<1>2. ASSUME NEW kind, NEW id, NEW code, Refuse(kind, u, id, code)
      PROVE  NoRoomChanged
  BY <1>2 DEF Refuse, roomVars, NoRoomChanged
<1>3. ASSUME NEW kind, NEW id \in DOMAIN rooms, NEW r, ~IsRunning(rooms[id]), RoomInv(r),
             r.max = rooms[id].max, Succeed(kind, u, id, r)
      PROVE  RoomChanged
  BY <1>3 DEF Succeed, RoomChanged
<1>4. ASSUME NEW id \in DOMAIN rooms
      PROVE  RoomInv(rooms[id]) /\ rooms[id] \in RoomObject
  BY DEF IInv, RoomInv
<1>5. ASSUME NEW m \in MaxCounts, CreateRoom(u, m)
      PROVE  NoRoomChanged \/ RoomAdded
  BY <1>5, CreateCases
<1>6. ASSUME NEW id, onEnterRoom(u, id)
      PROVE  NoRoomChanged \/ RoomChanged
  <2>1. ASSUME EnterRoom(u, id)
        PROVE  RoomChanged
    BY <1>3, <1>4, <2>1, UserEnterInv, MaxIsFixed, RunningRoomRefuses DEF EnterRoom, Exists
  <2> QED
    BY <1>2, <1>6, <2>1 DEF onEnterRoom, EnterUnknown, EnterRefused
<1>7. ASSUME NEW id, onLeaveRoom(u, id)
      PROVE  NoRoomChanged \/ RoomChanged
  <2>1. ASSUME LeaveRoom(u, id)
        PROVE  RoomChanged
    BY <1>3, <1>4, <2>1, UserLeaveInv, MaxIsFixed, RunningRoomRefuses DEF LeaveRoom, Exists
  <2> QED
    BY <1>2, <1>7, <2>1 DEF onLeaveRoom, LeaveUnknown, LeaveRefused
<1>8. ASSUME NEW id, onUserReady(u, id)
      PROVE  NoRoomChanged \/ RoomChanged
  <2>1. ASSUME UserIsReady(u, id)
        PROVE  RoomChanged
    <3>1. id \in DOMAIN rooms /\ UserReadyRet(rooms[id], u) = 0
          /\ Succeed("ready", u, id, UserReady(rooms[id], u))
      BY <2>1 DEF UserIsReady, Exists
    <3>2. Holds(rooms[id], u) /\ ~UserOf(rooms[id], u).ready
      BY <3>1 DEF UserReadyRet
    <3>3. RoomInv(UserReady(rooms[id], u))
          /\ UserReady(rooms[id], u).max = rooms[id].max
      BY <1>4, <3>1, <3>2, UserReadyInv
    <3>4. ~IsRunning(rooms[id])
      BY <1>4, <3>1, RunningRoomRefuses
    <3> QED
      BY <1>3, <3>1, <3>3, <3>4
  <2>2. ASSUME GameStart(u, id)
        PROVE  RoomChanged
    <3>1. id \in DOMAIN rooms /\ UserReadyRet(rooms[id], u) = 1
          /\ Succeed("ready", u, id, SetStatus(UserReady(rooms[id], u), RoomStateRunning))
      BY <2>2 DEF GameStart, Exists
    <3> QED
      BY <1>3, <1>4, <3>1, StartGameInv, MaxIsFixed, RunningRoomRefuses
  <2> QED
    BY <1>2, <1>8, <2>1, <2>2 DEF onUserReady, ReadyUnknown, ReadyRefused
<1>9. ASSUME NEW id, onChooseLevel(u, id)
      PROVE  NoRoomChanged \/ RoomChanged
  <2>1. ASSUME NEW level, ChooseLevel(u, id, level)
        PROVE  RoomChanged
    <3>1. id \in DOMAIN rooms /\ UserChoseLevelRet(rooms[id], u, level) = 0
          /\ Succeed("level", u, id, UserChoseLevel(rooms[id], level))
      BY <2>1 DEF ChooseLevel, Exists
    <3>2. level \in SetLevels
      BY <3>1 DEF UserChoseLevelRet
    <3> QED
      BY <1>3, <1>4, <3>1, <3>2, UserChoseLevelInv, MaxIsFixed, RunningRoomRefuses
  <2>2. ASSUME LevelUnknown(u, id)
        PROVE  NoRoomChanged
    BY <2>2 DEF LevelUnknown, roomVars, NoRoomChanged
  <2> QED
    BY <1>2, <1>9, <2>1, <2>2 DEF onChooseLevel, LevelRefused
<1> QED
  BY <1>1, <1>5, <1>6, <1>7, <1>8, <1>9

(* A server without rooms satisfies the invariant. *)
LEMMA InitIInv == Init => IInv
<1>  SUFFICES ASSUME Init PROVE IInv
  OBVIOUS
<1>1. rooms = << >> /\ DOMAIN rooms = {} /\ nextId = 0 /\ list = << >>
  BY DEF Init
<1>2. types \in [MaxCounts -> Seq(RoomIds)] /\ list \in Seq(RoomIds)
  BY EmptySeq DEF Init
<1>3. rooms = [id \in DOMAIN rooms |-> rooms[id]]
  BY <1>1
<1>4. nextId \in RoomIds /\ 0..(nextId - 1) = {}
  BY <1>1, RoomServerAssumption DEF RoomIds
<1>5. IndexInv
  <2>1. Len(list) = 0 /\ DOMAIN list = {} /\ Cardinality(DOMAIN rooms) = 0
    BY <1>1, FS_EmptySet
  <2>2. ASSUME NEW m \in MaxCounts
        PROVE  DOMAIN types[m] = {}
    BY DEF Init
  <2> QED
    BY <1>1, <2>1, <2>2 DEF IndexInv, ToSet, OfType, InOrderOf
<1> QED
  BY <1>1, <1>2, <1>3, <1>4, <1>5 DEF IInv

(* The id a create request takes and the ones given before, modulo IdCount. *)
LEMMA NextIdFacts ==
    ASSUME nextId \in RoomIds, GenerateRoomID
    PROVE  /\ nextId' \in RoomIds
           /\ 0..(nextId - 1) \cup {nextId} = RoomIds
              \/ 0..(nextId - 1) \cup {nextId} = 0..(nextId' - 1)
<1>1. IdCount \in Nat /\ IdCount > 0 /\ nextId \in 0..(IdCount - 1)
  BY RoomServerAssumption DEF RoomIds
<1>2. CASE nextId = IdCount - 1
  <2>1. nextId' = 0
    BY <1>1, <1>2 DEF GenerateRoomID
  <2> QED
    BY <1>1, <1>2, <2>1 DEF RoomIds
<1>3. CASE nextId # IdCount - 1
  <2>1. nextId' = nextId + 1
    BY <1>1, <1>3 DEF GenerateRoomID
  <2> QED
    BY <1>1, <1>3, <2>1 DEF RoomIds
<1> QED
  BY <1>2, <1>3

(* An element at the end of a sequence joins its set and comes after the others. *)
LEMMA AppendedFacts ==
    ASSUME NEW S, NEW s \in Seq(S), NEW e \in S
    PROVE  /\ Len(Append(s, e)) = Len(s) + 1
           /\ DOMAIN Append(s, e) = DOMAIN s \cup {Len(s) + 1}
           /\ Append(s, e)[Len(s) + 1] = e
           /\ \A i \in DOMAIN s : i < Len(s) + 1 /\ Append(s, e)[i] = s[i]
           /\ ToSet(Append(s, e)) = ToSet(s) \cup {e}
<1>1. /\ Append(s, e) \in Seq(S)
      /\ Len(Append(s, e)) = Len(s) + 1
      /\ \A i \in 1..Len(s) : Append(s, e)[i] = s[i]
      /\ Append(s, e)[Len(s) + 1] = e
  BY AppendProperties
<1>2. /\ Len(s) \in Nat
      /\ DOMAIN s = 1..Len(s)
      /\ DOMAIN Append(s, e) = 1..(Len(s) + 1)
  BY <1>1
<1>3. DOMAIN Append(s, e) = DOMAIN s \cup {Len(s) + 1}
  BY <1>2
<1>4. ToSet(Append(s, e)) = ToSet(s) \cup {e}
  BY <1>1, <1>2, <1>3 DEF ToSet
<1> QED
  BY <1>1, <1>2, <1>3, <1>4

(* A room that is added joins every index at its end. *)
LEMMA AddedIsIndexed ==
    ASSUME IInv, NEW m \in MaxCounts, NEW r, r.max = m, ~Exists(nextId), AddRoom(nextId, r)
    PROVE  IndexInv'
<1>1. /\ DOMAIN rooms' = DOMAIN rooms \cup {nextId}
      /\ nextId \notin DOMAIN rooms
      /\ \A id \in DOMAIN rooms : rooms'[id] = rooms[id]
      /\ rooms'[nextId].max = m
  BY DEF AddRoom, Exists
<1>2. /\ list' = Append(list, nextId)
      /\ types' = [types EXCEPT ![m] = Append(types[m], nextId)]
  BY DEF AddRoom, TypeIndexWith
<1>3. /\ list \in Seq(RoomIds) /\ types \in [MaxCounts -> Seq(RoomIds)]
      /\ nextId \in RoomIds
      /\ Len(list) = Cardinality(DOMAIN rooms) /\ ToSet(list) = DOMAIN rooms
      /\ \A t \in MaxCounts : ToSet(types[t]) = OfType(t) /\ InOrderOf(types[t], list)
  BY DEF IInv, IndexInv
<1>4. /\ Len(list') = Len(list) + 1
      /\ DOMAIN list' = DOMAIN list \cup {Len(list) + 1}
      /\ list'[Len(list) + 1] = nextId
      /\ \A i \in DOMAIN list : i < Len(list) + 1 /\ list'[i] = list[i]
      /\ ToSet(list') = ToSet(list) \cup {nextId}
  BY <1>2, <1>3, AppendedFacts
<1>5. Len(list') = Cardinality(DOMAIN rooms')
  <2>1. IsFiniteSet(RoomIds)
    <3>1. 0 \in Int /\ IdCount - 1 \in Int
      BY RoomServerAssumption
    <3> QED
      BY <3>1, FS_Interval DEF RoomIds
  <2>2. IsFiniteSet(DOMAIN rooms)
    BY <2>1, FS_Subset DEF IInv
  <2>3. Cardinality(DOMAIN rooms \cup {nextId}) = Cardinality(DOMAIN rooms) + 1
    BY <1>1, <2>2, FS_AddElement
  <2> QED
    BY <1>1, <1>3, <1>4, <2>3
<1>6. ASSUME NEW t \in MaxCounts
      PROVE  ToSet(types'[t]) = OfType(t)' /\ InOrderOf(types'[t], list')
  <2>1. ToSet(types[t]) = OfType(t) /\ OfType(t) \subseteq DOMAIN rooms
        /\ types[t] \in Seq(RoomIds)
    BY <1>3 DEF OfType
  <2>2. OfType(t)' = IF t = m THEN OfType(t) \cup {nextId} ELSE OfType(t)
    BY <1>1 DEF OfType
  <2>3. \A i, j \in DOMAIN types[t] : i < j =>
          \E k, l \in DOMAIN list' : k < l /\ list'[k] = types[t][i] /\ list'[l] = types[t][j]
    BY <1>3, <1>4 DEF InOrderOf
  <2>4. CASE t # m
    <3>1. types'[t] = types[t]
      BY <1>2, <1>3, <2>4
    <3> QED
      BY <2>1, <2>2, <2>3, <2>4, <3>1 DEF InOrderOf
  <2>5. CASE t = m
    <3>  DEFINE s == types[t]
                q == types'[t]
    <3>1. q = Append(s, nextId)
      BY <1>2, <1>3, <2>5
    <3>2. /\ Len(s) \in Nat /\ DOMAIN s = 1..Len(s)
          /\ DOMAIN q = DOMAIN s \cup {Len(s) + 1}
          /\ q[Len(s) + 1] = nextId
          /\ \A i \in DOMAIN s : q[i] = s[i]
          /\ ToSet(q) = ToSet(s) \cup {nextId}
      BY <1>3, <2>1, <3>1, AppendedFacts
    <3>3. \A i \in DOMAIN s : \E k \in DOMAIN list : list[k] = s[i]
      BY <1>3, <2>1 DEF ToSet
    <3>  HIDE DEF s, q
    <3>4. ASSUME NEW i \in DOMAIN q, NEW j \in DOMAIN q, i < j
          PROVE  \E k, l \in DOMAIN list' : k < l /\ list'[k] = q[i] /\ list'[l] = q[j]
      <4>1. i \in DOMAIN s
        BY <3>2, <3>4
      <4>2. CASE j \in DOMAIN s
        BY <2>3, <3>2, <3>4, <4>1, <4>2 DEF s
      <4>3. CASE j = Len(s) + 1
        BY <1>4, <3>2, <3>3, <4>1, <4>3
      <4> QED
        BY <3>2, <4>2, <4>3
    <3>5. InOrderOf(q, list')
      BY <3>4 DEF InOrderOf
    <3> QED
      BY <2>1, <2>2, <2>5, <3>2, <3>5 DEF s, q
  <2> QED
    BY <2>4, <2>5
<1> QED
  BY <1>1, <1>3, <1>4, <1>5, <1>6 DEF IndexInv, InOrderOf

(* Each of the three cases preserves it. *)
LEMMA NextIInv == IInv /\ [Next]_vars => IInv'
<1>  SUFFICES ASSUME IInv, [Next]_vars
              PROVE  IInv'
  OBVIOUS
<1>1. CASE UNCHANGED vars
  BY <1>1 DEF IInv, vars, IndexInv, OfType, InOrderOf
<1>2. ASSUME NoRoomChanged
      PROVE  IInv'
  <2>0. IndexInv'
    BY <1>2 DEF NoRoomChanged, IInv, IndexInv, OfType, InOrderOf
  <2>1. CASE UNCHANGED nextId
    BY <1>2, <2>0, <2>1 DEF NoRoomChanged, IInv
  <2>2. CASE Exists(nextId) /\ GenerateRoomID
    <3>1. DOMAIN rooms = RoomIds
      BY <2>2 DEF IInv, Exists, RoomIds
    <3>2. nextId' \in RoomIds
      BY <2>2, NextIdFacts DEF IInv
    <3> QED
      BY <1>2, <2>0, <3>1, <3>2 DEF NoRoomChanged, IInv
  <2> QED
    BY <1>2, <2>1, <2>2 DEF NoRoomChanged
<1>3. ASSUME RoomAdded
      PROVE  IInv'
  <2>1. PICK m, r :
          /\ m \in MaxCounts
          /\ ~Exists(nextId) /\ RoomInv(r) /\ r.max = m
          /\ AddRoom(nextId, r) /\ GenerateRoomID
    BY <1>3 DEF RoomAdded
  <2>2. /\ DOMAIN rooms' = DOMAIN rooms \cup {nextId}
        /\ rooms' = [id \in DOMAIN rooms' |-> rooms'[id]]
        /\ \A id \in DOMAIN rooms' : rooms'[id] = IF id = nextId THEN r ELSE rooms[id]
    BY <2>1 DEF AddRoom
  <2>3. nextId \in RoomIds /\ nextId' \in RoomIds
    BY <2>1, NextIdFacts DEF IInv
  <2>4. DOMAIN rooms = 0..(nextId - 1)
    BY <2>1, <2>3 DEF IInv, Exists
  <2>5. DOMAIN rooms' = RoomIds \/ DOMAIN rooms' = 0..(nextId' - 1)
    BY <2>1, <2>2, <2>3, <2>4, NextIdFacts
  <2>6. list' \in Seq(RoomIds)
    BY <2>1, <2>3 DEF AddRoom, IInv
  <2>7. types' \in [MaxCounts -> Seq(RoomIds)]
    <3>0. m \in MaxCounts
      BY <2>1
    <3>1. Append(types[m], nextId) \in Seq(RoomIds)
      BY <2>3, <3>0 DEF IInv
    <3>2. types' = [types EXCEPT ![m] = Append(types[m], nextId)]
      BY <2>1 DEF AddRoom, TypeIndexWith
    <3> QED
      BY <3>0, <3>1, <3>2 DEF IInv
  <2>8. \A id \in DOMAIN rooms' : RoomInv(rooms'[id]) /\ rooms'[id].max \in MaxCounts
    BY <2>1, <2>2 DEF IInv
  <2>9. DOMAIN rooms' \subseteq RoomIds
    BY <2>2, <2>3 DEF IInv
  <2>10. IndexInv'
    BY <2>1, AddedIsIndexed
  <2> QED
    BY <2>2, <2>3, <2>5, <2>6, <2>7, <2>8, <2>9, <2>10 DEF IInv
<1>4. ASSUME RoomChanged
      PROVE  IInv'
  <2>1. PICK id, r :
          /\ id \in DOMAIN rooms
          /\ RoomInv(r) /\ r.max = rooms[id].max
          /\ rooms' = [rooms EXCEPT ![id] = r]
          /\ UNCHANGED <<list, types, nextId>>
    BY <1>4 DEF RoomChanged
  <2>2. /\ DOMAIN rooms' = DOMAIN rooms
        /\ rooms' = [i \in DOMAIN rooms' |-> rooms'[i]]
        /\ \A i \in DOMAIN rooms : rooms'[i] = IF i = id THEN r ELSE rooms[i]
    BY <2>1
  <2>3. \A i \in DOMAIN rooms' : RoomInv(rooms'[i]) /\ rooms'[i].max \in MaxCounts
    BY <2>1, <2>2 DEF IInv
  <2>4. IndexInv'
    <3>1. \A m : OfType(m)' = OfType(m)
      BY <2>1, <2>2 DEF OfType
    <3> QED
      BY <2>1, <2>2, <3>1 DEF IInv, IndexInv, InOrderOf
  <2> QED
    BY <2>1, <2>2, <2>3, <2>4 DEF IInv
<1> QED
  BY <1>1, <1>2, <1>3, <1>4, NextCases

(* The inductive invariant holds of every behaviour of the room server. *)
THEOREM InductiveInvariant == Spec => []IInv
  BY InitIInv, NextIInv, PTL DEF Spec

(* TypeOK: the data members of RoomManager keep their types. *)
THEOREM TypeCorrect == Spec => []TypeOK
<1>1. IInv => TypeOK
  BY DEF IInv, RoomInv, TypeOK
<1> QED
  BY <1>1, InductiveInvariant, PTL

(* RoomsInv: however the requests for different rooms and the same accounts
   interleave, every room stays consistent. *)
THEOREM RoomsCorrect == Spec => []RoomsInv
<1>1. IInv => RoomsInv
  BY DEF IInv, RoomInv, RoomsInv
<1> QED
  BY <1>1, InductiveInvariant, PTL

(* IndexInv: the list and the two maps of RoomManager hold the same rooms, each
   once, a room under the size it was created with, in the order of the list. *)
THEOREM IndexesCorrect == Spec => []IndexInv
<1>1. IInv => IndexInv
  BY DEF IInv
<1> QED
  BY <1>1, InductiveInvariant, PTL

(* FreshIds: a create request is refused only when every id names a room. *)
THEOREM FreshIdsCorrect == Spec => []FreshIds
<1>1. IInv => FreshIds
  BY DEF IInv, FreshIds, Exists, RoomIds
<1> QED
  BY <1>1, InductiveInvariant, PTL

(* RoomsAreNeverReplaced: no request puts another room under an id, changes
   the size of a room, or touches one whose game runs. *)
THEOREM RoomsStay == Spec => RoomsAreNeverReplaced
<1>1. IInv /\ [Next]_vars =>
        [\A id \in DOMAIN rooms :
           /\ id \in DOMAIN rooms'
           /\ rooms'[id].max = rooms[id].max
           /\ IsRunning(rooms[id]) => rooms'[id] = rooms[id]]_vars
  <2>  SUFFICES ASSUME IInv, Next, NEW i \in DOMAIN rooms
                PROVE  /\ i \in DOMAIN rooms'
                       /\ rooms'[i].max = rooms[i].max
                       /\ IsRunning(rooms[i]) => rooms'[i] = rooms[i]
    OBVIOUS
  <2>1. CASE NoRoomChanged
    BY <2>1 DEF NoRoomChanged
  <2>2. CASE RoomAdded
    BY <2>2 DEF RoomAdded, AddRoom, Exists
  <2>3. CASE RoomChanged
    BY <2>3 DEF RoomChanged
  <2> QED
    BY <2>1, <2>2, <2>3, NextCases
<1> QED
  BY <1>1, InductiveInvariant, PTL DEF Spec, RoomsAreNeverReplaced

(* What each method that succeeds does for the account that asked. *)
LEMMA EffectFacts ==
    ASSUME NEW r, RoomInv(r), NEW u \in Users
    PROVE  /\ UserEnterRet(r, "none") = 0 => HasHappened("enter", u, r, UserEnter(r, u))
           /\ UserLeaveRet(r, u) = 0 => HasHappened("leave", u, r, UserLeave(r, u))
           /\ UserReadyRet(r, u) = 0 => HasHappened("ready", u, r, UserReady(r, u))
           /\ UserReadyRet(r, u) = 1 =>
                HasHappened("ready", u, r, SetStatus(UserReady(r, u), RoomStateRunning))
           /\ \A level \in ReqLevels : UserChoseLevelRet(r, u, level) = 0 =>
                HasHappened("level", u, r, UserChoseLevel(r, level))
<1>0. RoomFields(r) /\ MapLeadsToOwnEntry(r) /\ r \in RoomObject /\ NumbersMatchUsers(r)
  BY RoomFacts DEF RoomInv
<1>1. r = [max |-> r.max, users |-> r.users, at |-> r.at,
           size |-> r.size, readies |-> r.readies, state |-> r.state,
           master |-> r.master, level |-> r.level, numUse |-> r.numUse]
  BY <1>0 DEF RoomObject
<1>2. ASSUME UserEnterRet(r, "none") = 0
      PROVE  HasHappened("enter", u, r, UserEnter(r, u))
  <2>  DEFINE n == UserEnter(r, u)
              entry == [uid |-> u, player |-> FreePlayer(r),
                        master |-> r.size = 0, ready |-> FALSE]
  <2>1. n.users = Append(r.users, entry) /\ n.at = [r.at EXCEPT ![u] = Len(r.users) + 1]
    BY <1>1 DEF UserEnter
  <2>2. n.at[u] = Len(r.users) + 1 /\ n.at[u] # 0
    BY <1>0, <2>1 DEF RoomFields
  <2>3. r.users \in Seq(UserObject) /\ ~entry.ready
    BY <1>0 DEF RoomFields
  <2>4. \A v \in Users \ {u} : n.at[v] = r.at[v]
    BY <1>0, <2>1 DEF RoomFields
  <2>5. entry \in UserObject
    <3>1. FreePlayer(r) \in Int
      <4>1. r.size < r.max
        BY <1>0, <1>2 DEF UserEnterRet, RoomFields
      <4>2. FreePlayer(r) \in 1..r.max
        BY <4>1, FreePlayerFacts
      <4> QED
        BY <1>0, <4>2 DEF RoomFields
    <3>2. (r.size = 0) \in BOOLEAN
      OBVIOUS
    <3> QED
      BY <3>1, <3>2, Zenon DEF UserObject
  <2> HIDE DEF n, entry
  <2>6. /\ Append(r.users, entry)[Len(r.users) + 1] = entry
        /\ Len(Append(r.users, entry)) = Len(r.users) + 1
    BY <2>3, <2>5, AppendProperties
  <2>7. ~n.users[n.at[u]].ready /\ Len(n.users) = Len(r.users) + 1
    BY <2>1, <2>2, <2>3, <2>6
  <2>8. HasEntered(u, r, n)
    BY <2>2, <2>4, <2>7 DEF HasEntered, Holds, UserOf, OthersStay
  <2> QED
    BY <2>8 DEF n, HasHappened
<1>3. ASSUME UserLeaveRet(r, u) = 0
      PROVE  HasHappened("leave", u, r, UserLeave(r, u))
  <2>  DEFINE n == UserLeave(r, u)
  <2>1. n.at = AtWithout(r, u, r.at[u]) /\ n.size = r.size - 1
    BY <1>1 DEF UserLeave
  <2>2. Holds(r, u) /\ r.at[u] \in Nat /\ r.at[u] > 0
    BY <1>0, <1>3 DEF UserLeaveRet, Holds, RoomFields
  <2>3. n.at[u] = 0
    BY <2>1 DEF AtWithout
  <2>4. ASSUME NEW v \in Users \ {u}
        PROVE  n.at[v] # 0 <=> r.at[v] # 0
    <3>1. n.at[v] = IF r.at[v] > r.at[u] THEN r.at[v] - 1 ELSE r.at[v]
      BY <2>1 DEF AtWithout
    <3>2. r.at[v] \in Nat
      BY <1>0 DEF RoomFields
    <3> QED
      BY <2>2, <3>1, <3>2
  <2>5. NumbersMatchUsers(n)
    BY <1>3, UserLeaveInv DEF RoomInv
  <2> HIDE DEF n
  <2>6. Len(n.users) = Len(r.users) - 1
    BY <1>0, <2>1, <2>5 DEF NumbersMatchUsers
  <2>7. HasLeft(u, r, n)
    BY <2>2, <2>3, <2>4, <2>6 DEF HasLeft, Holds, OthersStay
  <2> QED
    BY <2>7 DEF n, HasHappened
<1>4. ASSUME UserReadyRet(r, u) \in {0, 1}
      PROVE  /\ UserReadyRet(r, u) = 0 => HasHappened("ready", u, r, UserReady(r, u))
             /\ UserReadyRet(r, u) = 1 =>
                  HasHappened("ready", u, r, SetStatus(UserReady(r, u), RoomStateRunning))
  <2>  DEFINE q == UserReady(r, u)
              n == SetStatus(q, RoomStateRunning)
  <2>1. Holds(r, u) /\ ~UserOf(r, u).ready
    BY <1>4 DEF UserReadyRet
  <2>2. r.at[u] \in 1..Len(r.users)
    BY <1>0, <2>1 DEF MapLeadsToOwnEntry, Positions
  <2>3. q.at = r.at /\ q.users = [r.users EXCEPT ![r.at[u]].ready = TRUE]
        /\ n.at = r.at /\ n.users = q.users
        /\ q.state = r.state /\ n.state = RoomStateRunning
    BY <1>1 DEF UserReady, SetStatus
  <2>4. r.users[r.at[u]] \in UserObject
    BY <1>0, <2>2 DEF RoomFields
  <2>5. q.users[r.at[u]] = [r.users[r.at[u]] EXCEPT !.ready = TRUE]
    BY <1>0, <2>2, <2>3 DEF RoomFields
  <2>6. q.users[r.at[u]].ready
    BY <2>4, <2>5 DEF UserObject
  <2>7. ~IsRunning(q) /\ IsRunning(n)
    <3>1. ~IsRunning(r)
      BY <1>4, RunningRoomRefuses
    <3> QED
      BY <2>3, <3>1 DEF IsRunning, RoomStateRunning, RoomStateReady
  <2>8. /\ UserReadyRet(r, u) = 0 => ~UserOf(r, u).master
        /\ UserReadyRet(r, u) = 1 => UserOf(r, u).master
    BY <1>4 DEF UserReadyRet
  <2> HIDE DEF q, n
  <2>9. UserOf(q, u).ready /\ UserOf(n, u).ready
    BY <2>3, <2>6, Zenon DEF UserOf
  <2>10. CASE UserReadyRet(r, u) = 0
    <3>1. ~UserOf(r, u).master
      BY <2>8, <2>10
    <3>2. IsReady(u, r, q)
      BY <2>1, <2>3, <2>7, <2>9, <3>1, Zenon DEF IsReady
    <3> QED
      BY <2>10, <3>2 DEF q, HasHappened
  <2>11. CASE UserReadyRet(r, u) = 1
    <3>1. UserOf(r, u).master
      BY <2>8, <2>11
    <3>2. IsReady(u, r, n)
      BY <2>1, <2>3, <2>7, <2>9, <3>1, Zenon DEF IsReady
    <3> QED
      BY <2>11, <3>2 DEF q, n, HasHappened
  <2> QED
    BY <1>4, <2>10, <2>11
<1>5. ASSUME NEW level \in ReqLevels, UserChoseLevelRet(r, u, level) = 0
      PROVE  HasHappened("level", u, r, UserChoseLevel(r, level))
  <2>1. level \in SetLevels /\ Holds(r, u) /\ r.master = u
    BY <1>5 DEF UserChoseLevelRet
  <2>2. HasChosen(u, r, UserChoseLevel(r, level))
    BY <2>1 DEF UserChoseLevel, HasChosen
  <2> QED
    BY <2>2 DEF HasHappened
<1> QED
  BY <1>2, <1>3, <1>4, <1>5

(* The answer just sent is true. *)
Truthful ==
    IF sent'.code # "SUCC" \/ sent'.to = "garbled" THEN UNCHANGED rooms
    ELSE /\ OnlyRoomChanges(sent'.room)
         /\ sent'.room \in DOMAIN rooms'
         /\ IF sent'.kind = "create"
            THEN /\ sent'.room \notin DOMAIN rooms
                 /\ HasCreated(sent'.account, rooms'[sent'.room])
            ELSE /\ sent'.room \in DOMAIN rooms
                 /\ HasHappened(sent'.kind, sent'.account,
                                rooms[sent'.room], rooms'[sent'.room])

(* The answer of every step is true of the room it names. *)
LEMMA NextTruthful ==
    ASSUME IInv, Next
    PROVE  Truthful
<1>1. PICK u \in Users :
        \/ \E m \in MaxCounts : CreateRoom(u, m)
        \/ \E id \in RoomIds : onEnterRoom(u, id) \/ onLeaveRoom(u, id)
                               \/ onUserReady(u, id) \/ onChooseLevel(u, id)
  BY DEF Next
<1>2. ASSUME NEW kind, NEW id, NEW code, code # "SUCC", Refuse(kind, u, id, code)
      PROVE  Truthful
  BY <1>2 DEF Refuse, roomVars, Answer, Truthful
<1>3. ASSUME NEW kind, kind # "create", NEW id \in DOMAIN rooms, NEW r,
             HasHappened(kind, u, rooms[id], r), Succeed(kind, u, id, r)
      PROVE  Truthful
  <2>1. sent' = Answer(kind, u, id, "SUCC", "asker") /\ rooms' = [rooms EXCEPT ![id] = r]
    BY <1>3 DEF Succeed
  <2>2. id \in DOMAIN rooms' /\ rooms'[id] = r
    BY <2>1
  <2>3. OnlyRoomChanges(id)
    BY <2>1 DEF OnlyRoomChanges
  <2>4. /\ sent'.kind = kind /\ sent'.account = u /\ sent'.room = id
        /\ sent'.code = "SUCC" /\ sent'.to = "asker"
    BY <2>1 DEF Answer
  <2> QED
    BY <1>3, <2>2, <2>3, <2>4, Zenon DEF Truthful
<1>4. ASSUME NEW id \in DOMAIN rooms
      PROVE  RoomInv(rooms[id])
  BY DEF IInv
<1>5. ASSUME NEW m \in MaxCounts, CreateRoom(u, m)
      PROVE  Truthful
  <2>1. CASE Exists(nextId)
    BY <1>5, <2>1 DEF CreateRoom, CreateRefused, Answer, Truthful
  <2>2. CASE ~Exists(nextId)
    <3>1. PICK v, r :
            /\ HasCreated(v, r)
            /\ AddRoom(nextId, r)
            /\ sent' = Answer("create", v, nextId, "SUCC", "account")
      BY <1>5, <2>2, CreateCases, Zenon DEF RoomAdded
    <3>2. nextId \in DOMAIN rooms' /\ rooms'[nextId] = r /\ nextId \notin DOMAIN rooms
      BY <2>2, <3>1 DEF AddRoom, Exists
    <3>3. OnlyRoomChanges(nextId)
      BY <3>1 DEF AddRoom, OnlyRoomChanges
    <3>4. /\ sent'.kind = "create" /\ sent'.account = v /\ sent'.room = nextId
          /\ sent'.code = "SUCC" /\ sent'.to = "account"
      BY <3>1 DEF Answer
    <3> QED
      BY <3>1, <3>2, <3>3, <3>4, Zenon DEF Truthful
  <2> QED
    BY <2>1, <2>2
<1>6. ASSUME NEW id, onEnterRoom(u, id)
      PROVE  Truthful
  <2>1. CASE EnterRoom(u, id)
    BY <1>3, <1>4, <2>1, EffectFacts DEF EnterRoom, Exists
  <2>2. \A ret : EnterCode(ret) = "SUCC" => ret \notin {1, 2, 3, 4}
    BY DEF EnterCode
  <2>3. UserEnterRet(rooms[id], "none") \in {0, 1, 4}
    BY DEF UserEnterRet
  <2> QED
    BY <1>2, <1>6, <2>1, <2>2, <2>3 DEF onEnterRoom, EnterUnknown, EnterRefused
<1>7. ASSUME NEW id, onLeaveRoom(u, id)
      PROVE  Truthful
  <2>1. CASE LeaveRoom(u, id)
    BY <1>3, <1>4, <2>1, EffectFacts DEF LeaveRoom, Exists
  <2> QED
    BY <1>2, <1>7, <2>1 DEF onLeaveRoom, LeaveUnknown, LeaveRefused
<1>8. ASSUME NEW id, onUserReady(u, id)
      PROVE  Truthful
  <2>1. CASE UserIsReady(u, id)
    BY <1>3, <1>4, <2>1, EffectFacts DEF UserIsReady, Exists
  <2>2. CASE GameStart(u, id)
    BY <1>3, <1>4, <2>2, EffectFacts DEF GameStart, Exists
  <2>3. CASE ReadyUnknown(u, id)
    BY <1>2, <2>3 DEF ReadyUnknown
  <2>4. CASE ReadyRefused(u, id)
    <3>1. UserReadyRet(rooms[id], u) \in {2, 3, 4, 6}
      BY <2>4 DEF ReadyRefused, UserReadyRet
    <3>2. ReadyCode(UserReadyRet(rooms[id], u)) # "SUCC"
      BY <3>1 DEF ReadyCode
    <3> QED
      BY <1>2, <2>4, <3>2 DEF ReadyRefused
  <2> QED
    BY <1>8, <2>1, <2>2, <2>3, <2>4 DEF onUserReady
<1>9. ASSUME NEW id, onChooseLevel(u, id)
      PROVE  Truthful
  <2>1. ASSUME NEW level \in ReqLevels, ChooseLevel(u, id, level)
        PROVE  Truthful
    BY <1>3, <1>4, <2>1, EffectFacts DEF ChooseLevel, Exists
  <2>2. ASSUME NEW level, LevelRefused(u, id, level)
        PROVE  Truthful
    <3>1. UserChoseLevelRet(rooms[id], u, level) \in {1, 2, 3, 4}
      BY <2>2 DEF LevelRefused, UserChoseLevelRet
    <3>2. LevelCode(UserChoseLevelRet(rooms[id], u, level)) # "SUCC"
      BY <3>1 DEF LevelCode
    <3> QED
      BY <1>2, <2>2, <3>2 DEF LevelRefused
  <2>3. CASE LevelUnknown(u, id)
    BY <2>3 DEF LevelUnknown, roomVars, Answer, Truthful
  <2> QED
    BY <1>9, <2>1, <2>2, <2>3 DEF onChooseLevel
<1> QED
  BY <1>1, <1>5, <1>6, <1>7, <1>8, <1>9

(* AnswersTellTheTruth: between the states before and after a step whose answer
   is SUCC, the request has taken place in the room the answer names, and in no
   other; a step with another answer changes no room, and neither does the SUCC
   to a choice of a level for a room that does not exist. *)
THEOREM AnswersTrue == Spec => AnswersTellTheTruth
<1>1. IInv /\ [Next]_vars => [Truthful]_vars
  BY NextTruthful
<1> QED
  BY <1>1, InductiveInvariant, PTL DEF Spec, AnswersTellTheTruth, Truthful
=============================================================================

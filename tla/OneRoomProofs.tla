---------------------------- MODULE OneRoomProofs ----------------------------
(***************************************************************************)
(* The invariants and action properties of OneRoom and its refinement of    *)
(* Lobby, for every set of accounts, every size of the room and every set   *)
(* of levels that are asked for.                                            *)
(***************************************************************************)
EXTENDS OneRoom, RoomProofs

(* The inductive invariant. *)
IInv == RoomInv(room) /\ room.max = MaxUserSize

(* A new room satisfies it. *)
LEMMA InitIInv == Init => IInv
  BY OneRoomAssumption, NewRoomInv DEF Init, IInv, NewRoom

(* Every request preserves it: one step per handler, by the lemma of its method. *)
LEMMA NextIInv == IInv /\ [Next]_room => IInv'
<1>  SUFFICES ASSUME IInv, [Next]_room
              PROVE  IInv'
  OBVIOUS
<1>0. RoomInv(room) /\ room \in RoomObject /\ room.max = MaxUserSize
  BY DEF IInv, RoomInv
<1>1. ASSUME NEW u \in Users, Enter(u)
      PROVE  IInv'
  BY <1>0, <1>1, UserEnterInv, MaxIsFixed DEF Enter, IInv
<1>2. ASSUME NEW u \in Users, Leave(u)
      PROVE  IInv'
  BY <1>0, <1>2, UserLeaveInv, MaxIsFixed DEF Leave, IInv
<1>3. ASSUME NEW u \in Users, Ready(u)
      PROVE  IInv'
  <2>1. Holds(room, u) /\ ~UserOf(room, u).ready
    BY <1>3 DEF Ready, UserReadyRet
  <2> QED
    BY <1>0, <1>3, <2>1, UserReadyInv, MaxIsFixed DEF Ready, IInv
<1>4. ASSUME NEW u \in Users, StartGame(u)
      PROVE  IInv'
  BY <1>0, <1>4, StartGameInv, MaxIsFixed DEF StartGame, IInv
<1>5. ASSUME NEW u \in Users, NEW level \in ReqLevels, ChooseLevel(u, level)
      PROVE  IInv'
  <2>1. level \in SetLevels
    BY <1>5 DEF ChooseLevel, UserChoseLevelRet
  <2> QED
    BY <1>0, <1>5, <2>1, UserChoseLevelInv, MaxIsFixed DEF ChooseLevel, IInv
<1>6. CASE UNCHANGED room
  BY <1>0, <1>6 DEF IInv
<1> QED
  BY <1>1, <1>2, <1>3, <1>4, <1>5, <1>6 DEF Next

(* The inductive invariant holds of every behaviour of the room. *)
THEOREM InductiveInvariant == Spec => []IInv
  BY InitIInv, NextIInv, PTL DEF Spec

(* TypeOK: the room's data members keep their types. *)
THEOREM TypeCorrect == Spec => []TypeOK
<1>1. IInv => TypeOK
  BY DEF IInv, RoomInv, TypeOK
<1> QED
  BY <1>1, InductiveInvariant, PTL

(* MapInv: no iterator of m_map_users_ leads to another account's user. *)
THEOREM MapCorrect == Spec => []MapInv
<1>1. IInv => MapInv
  BY DEF IInv, RoomInv, MapInv
<1> QED
  BY <1>1, InductiveInvariant, PTL

(* NumbersInv: however users enter and leave, no player number is leaked or
   given twice and the room never holds more than MAX_USER_SIZE users. *)
THEOREM NumbersCorrect == Spec => []NumbersInv
<1>1. IInv => NumbersInv
  BY DEF IInv, RoomInv, NumbersInv
<1> QED
  BY <1>1, InductiveInvariant, PTL

(* ReadyInv: m_cur_ready_users_ is the number of listed users that are ready. *)
THEOREM ReadyCorrect == Spec => []ReadyInv
<1>1. IInv => ReadyInv
  BY DEF IInv, RoomInv, ReadyInv
<1> QED
  BY <1>1, InductiveInvariant, PTL

(* OwnerInv: a room that is not empty has exactly one owner, at the front of
   its list. *)
THEOREM OwnerCorrect == Spec => []OwnerInv
<1>1. IInv => OwnerInv
  BY DEF IInv, RoomInv, OwnerInv
<1> QED
  BY <1>1, InductiveInvariant, PTL

(* StartInv: a game runs only in a full room whose users are all ready. *)
THEOREM StartCorrect == Spec => []StartInv
<1>1. IInv => StartInv
  BY DEF IInv, RoomInv, StartInv
<1> QED
  BY <1>1, InductiveInvariant, PTL

(* RunningRoomIsFrozen: no request changes a room whose game runs. *)
THEOREM RunningFrozen == Spec => RunningRoomIsFrozen
<1>1. IInv /\ [Next]_room => [~IsRunning(room)]_room
  <2>  SUFFICES ASSUME IInv, Next, IsRunning(room)
                PROVE  FALSE
    OBVIOUS
  <2>1. PICK u \in Users :
          \/ Enter(u) \/ Leave(u) \/ Ready(u) \/ StartGame(u)
          \/ \E level \in ReqLevels : ChooseLevel(u, level)
    BY DEF Next
  <2> QED
    BY <2>1, RunningRoomRefuses DEF IInv, Enter, Leave, Ready, StartGame, ChooseLevel
<1> QED
  BY <1>1, InductiveInvariant, PTL DEF Spec, RunningRoomIsFrozen

-----------------------------------------------------------------------------
(* What StayersKeepTheirPlace says of a room and the room after a step. *)
Keeps(r, n) ==
    \A i, j \in Positions(r) :
        i <= j /\ {SeatOf(r, i), SeatOf(r, j)} \subseteq PlayersOf(n)
        => \E k, l \in Positions(n) :
             /\ k <= l
             /\ SeatOf(n, k) = SeatOf(r, i)
             /\ SeatOf(n, l) = SeatOf(r, j)
             /\ r.users[i].ready => n.users[k].ready

(* A step that leaves every entry where it is keeps the users in their place. *)
LEMMA InPlaceKeeps ==
    ASSUME NEW r, NEW n,
           \A i \in Positions(r) :
              /\ i \in Positions(n)
              /\ SeatOf(n, i) = SeatOf(r, i)
              /\ r.users[i].ready => n.users[i].ready
    PROVE  Keeps(r, n)
  BY Zenon DEF Keeps

(* userLeave closes the gap: the others keep their order. *)
LEMMA LeaveKeeps ==
    ASSUME NEW r, RoomInv(r), NEW u \in Users, UserLeaveRet(r, u) = 0
    PROVE  Keeps(r, UserLeave(r, u))
<1>  DEFINE n == UserLeave(r, u)
            k == r.at[u]
            m == Len(r.users) - 1
<1>1. LeftBehind(r, u, k, m, n) /\ RoomFields(r) /\ RoomFields(n)
  BY UserLeaveList, UserLeaveInv, RoomFacts
<1>  HIDE DEF n, k
<1>2. /\ m \in Nat /\ k \in 1..(m + 1)
      /\ Positions(r) = 1..(m + 1) /\ Positions(n) = 1..m
  <2>1. Len(r.users) = m + 1 /\ Len(n.users) = m
    BY <1>1 DEF RoomFields, LeftBehind
  <2> QED
    BY <1>1, <2>1 DEF LeftBehind, Positions
<1>3. PlayersOf(n) = r.numUse \ {r.users[k].player}
  BY <1>1 DEF RoomFields, LeftBehind
<1>4. /\ \A a \in 1..m : /\ n.users[a].player = r.users[Source(k, a)].player
                         /\ n.users[a].ready = r.users[Source(k, a)].ready
      /\ \A j \in 1..(m + 1) : j # k => \E a \in 1..m : Source(k, a) = j
  BY <1>1 DEF LeftBehind
<1>  HIDE DEF m
<1>5. ASSUME NEW i \in Positions(r), NEW j \in Positions(r), i <= j,
             {SeatOf(r, i), SeatOf(r, j)} \subseteq PlayersOf(n)
      PROVE  \E a, b \in Positions(n) :
                /\ a <= b
                /\ SeatOf(n, a) = SeatOf(r, i)
                /\ SeatOf(n, b) = SeatOf(r, j)
                /\ r.users[i].ready => n.users[a].ready
  <2>1. i # k /\ j # k
    BY <1>3, <1>5 DEF SeatOf
  <2>2. PICK a \in Positions(n) : Source(k, a) = i
    BY <1>2, <1>4, <2>1
  <2>3. PICK b \in Positions(n) : Source(k, b) = j
    BY <1>2, <1>4, <2>1
  <2>4. a <= b
    BY <1>2, <1>5, <2>2, <2>3 DEF Source
  <2>5. /\ SeatOf(n, a) = SeatOf(r, i)
        /\ SeatOf(n, b) = SeatOf(r, j)
        /\ r.users[i].ready => n.users[a].ready
    BY <1>2, <1>4, <2>2, <2>3 DEF SeatOf
  <2> QED
    BY <2>4, <2>5
<1>6. Keeps(r, n)
  BY <1>5 DEF Keeps
<1> QED
  BY <1>6 DEF n

(* Every step keeps the users that stay in their place. *)
LEMMA NextKeeps == IInv /\ Next => Keeps(room, room')
<1>  SUFFICES ASSUME IInv, Next
              PROVE  Keeps(room, room')
  OBVIOUS
<1>0. RoomInv(room)
  BY DEF IInv
<1>1. ASSUME NEW u \in Users, Enter(u)
      PROVE  Keeps(room, room')
  <2>1. Entered(room, u, FreePlayer(room), room') /\ Len(room.users) \in Nat
    BY <1>0, <1>1, UserEnterInv, RoomFacts DEF Enter, RoomFields
  <2>2. ASSUME NEW i \in Positions(room)
        PROVE  i \in Positions(room') /\ room'.users[i] = room.users[i]
    BY <2>1 DEF Entered, Positions
  <2> QED
    BY <2>2, InPlaceKeeps DEF SeatOf
<1>2. ASSUME NEW u \in Users, Leave(u)
      PROVE  Keeps(room, room')
  BY <1>0, <1>2, LeaveKeeps DEF Leave
<1>3. ASSUME NEW u \in Users, NEW n, n = UserReady(room, u), UserReadyRet(room, u) \in {0, 1}
      PROVE  Keeps(room, n)
  <2>1. Holds(room, u) /\ ~UserOf(room, u).ready
    BY <1>3 DEF UserReadyRet
  <2>2. /\ Len(n.users) = Len(room.users)
        /\ \A i \in 1..Len(room.users) :
              /\ n.users[i].player = room.users[i].player
              /\ room.users[i].ready => n.users[i].ready
    BY <1>0, <1>3, <2>1, UserReadyInv
  <2> QED
    BY <2>2, InPlaceKeeps DEF SeatOf, Positions
<1>4. ASSUME NEW u \in Users, Ready(u)
      PROVE  Keeps(room, room')
  BY <1>3, <1>4 DEF Ready
<1>5. ASSUME NEW u \in Users, StartGame(u)
      PROVE  Keeps(room, room')
  <2>1. room'.users = UserReady(room, u).users
    BY <1>0, <1>5, StartGameInv DEF StartGame
  <2>2. Keeps(room, UserReady(room, u))
    BY <1>3, <1>5 DEF StartGame
  <2>3. /\ Positions(room') = Positions(UserReady(room, u))
        /\ PlayersOf(room') = PlayersOf(UserReady(room, u))
        /\ \A i : SeatOf(room', i) = SeatOf(UserReady(room, u), i)
    BY <2>1 DEF Positions, PlayersOf, SeatOf
  <2> QED
    BY <2>1, <2>2, <2>3, Zenon DEF Keeps
<1>6. ASSUME NEW u \in Users, NEW level \in ReqLevels, ChooseLevel(u, level)
      PROVE  Keeps(room, room')
  <2>1. level \in SetLevels
    BY <1>6 DEF ChooseLevel, UserChoseLevelRet
  <2>2. room'.users = room.users
    BY <1>0, <1>6, <2>1, UserChoseLevelInv DEF ChooseLevel
  <2> QED
    BY <2>2, InPlaceKeeps DEF Positions, SeatOf
<1> QED
  BY <1>1, <1>2, <1>4, <1>5, <1>6 DEF Next

(* StayersKeepTheirPlace: whoever leaves, those who stay keep their number, their
   readiness and their order, so the longest member is the next owner. *)
THEOREM StayersKept == Spec => StayersKeepTheirPlace
<1>1. IInv /\ [Next]_room =>
        [\A i, j \in Positions(room) :
           i <= j /\ {SeatOf(room, i), SeatOf(room, j)} \subseteq PlayersOf(room')
           => \E k, l \in Positions(room') :
                /\ k <= l
                /\ SeatOf(room', k) = SeatOf(room, i)
                /\ SeatOf(room', l) = SeatOf(room, j)
                /\ room.users[i].ready => room'.users[k].ready]_room
  BY NextKeeps DEF Keeps
<1> QED
  BY <1>1, InductiveInvariant, PTL DEF Spec, StayersKeepTheirPlace

-----------------------------------------------------------------------------
(* m_cur_ready_users_ lets the owner start: in a full room whose other users are
   all ready, however often they were before, an owner that is not ready itself
   is told that the game starts. *)
StartIsGranted ==
    \A u \in Users :
        /\ ~IsRunning(room)
        /\ room.size = room.max
        /\ room.at[u] = 1
        /\ \A i \in Positions(room) : room.users[i].ready <=> i > 1
        => UserReadyRet(room, u) = 1

(* The others are as many as the size of the room but one, and so is the count. *)
LEMMA OthersAreCounted ==
    ASSUME NEW r, RoomInv(r), Len(r.users) # 0,
           \A i \in Positions(r) : r.users[i].ready <=> i > 1
    PROVE  r.readies = r.size - 1
<1>  DEFINE p == r.users[1].player
<1>1. RoomFields(r)
  BY RoomFacts
<1>2. 1 \in Positions(r) /\ p \in r.numUse
  BY <1>1 DEF RoomFields, Positions
<1>3. ReadyPlayers(r) = r.numUse \ {p}
  <2>1. r.numUse = {r.users[i].player : i \in Positions(r)}
    BY <1>1 DEF RoomFields, PlayersOf, SeatOf
  <2>2. ReadyPlayers(r) = {r.users[i].player : i \in {j \in Positions(r) : j > 1}}
    BY DEF ReadyPlayers, SeatOf
  <2>3. \A i \in Positions(r) : /\ i = 1 \/ i > 1
                                /\ r.users[i].player = p <=> ~(i > 1)
    BY <1>1, <1>2 DEF RoomFields, Positions
  <2>  HIDE DEF p
  <2> QED
    BY <2>1, <2>2, <2>3
<1>4. Cardinality(r.numUse \ {p}) = Cardinality(r.numUse) - 1
  <2>1. IsFiniteSet(r.numUse)
    BY <1>1 DEF RoomFields
  <2>  HIDE DEF p
  <2> QED
    BY <1>2, <2>1, FS_RemoveElement
<1> QED
  BY <1>1, <1>3, <1>4 DEF RoomFields

(* StartIsGranted: an owner that is not ready itself is refused the start only while
   the room is not full or another user is not ready. *)
THEOREM StartGranted == Spec => []StartIsGranted
<1>1. IInv => StartIsGranted
  <2>  SUFFICES ASSUME IInv, NEW u \in Users, ~IsRunning(room), room.size = room.max,
                       room.at[u] = 1,
                       \A i \in Positions(room) : room.users[i].ready <=> i > 1
                PROVE  UserReadyRet(room, u) = 1
    BY DEF StartIsGranted
  <2>1. RoomInv(room) /\ RoomFields(room)
    BY RoomFacts DEF IInv
  <2>2. 1 \in Positions(room) /\ Len(room.users) # 0 /\ room.users # << >>
    BY <2>1, EmptySeq DEF RoomFields, Positions
  <2>3. ~room.users[1].ready /\ room.users[1].master
    BY <2>1, <2>2 DEF RoomInv, OneOwnerAtFront
  <2>4. MayStart(room)
    BY <2>1, <2>2, OthersAreCounted DEF MayStart, RoomFields
  <2>5. ~(room.state >= RoomStateRunning)
    BY <2>1 DEF IsRunning, RoomFields, RoomStates, RoomStateReady, RoomStateRunning,
       RoomStatePreparation, RoomStateSettleMent
  <2> QED
    BY <2>3, <2>4, <2>5 DEF UserReadyRet, Holds, UserOf
<1> QED
  BY <1>1, InductiveInvariant, PTL

-----------------------------------------------------------------------------
(* The refinement of Lobby: who sits where and who owns the lobby, of a record. *)
SittingOf(r) ==
    [s \in 1..MaxUserSize |->
        IF s \in PlayersOf(r)
        THEN r.users[CHOOSE i \in Positions(r) : SeatOf(r, i) = s].uid
        ELSE NoUser]

OwnerOf(r) == IF r.users = << >> THEN 0 ELSE SeatOf(r, 1)

(* The substitutions of TheLobby, before and after a step. *)
LEMMA View ==
    /\ LobbySitting = SittingOf(room)
    /\ LobbySitting' = SittingOf(room')
    /\ LobbyOwner = OwnerOf(room)
    /\ LobbyOwner' = OwnerOf(room')
    /\ ReadyPlayers(room)' = ReadyPlayers(room')
    /\ IsRunning(room)' = IsRunning(room')
  BY DEF LobbySitting, LobbyOwner, SittingOf, OwnerOf, ReadyPlayers, IsRunning,
         PlayersOf, Positions, SeatOf

(* No two entries have one number, so SittingOf puts the account of every entry
   on the seat of its number. *)
LEMMA SittingFacts ==
    ASSUME NEW r, RoomInv(r), r.max = MaxUserSize
    PROVE  /\ \A i \in 1..Len(r.users) : SittingOf(r)[r.users[i].player] = r.users[i].uid
           /\ \A s \in 1..MaxUserSize :
                 /\ s \notin r.numUse => SittingOf(r)[s] = NoUser
                 /\ s \in r.numUse =>
                      \E i \in 1..Len(r.users) : /\ r.users[i].player = s
                                                 /\ SittingOf(r)[s] = r.users[i].uid
                                                 /\ r.users[i].uid \in Users
<1>0. RoomFields(r)
  BY RoomFacts
<1>1. ASSUME NEW i \in 1..Len(r.users)
      PROVE  /\ SittingOf(r)[r.users[i].player] = r.users[i].uid
             /\ r.users[i].uid \in Users
  <2>  DEFINE s == r.users[i].player
              j == CHOOSE a \in Positions(r) : SeatOf(r, a) = s
  <2>1. s \in 1..MaxUserSize /\ s \in PlayersOf(r)
    BY <1>0 DEF RoomFields
  <2>2. j \in Positions(r) /\ SeatOf(r, j) = s
    BY DEF Positions, SeatOf
  <2>3. j = i
    BY <1>0, <2>2 DEF RoomFields, Positions, SeatOf
  <2>4. SittingOf(r)[s] = r.users[j].uid
    BY <2>1 DEF SittingOf
  <2>  HIDE DEF j
  <2> QED
    BY <1>0, <2>3, <2>4 DEF RoomFields
<1>2. ASSUME NEW s \in 1..MaxUserSize, s \in r.numUse
      PROVE  \E i \in 1..Len(r.users) : r.users[i].player = s
  BY <1>0, <1>2 DEF RoomFields, PlayersOf, Positions, SeatOf
<1>3. ASSUME NEW s \in 1..MaxUserSize, s \notin r.numUse
      PROVE  SittingOf(r)[s] = NoUser
  BY <1>0, <1>3 DEF RoomFields, SittingOf
<1> QED
  BY <1>1, <1>2, <1>3

(* SittingOf is the only such function. *)
LEMMA SittingUnique ==
    ASSUME NEW r, RoomInv(r), r.max = MaxUserSize,
           NEW f, f = [s \in 1..MaxUserSize |-> f[s]],
           \A i \in 1..Len(r.users) : f[r.users[i].player] = r.users[i].uid,
           \A s \in 1..MaxUserSize : s \notin r.numUse => f[s] = NoUser
    PROVE  SittingOf(r) = f
<1>1. ASSUME NEW s \in 1..MaxUserSize
      PROVE  SittingOf(r)[s] = f[s]
  <2>1. CASE s \notin r.numUse
    BY <2>1, SittingFacts
  <2>2. CASE s \in r.numUse
    <3>1. PICK i \in 1..Len(r.users) :
             r.users[i].player = s /\ SittingOf(r)[s] = r.users[i].uid
      BY <2>2, SittingFacts
    <3> QED
      BY <3>1
  <2> QED
    BY <2>1, <2>2
<1>2. SittingOf(r) = [s \in 1..MaxUserSize |-> SittingOf(r)[s]]
  BY DEF SittingOf
<1> QED
  BY <1>1, <1>2

(* The seats taken are the numbers in use; the owner's is the first entry's. *)
LEMMA TakenFacts ==
    ASSUME IInv
    PROVE  /\ TheLobby!Taken = room.numUse
           /\ room.users # << >> => OwnerOf(room) = room.users[1].player
           /\ room.users = << >> <=> Len(room.users) = 0
           /\ room.numUse = {} <=> Len(room.users) = 0
<1>0. RoomFields(room) /\ RoomInv(room) /\ room.max = MaxUserSize
  BY RoomFacts DEF IInv
<1>1. \A s \in 1..MaxUserSize : SittingOf(room)[s] # NoUser <=> s \in room.numUse
  BY <1>0, SittingFacts, UserAssumption
<1>2. TheLobby!Taken = room.numUse
  BY <1>0, <1>1, View DEF TheLobby!Taken, RoomFields
<1>3. room.users = << >> <=> Len(room.users) = 0
  BY <1>0, EmptySeq DEF RoomFields
<1>4. room.numUse = {} <=> Len(room.users) = 0
  BY <1>0, FS_EmptySet DEF RoomFields
<1> QED
  BY <1>2, <1>3, <1>4 DEF OwnerOf, SeatOf

(* userEnter: a player sits down on a free seat. *)
LEMMA EnterSitsDown ==
    ASSUME IInv, NEW u \in Users, Enter(u)
    PROVE  TheLobby!SitDown(u, FreePlayer(room)) /\ FreePlayer(room) \in 1..MaxUserSize
<1>  DEFINE p == FreePlayer(room)
            n == room'
            len == Len(room.users)
            f == [SittingOf(room) EXCEPT ![p] = u]
<1>1. Entered(room, u, p, n) /\ RoomInv(n) /\ RoomInv(room)
      /\ n.max = MaxUserSize /\ room.max = MaxUserSize
  BY NextIInv, UserEnterInv DEF Enter, Next, IInv
<1>2. RoomFields(room) /\ RoomFields(n)
  BY <1>1, RoomFacts
<1>3. /\ p \in 1..MaxUserSize /\ p \notin room.numUse
      /\ len \in Nat /\ Len(n.users) = len + 1
      /\ \A i \in 1..len : n.users[i] = room.users[i]
      /\ n.users[len + 1].uid = u /\ n.users[len + 1].player = p
      /\ n.numUse = room.numUse \cup {p}
      /\ ReadyPlayers(n) = ReadyPlayers(room)
      /\ ~IsRunning(room) /\ ~IsRunning(n)
  BY <1>1, <1>2 DEF Entered, RoomFields, IsRunning
<1>  HIDE DEF p, n
<1>4. SittingOf(room)[p] = NoUser
  BY <1>1, <1>3, SittingFacts
<1>5. SittingOf(n) = f
  <2>1. f = [s \in 1..MaxUserSize |-> f[s]]
    <3>1. SittingOf(room) = [s \in 1..MaxUserSize |-> SittingOf(room)[s]]
      BY DEF SittingOf
    <3> QED
      BY <3>1
  <2>2. ASSUME NEW i \in 1..Len(n.users)
        PROVE  f[n.users[i].player] = n.users[i].uid
    <3>1. CASE i = len + 1
      BY <1>3, <3>1 DEF SittingOf
    <3>2. CASE i \in 1..len
      <4>1. room.users[i].player # p /\ room.users[i].player \in 1..MaxUserSize
        BY <1>1, <1>2, <1>3, <3>2 DEF RoomFields
      <4>2. SittingOf(room)[room.users[i].player] = room.users[i].uid
        BY <1>1, <3>2, SittingFacts
      <4> QED
        BY <1>3, <3>2, <4>1, <4>2 DEF SittingOf
    <3> QED
      BY <1>3, <3>1, <3>2
  <2>3. ASSUME NEW s \in 1..MaxUserSize, s \notin n.numUse
        PROVE  f[s] = NoUser
    <3>1. s # p /\ SittingOf(room)[s] = NoUser
      BY <1>1, <1>3, <2>3, SittingFacts
    <3> QED
      BY <3>1 DEF SittingOf
  <2>  HIDE DEF f
  <2> QED
    BY <1>1, <2>1, <2>2, <2>3, SittingUnique
<1>6. OwnerOf(n) = IF TheLobby!Taken = {} THEN p ELSE OwnerOf(room)
  <2>1. n.users # << >>
    BY <1>3, <1>2, EmptySeq DEF RoomFields
  <2>2. OwnerOf(n) = n.users[1].player
    BY <2>1 DEF OwnerOf, SeatOf
  <2>3. CASE len = 0
    BY <1>3, <2>2, <2>3, TakenFacts
  <2>4. CASE len # 0
    <3>1. 1 \in 1..len
      BY <1>3, <2>4
    <3> QED
      BY <1>3, <2>2, <2>4, <3>1, TakenFacts
  <2> QED
    BY <2>3, <2>4
<1>6a. IsRunning(room') = IsRunning(room)
  BY <1>1 DEF Entered, IsRunning, n
<1>7. TheLobby!SitDown(u, p)
  BY <1>3, <1>4, <1>5, <1>6, <1>6a, View, Zenon DEF TheLobby!SitDown, n
<1> QED
  BY <1>3, <1>7 DEF p

(* userLeave: the player of the seat gets up, and the owner's seat passes on. *)
LEMMA LeaveGetsUp ==
    ASSUME IInv, NEW u \in Users, Leave(u)
    PROVE  \E s \in 1..MaxUserSize : TheLobby!GetUp(s)
<1>  DEFINE k == room.at[u]
            p == room.users[k].player
            n == room'
            m == Len(room.users) - 1
            f == [SittingOf(room) EXCEPT ![p] = NoUser]
<1>1. LeftBehind(room, u, k, m, n) /\ RoomInv(n) /\ RoomInv(room)
      /\ n.max = MaxUserSize /\ room.max = MaxUserSize
      /\ ReadyPlayers(n) = ReadyPlayers(room) \ {p}
  BY NextIInv, UserLeaveInv, UserLeaveList DEF Leave, Next, IInv
<1>2. RoomFields(room) /\ RoomFields(n)
  BY <1>1, RoomFacts
<1>  HIDE DEF k, p, n
<1>3. /\ m \in Nat /\ Len(room.users) = m + 1 /\ Len(n.users) = m
      /\ k \in 1..(m + 1)
      /\ ~IsRunning(room) /\ ~IsRunning(n)
      /\ n.numUse = room.numUse \ {p}
  BY <1>1, <1>2 DEF LeftBehind, RoomFields, IsRunning, p
<1>4. \A i \in 1..m : /\ Source(k, i) \in 1..(m + 1) /\ Source(k, i) # k
                      /\ n.users[i].uid = room.users[Source(k, i)].uid
                      /\ n.users[i].player = room.users[Source(k, i)].player
  BY <1>1 DEF LeftBehind
<1>  HIDE DEF m
<1>5. /\ p \in 1..MaxUserSize /\ p \in room.numUse
      /\ \A i \in 1..(m + 1) : /\ room.users[i].player \in 1..MaxUserSize
                               /\ room.users[i].player = p => i = k
  BY <1>1, <1>2, <1>3 DEF RoomFields, p
<1>6. SittingOf(n) = f
  <2>1. f = [s \in 1..MaxUserSize |-> f[s]]
    <3>1. SittingOf(room) = [s \in 1..MaxUserSize |-> SittingOf(room)[s]]
      BY DEF SittingOf
    <3> QED
      BY <3>1
  <2>2. ASSUME NEW i \in 1..Len(n.users)
        PROVE  f[n.users[i].player] = n.users[i].uid
    <3>1. n.users[i].player # p /\ n.users[i].player \in 1..MaxUserSize
      BY <1>3, <1>4, <1>5
    <3>2. SittingOf(room)[n.users[i].player] = n.users[i].uid
      <4>1. SittingOf(room)[room.users[Source(k, i)].player] = room.users[Source(k, i)].uid
        BY <1>1, <1>3, <1>4, SittingFacts
      <4> QED
        BY <1>3, <1>4, <4>1
    <3> QED
      BY <3>1, <3>2 DEF SittingOf
  <2>3. ASSUME NEW s \in 1..MaxUserSize, s \notin n.numUse
        PROVE  f[s] = NoUser
    <3>1. CASE s = p
      BY <3>1 DEF SittingOf
    <3>2. CASE s # p
      <4>1. SittingOf(room)[s] = NoUser
        BY <1>1, <1>3, <2>3, <3>2, SittingFacts
      <4> QED
        BY <3>2, <4>1 DEF SittingOf
    <3> QED
      BY <3>1, <3>2
  <2>  HIDE DEF f
  <2> QED
    BY <1>1, <2>1, <2>2, <2>3, SittingUnique
<1>7. OwnerOf(room) = room.users[1].player /\ TheLobby!Taken = room.numUse
  BY <1>3, TakenFacts
<1>8. m = 0 \/ 1 \in 1..m
  BY <1>3
<1>8a. /\ n.users = << >> <=> m = 0
       /\ m = 0 <=> n.numUse = {}
  <2>1. n.users = << >> <=> m = 0
    BY <1>2, <1>3, EmptySeq DEF RoomFields
  <2>2. IsFiniteSet(n.numUse) /\ Cardinality(n.numUse) = m
    BY <1>2, <1>3 DEF RoomFields
  <2>3. m = 0 <=> n.numUse = {}
    BY <2>2, FS_EmptySet
  <2> QED
    BY <2>1, <2>3
<1>9. IF OwnerOf(room) # p THEN OwnerOf(n) = OwnerOf(room)
      ELSE IF TheLobby!Taken = {p} THEN OwnerOf(n) = 0
      ELSE OwnerOf(n) \in TheLobby!Taken \ {p}
  <2>1. CASE OwnerOf(room) # p
    <3>1. k # 1
      BY <1>7, <2>1 DEF p
    <3>2. 1 \in 1..m /\ Source(k, 1) = 1
      BY <1>3, <3>1 DEF Source
    <3>3. n.users # << >> /\ n.users[1].player = room.users[1].player
      BY <1>4, <1>8a, <3>2
    <3> QED
      BY <1>7, <2>1, <3>3 DEF OwnerOf, SeatOf
  <2>2. CASE OwnerOf(room) = p /\ m = 0
    <3>1. TheLobby!Taken = {p} /\ OwnerOf(n) = 0
      BY <1>3, <1>5, <1>7, <1>8a, <2>2 DEF OwnerOf
    <3> QED
      BY <2>2, <3>1
  <2>3. CASE OwnerOf(room) = p /\ m # 0
    <3>1. TheLobby!Taken # {p}
      BY <1>3, <1>7, <1>8a, <2>3
    <3>2. OwnerOf(n) = n.users[1].player
      BY <1>8a, <2>3 DEF OwnerOf, SeatOf
    <3>3. n.users[1].player \in n.numUse
      BY <1>2, <1>3, <1>8, <2>3 DEF RoomFields
    <3> QED
      BY <1>3, <1>7, <2>3, <3>1, <3>2, <3>3
  <2> QED
    BY <2>1, <2>2, <2>3
<1>10. SittingOf(room)[p] # NoUser
  BY <1>1, <1>5, SittingFacts, UserAssumption
<1>10a. IsRunning(room') = IsRunning(room)
  BY <1>1 DEF LeftBehind, IsRunning, n
<1>11. TheLobby!GetUp(p)
  BY <1>1, <1>3, <1>6, <1>9, <1>10, <1>10a, View, Zenon DEF TheLobby!GetUp, n
<1> QED
  BY <1>5, <1>11

(* A step that leaves every entry's account and number changes no seat. *)
LEMMA SameSeats ==
    ASSUME IInv, NEW n, RoomInv(n), n.max = MaxUserSize,
           Len(n.users) = Len(room.users),
           \A i \in 1..Len(room.users) :
              /\ n.users[i].uid = room.users[i].uid
              /\ n.users[i].player = room.users[i].player
    PROVE  SittingOf(n) = SittingOf(room) /\ OwnerOf(n) = OwnerOf(room)
<1>  DEFINE f == SittingOf(room)
<1>1. RoomInv(room) /\ room.max = MaxUserSize
  BY DEF IInv
<1>2. RoomFields(room) /\ RoomFields(n)
  BY <1>1, RoomFacts
<1>3. n.numUse = room.numUse
  <2>1. PlayersOf(n) = PlayersOf(room)
    BY DEF PlayersOf, Positions, SeatOf
  <2> QED
    BY <1>2, <2>1 DEF RoomFields
<1>4. /\ f = [s \in 1..MaxUserSize |-> f[s]]
      /\ \A i \in 1..Len(n.users) : f[n.users[i].player] = n.users[i].uid
      /\ \A s \in 1..MaxUserSize : s \notin n.numUse => f[s] = NoUser
  <2>1. f = [s \in 1..MaxUserSize |-> f[s]]
    BY DEF SittingOf
  <2>2. \A i \in 1..Len(n.users) : f[n.users[i].player] = n.users[i].uid
    BY <1>1, SittingFacts
  <2>3. \A s \in 1..MaxUserSize : s \notin n.numUse => f[s] = NoUser
    BY <1>1, <1>3, SittingFacts
  <2> QED
    BY <2>1, <2>2, <2>3
<1>  HIDE DEF f
<1>5. SittingOf(n) = f
  BY <1>4, SittingUnique
<1>6. OwnerOf(n) = OwnerOf(room)
  <2>1. /\ n.users = << >> <=> Len(n.users) = 0
        /\ room.users = << >> <=> Len(room.users) = 0
        /\ Len(room.users) # 0 => 1 \in 1..Len(room.users)
    BY <1>2, EmptySeq DEF RoomFields
  <2> QED
    BY <2>1 DEF OwnerOf, SeatOf
<1> QED
  BY <1>5, <1>6 DEF f

(* userReady changes no seat and nobody's place, whoever calls it. *)
LEMMA ReadyKeepsSeats ==
    ASSUME IInv, NEW u \in Users, UserReadyRet(room, u) \in {0, 1},
           NEW n, RoomInv(n), n.max = MaxUserSize, n.users = UserReady(room, u).users
    PROVE  SittingOf(n) = SittingOf(room) /\ OwnerOf(n) = OwnerOf(room)
<1>1. Holds(room, u) /\ ~UserOf(room, u).ready /\ RoomInv(room)
  BY DEF UserReadyRet, IInv
<1>2. /\ Len(n.users) = Len(room.users)
      /\ \A i \in 1..Len(room.users) :
            /\ n.users[i].uid = room.users[i].uid
            /\ n.users[i].player = room.users[i].player
  BY <1>1, UserReadyInv
<1> QED
  BY <1>2, SameSeats

(* What a user that userReady accepts is: a member whose seat is not yet ready, the
   owner exactly when the answer is the start. *)
LEMMA ReadyMember ==
    ASSUME IInv, NEW u \in Users, UserReadyRet(room, u) \in {0, 1},
           NEW p, p = room.users[room.at[u]].player
    PROVE  /\ p \in 1..MaxUserSize
           /\ ~IsRunning(room)
           /\ SittingOf(room)[p] # NoUser
           /\ p \notin ReadyPlayers(room)
           /\ ReadyPlayers(UserReady(room, u)) = ReadyPlayers(room) \cup {p}
           /\ UserReadyRet(room, u) = 1 <=> OwnerOf(room) = p
           /\ UserReady(room, u).state = room.state
<1>  DEFINE k == room.at[u]
<1>1. Holds(room, u) /\ ~UserOf(room, u).ready
  BY DEF UserReadyRet
<1>2. RoomInv(room) /\ room.max = MaxUserSize /\ RoomFields(room)
  BY RoomFacts DEF IInv
<1>3. /\ ReadyPlayers(UserReady(room, u)) = ReadyPlayers(room) \cup {p}
      /\ p \notin ReadyPlayers(room) /\ p \in room.numUse
      /\ UserReady(room, u).state = room.state
  BY <1>1, <1>2, UserReadyInv
<1>4. p \in 1..MaxUserSize
  BY <1>2, <1>3 DEF RoomFields
<1>5. ~IsRunning(room)
  BY <1>2, RunningRoomRefuses
<1>6. SittingOf(room)[p] # NoUser
  BY <1>2, <1>3, <1>4, SittingFacts, UserAssumption
<1>7. k \in 1..Len(room.users) /\ Len(room.users) \in Nat /\ p = room.users[k].player
  BY <1>1, <1>2 DEF Holds, RoomFields
<1>8. room.users[k].master <=> k = 1
  <2>1. room.users # << >>
    BY <1>7, EmptySeq
  <2> QED
    BY <1>2, <1>7, <2>1 DEF RoomInv, OneOwnerAtFront, Positions
<1>9. OwnerOf(room) = p <=> k = 1
  <2>1. OwnerOf(room) = room.users[1].player /\ 1 \in 1..Len(room.users)
    BY <1>7, TakenFacts
  <2> QED
    BY <1>2, <1>7, <2>1 DEF RoomFields
<1>10. UserReadyRet(room, u) = 1 <=> room.users[k].master
  BY <1>1 DEF UserReadyRet, UserOf
<1> QED
  BY <1>3, <1>4, <1>5, <1>6, <1>8, <1>9, <1>10

(* userReady of a member that is not the owner: the seat is declared ready. *)
LEMMA ReadyDeclares ==
    ASSUME IInv, NEW u \in Users, Ready(u)
    PROVE  \E s \in 1..MaxUserSize : TheLobby!DeclareReady(s)
<1>  DEFINE p == room.users[room.at[u]].player
            n == UserReady(room, u)
<1>1. RoomInv(room') /\ room'.max = MaxUserSize
  BY NextIInv DEF Ready, Next, IInv
<1>2. room' = n /\ UserReadyRet(room, u) = 0
  BY DEF Ready
<1>3. SittingOf(room') = SittingOf(room) /\ OwnerOf(room') = OwnerOf(room)
  BY <1>1, <1>2, ReadyKeepsSeats
<1>4. /\ p \in 1..MaxUserSize
      /\ ~IsRunning(room)
      /\ SittingOf(room)[p] # NoUser
      /\ p \notin ReadyPlayers(room)
      /\ ReadyPlayers(n) = ReadyPlayers(room) \cup {p}
      /\ OwnerOf(room) # p
      /\ n.state = room.state
  BY <1>2, ReadyMember
<1>  HIDE DEF p, n
<1>5. IsRunning(room') = IsRunning(room)
  BY <1>2, <1>4 DEF IsRunning
<1>6. TheLobby!DeclareReady(p)
  BY <1>2, <1>3, <1>4, <1>5, View, Zenon DEF TheLobby!DeclareReady
<1> QED
  BY <1>4, <1>6

(* userReady of the owner: every seat is taken and every other ready, and the game
   starts. *)
LEMMA StartGameStarts ==
    ASSUME IInv, NEW u \in Users, StartGame(u)
    PROVE  TheLobby!Start
<1>  DEFINE p == room.users[room.at[u]].player
            q == UserReady(room, u)
<1>1. RoomInv(room') /\ room'.max = MaxUserSize
  BY NextIInv DEF StartGame, Next, IInv
<1>2. room' = SetStatus(q, RoomStateRunning) /\ UserReadyRet(room, u) = 1
  BY DEF StartGame
<1>3. RoomInv(room) /\ room.max = MaxUserSize /\ RoomFields(room)
  BY RoomFacts DEF IInv
<1>4. /\ ReadyPlayers(q) = room.numUse
      /\ room'.users = q.users
      /\ room'.state = RoomStateRunning
  BY <1>2, <1>3, StartGameInv
<1>5. /\ ~IsRunning(room)
      /\ p \notin ReadyPlayers(room)
      /\ ReadyPlayers(q) = ReadyPlayers(room) \cup {p}
      /\ OwnerOf(room) = p
  BY <1>2, ReadyMember
<1>6. SittingOf(room') = SittingOf(room) /\ OwnerOf(room') = OwnerOf(room)
  BY <1>1, <1>2, <1>4, ReadyKeepsSeats
<1>  HIDE DEF p, q
<1>7. ReadyPlayers(room') = ReadyPlayers(q)
  BY <1>4 DEF ReadyPlayers, Positions, SeatOf
<1>8. IsRunning(room')
  BY <1>4 DEF IsRunning, RoomStateRunning, RoomStateReady
<1>9. room.numUse = 1..MaxUserSize
  <2>1. room.size = room.max
    BY <1>2 DEF UserReadyRet, MayStart
  <2>2. MaxUserSize \in Nat /\ room.numUse \in SUBSET (1..MaxUserSize)
        /\ Cardinality(room.numUse) = MaxUserSize
    BY <1>3, <2>1 DEF RoomFields
  <2>3. IsFiniteSet(1..MaxUserSize) /\ Cardinality(1..MaxUserSize) = MaxUserSize
    <3>1. 1 \in Int /\ MaxUserSize \in Int
      BY <2>2
    <3>2. /\ IsFiniteSet(1..MaxUserSize)
          /\ Cardinality(1..MaxUserSize) =
               IF 1 > MaxUserSize THEN 0 ELSE MaxUserSize - 1 + 1
      BY ONLY <3>1, FS_Interval, Zenon
    <3> QED
      BY <2>2, <3>2
  <2> QED
    BY <2>2, <2>3, FS_Subset
<1>10. TheLobby!Taken = 1..MaxUserSize
  BY <1>9, TakenFacts
<1> QED
  BY <1>4, <1>5, <1>6, <1>7, <1>8, <1>9, <1>10, View DEF TheLobby!Start

(* userChoseLevel is no step of the lobby. *)
LEMMA ChooseLevelStutters ==
    ASSUME IInv, NEW u \in Users, NEW level \in ReqLevels, ChooseLevel(u, level)
    PROVE  UNCHANGED TheLobby!lobbyVars
<1>1. level \in SetLevels
  BY DEF ChooseLevel, UserChoseLevelRet
<1>2. room'.users = room.users /\ room'.state = room.state
  BY <1>1, UserChoseLevelInv DEF ChooseLevel, IInv
<1>3. ReadyPlayers(room') = ReadyPlayers(room) /\ IsRunning(room') = IsRunning(room)
  BY <1>2 DEF Positions, SeatOf, ReadyPlayers, IsRunning
<1>4. SittingOf(room') = SittingOf(room) /\ OwnerOf(room') = OwnerOf(room)
  <2>1. RoomInv(room') /\ room'.max = MaxUserSize
    BY NextIInv DEF Next, IInv
  <2> QED
    BY <1>2, <2>1, SameSeats
<1> QED
  BY <1>3, <1>4, View, Zenon DEF TheLobby!lobbyVars

(* Every step of the room is a step of the lobby, or none. *)
LEMMA StepImplements == IInv /\ [Next]_room => [TheLobby!Next]_(TheLobby!lobbyVars)
<1>  SUFFICES ASSUME IInv, [Next]_room
              PROVE  [TheLobby!Next]_(TheLobby!lobbyVars)
  OBVIOUS
<1>1. CASE UNCHANGED room
  <2>1. room' = room
    BY <1>1
  <2>2. UNCHANGED TheLobby!lobbyVars
    BY <2>1, View DEF TheLobby!lobbyVars
  <2> QED
    BY <2>2
<1>2. ASSUME NEW u \in Users, Enter(u)
      PROVE  TheLobby!Next
  BY <1>2, EnterSitsDown DEF TheLobby!Next
<1>3. ASSUME NEW u \in Users, Leave(u)
      PROVE  TheLobby!Next
  BY <1>3, LeaveGetsUp DEF TheLobby!Next
<1>4. ASSUME NEW u \in Users, Ready(u)
      PROVE  TheLobby!Next
  BY <1>4, ReadyDeclares DEF TheLobby!Next
<1>5. ASSUME NEW u \in Users, StartGame(u)
      PROVE  TheLobby!Next
  BY <1>5, StartGameStarts DEF TheLobby!Next
<1>6. ASSUME NEW u \in Users, NEW level \in ReqLevels, ChooseLevel(u, level)
      PROVE  UNCHANGED TheLobby!lobbyVars
  BY <1>6, ChooseLevelStutters
<1> QED
  BY <1>1, <1>2, <1>3, <1>4, <1>5, <1>6 DEF Next

(* A new room is an empty lobby. *)
LEMMA InitImplements == Init => TheLobby!Init
<1>  SUFFICES ASSUME Init
              PROVE  TheLobby!Init
  OBVIOUS
<1>1. /\ room.users = << >> /\ Positions(room) = {}
      /\ PlayersOf(room) = {} /\ ReadyPlayers(room) = {} /\ ~IsRunning(room)
  BY DEF Init, NewRoom, Positions, PlayersOf, ReadyPlayers, IsRunning,
         RoomStatePreparation, RoomStateReady
<1>2. SittingOf(room) = [s \in 1..MaxUserSize |-> NoUser] /\ OwnerOf(room) = 0
  BY <1>1 DEF SittingOf, OwnerOf
<1> QED
  BY <1>1, <1>2, View DEF TheLobby!Init

(* ImplementsLobby: the list, the map, the counter of ready users and the set of
   numbers together keep what the lobby promises its players. *)
THEOREM RoomImplementsLobby == Spec => ImplementsLobby
  BY InitImplements, StepImplements, InductiveInvariant, PTL
     DEF Spec, ImplementsLobby, TheLobby!Spec
=============================================================================

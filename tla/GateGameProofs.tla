---------------------------- MODULE GateGameProofs ----------------------------
(***************************************************************************)
(* What is proved of GateGame for any accounts, gates, clients and rooms:   *)
(* its types, that the sets of users cover the connected ones, that         *)
(* pairings are listed, and that a take-over leaves the room.               *)
(***************************************************************************)
EXTENDS GateGame, TLAPS

(* A client is paired under an account, and not before it has connected. *)
PairedClients ==
    \A c \in Clients : paired[c] => account[c] \in Users /\ conn[c] # "new"

IInv == TypeOK /\ GateSetsCover /\ PairedClients /\ PairingsAgree

-----------------------------------------------------------------------------
(* The front of a sequence that is not empty, and what follows it. *)
LEMMA HeadTailFacts ==
  ASSUME NEW S, NEW s \in Seq(S), s # <<>>
  PROVE  Head(s) \in S /\ Tail(s) \in Seq(S)
OBVIOUS

(* Append keeps the elements of a sequence in their set. *)
LEMMA AppendType ==
  ASSUME NEW S, NEW s \in Seq(S), NEW x \in S
  PROVE  Append(s, x) \in Seq(S)
OBVIOUS

(* What is left of a user whose connection is gone. *)
LEMMA OfflineFacts ==
  ASSUME NEW usr \in User
  PROVE  Offline(usr) \in User /\ ~Offline(usr).conn /\ Released(usr) \in {usr, NoUser}
BY DEF User, UserRecord, Offline, Released

(* A user that logs in is connected through the gate of the login. *)
LEMMA LoggedInFacts ==
  ASSUME NEW usr \in User \cup {NoUser}, NEW g \in Gates, NEW id \in Ids
  PROVE  /\ LoggedIn(usr, g, id) \in User
         /\ LoggedIn(usr, g, id).conn /\ LoggedIn(usr, g, id).cli = g
<1>1. NewUser(g, id) \in User /\ NewUser(g, id).conn /\ NewUser(g, id).cli = g
  BY PeersAssumption, GameServerAssumption DEF NewUser, User, UserRecord, NoRoom
<1>2. ASSUME NEW old \in User
      PROVE  Online(old, g, id) \in User /\ Online(old, g, id).conn /\ Online(old, g, id).cli = g
  BY PeersAssumption DEF Online, User, UserRecord
<1>3. Remaining(usr) \in User \cup {NoUser}
  BY OfflineFacts DEF Remaining
<1> QED BY <1>1, <1>2, <1>3 DEF LoggedIn

(* A user that is taken over is in no room, and waits only if it did before. *)
LEMMA TakeOverFacts ==
  ASSUME NEW usr \in User, usr # NoUser, usr.conn, NEW g \in Gates, NEW id \in Ids
  PROVE  LoggedIn(usr, g, id).room = NoRoom /\ (LoggedIn(usr, g, id).busy => usr.busy)
<1>1. Remaining(usr) = Released(Offline(usr))
  BY DEF Remaining
<1>2. CASE Remaining(usr) = NoUser
  BY <1>2 DEF LoggedIn, NewUser
<1>3. CASE Remaining(usr) # NoUser
  <2>1. Remaining(usr) = Offline(usr) /\ Offline(usr).room = NoRoom /\ Offline(usr).busy
    BY <1>1, <1>3 DEF Released
  <2>2. usr.busy
    BY <2>1 DEF Offline, User, UserRecord
  <2>3. Offline(usr) \in User
    BY OfflineFacts
  <2>4. LoggedIn(usr, g, id) = Online(Offline(usr), g, id)
    BY <1>3, <2>1 DEF LoggedIn
  <2>5. LoggedIn(usr, g, id).room = Offline(usr).room
    BY <2>3, <2>4 DEF Online, User, UserRecord
  <2> QED BY <2>1, <2>2, <2>5
<1> QED BY <1>2, <1>3

-----------------------------------------------------------------------------
(* A step of the game server that leaves every user it keeps where it was. *)
UsersStay ==
    /\ users' \in [Users -> User \cup {NoUser}]
    /\ \A u \in Users : users'[u] # NoUser =>
          users[u] # NoUser /\ users'[u].conn = users[u].conn /\ users'[u].cli = users[u].cli

(* A request that is sent on is counted, and its user stays. *)
LEMMA SendOnFacts ==
  ASSUME GameTypeOK, NEW u \in Users, Known(u), NEW kind \in Kinds, NEW id \in Ids,
         UnderWay(u) < MaxAsked, SendOn(u, kind, id)
  PROVE  UsersStay /\ asked' \in [Users -> [Kinds -> 0..MaxAsked]]
<1>1. users[u] \in User
  BY DEF GameTypeOK, Known
<1>2. users' = [users EXCEPT ![u] = [users[u] EXCEPT !.gid = id, !.busy = TRUE,
                                       !.ser = IF @ = node THEN @ ELSE 0]]
  BY DEF SendOn, GameTypeOK
<1>3. UsersStay
  <2> DEFINE ser == IF users[u].ser = node THEN users[u].ser ELSE 0
  <2>4. ser \in 0..MaxNode
    BY <1>1, GameServerAssumption DEF User, UserRecord
  <2>5. users'[u] = [users[u] EXCEPT !.gid = id, !.busy = TRUE, !.ser = ser]
    BY <1>1, <1>2 DEF User, UserRecord, GameTypeOK
  <2> HIDE DEF ser
  <2>1. users'[u] \in User /\ users'[u].conn = users[u].conn /\ users'[u].cli = users[u].cli
    BY <1>1, <2>4, <2>5 DEF User, UserRecord
  <2>2. \A v \in Users : v # u => users'[v] = users[v]
    BY <1>2 DEF GameTypeOK
  <2>3. users' \in [Users -> User \cup {NoUser}]
    BY <1>2, <2>1, <2>2 DEF GameTypeOK
  <2> QED BY <2>1, <2>2, <2>3 DEF UsersStay, Known
<1>4. asked' \in [Users -> [Kinds -> 0..MaxAsked]]
  <2>1. Kinds = {"create", "leave", "ready"}
    BY DEF Kinds, RoomKinds
  <2>2. /\ asked[u]["create"] \in 0..MaxAsked /\ asked[u]["leave"] \in 0..MaxAsked
        /\ asked[u]["ready"] \in 0..MaxAsked
    BY <2>1 DEF GameTypeOK
  <2>3. asked[u][kind] + 1 \in 0..MaxAsked
    BY <2>1, <2>2, GameServerAssumption DEF UnderWay
  <2> QED BY <2>3 DEF SendOn, GameTypeOK
<1> QED BY <1>3, <1>4

(* What the answer to a request does with its user. *)
LEMMA AnswerFacts ==
  ASSUME GameTypeOK, NEW u \in Users, NEW succ \in BOOLEAN, NEW r \in Rooms \cup {0},
         \/ onNodeCreateRoomRsp(u, succ, r)
         \/ onNodeEnterRoomRsp(u, succ, r)
         \/ onNodeLeaveRoomRsp(u, succ)
         \/ onNodeReadyInRoomRsp(u)
  PROVE  UsersStay /\ crashed' \in BOOLEAN
<1>1. crashed' \in BOOLEAN
  <2>1. crashed' \in {TRUE, crashed}
    BY Zenon DEF onNodeCreateRoomRsp, onNodeEnterRoomRsp, onNodeLeaveRoomRsp, onNodeReadyInRoomRsp
  <2> QED BY <2>1 DEF GameTypeOK
<1>2. ASSUME NEW room \in Rooms \cup {0, NoRoom}, NEW ser \in 0..MaxNode, NEW busy \in BOOLEAN,
             Known(u),
             users' = [users EXCEPT ![u] =
                         [users[u] EXCEPT !.room = room, !.ser = ser, !.busy = busy]]
      PROVE  UsersStay
  <2>1. users[u] \in User
    BY <1>2 DEF GameTypeOK, Known
  <2>2. users'[u] \in User /\ users'[u].conn = users[u].conn /\ users'[u].cli = users[u].cli
    BY <1>2, <2>1 DEF User, UserRecord, GameTypeOK
  <2>3. \A v \in Users : v # u => users'[v] = users[v]
    BY <1>2 DEF GameTypeOK
  <2>4. users' \in [Users -> User \cup {NoUser}]
    BY <1>2, <2>2, <2>3 DEF GameTypeOK
  <2> QED BY <1>2, <2>2, <2>3, <2>4 DEF UsersStay, Known
<1>3. CASE users' = users
  BY <1>1, <1>3 DEF UsersStay, GameTypeOK
<1>4. ASSUME Known(u)
      PROVE  /\ users[u] \in User /\ users[u].room \in Rooms \cup {0, NoRoom}
             /\ users[u].ser \in 0..MaxNode /\ users[u].busy \in BOOLEAN /\ node \in 0..MaxNode
  BY <1>4 DEF GameTypeOK, Known, User, UserRecord
<1>5. CASE onNodeCreateRoomRsp(u, succ, r) /\ Known(u)
  <2> DEFINE room == IF succ THEN r ELSE users[u].room
             ser  == IF succ THEN node ELSE users[u].ser
             busy == succ /\ ~users[u].conn /\ users[u].busy
  <2>1. users' = [users EXCEPT ![u] = [users[u] EXCEPT !.room = room, !.ser = ser, !.busy = busy]]
    BY <1>5, <1>4 DEF onNodeCreateRoomRsp, GameTypeOK, User, UserRecord
  <2>2. room \in Rooms \cup {0, NoRoom} /\ ser \in 0..MaxNode /\ busy \in BOOLEAN
    BY <1>5, <1>4
  <2> HIDE DEF room, ser, busy
  <2> QED BY <1>1, <1>5, <2>1, <2>2, <1>2
<1>6. CASE onNodeEnterRoomRsp(u, succ, r) /\ Known(u)
  <2> DEFINE room == IF succ THEN r ELSE users[u].room
             ser  == IF succ THEN node ELSE users[u].ser
  <2>1. users' = [users EXCEPT ![u] = [users[u] EXCEPT !.room = room, !.ser = ser, !.busy = FALSE]]
    BY <1>6, <1>4 DEF onNodeEnterRoomRsp, GameTypeOK, User, UserRecord
  <2>2. room \in Rooms \cup {0, NoRoom} /\ ser \in 0..MaxNode
    BY <1>6, <1>4
  <2> HIDE DEF room, ser
  <2> QED BY <1>1, <1>6, <2>1, <2>2, <1>2
<1>7. CASE onNodeLeaveRoomRsp(u, succ) /\ Known(u)
  <2> DEFINE room == IF succ THEN NoRoom ELSE users[u].room
             ser  == users[u].ser
  <2>1. users' = [users EXCEPT ![u] = [users[u] EXCEPT !.room = room, !.ser = ser, !.busy = FALSE]]
    BY <1>7, <1>4 DEF onNodeLeaveRoomRsp, GameTypeOK, User, UserRecord
  <2>2. room \in Rooms \cup {0, NoRoom} /\ ser \in 0..MaxNode
    BY <1>7, <1>4
  <2> HIDE DEF room, ser
  <2> QED BY <1>1, <1>7, <2>1, <2>2, <1>2
<1>8. CASE onNodeReadyInRoomRsp(u) /\ Known(u)
  <2> DEFINE room == users[u].room
             ser  == node
  <2>1. users' = [users EXCEPT ![u] = [users[u] EXCEPT !.room = room, !.ser = ser, !.busy = FALSE]]
    BY <1>8, <1>4 DEF onNodeReadyInRoomRsp, GameTypeOK, User, UserRecord
  <2>2. room \in Rooms \cup {0, NoRoom} /\ ser \in 0..MaxNode
    BY <1>8, <1>4
  <2> HIDE DEF room, ser
  <2> QED BY <1>1, <1>8, <2>1, <2>2, <1>2
<1>9. CASE ~Known(u)
  BY <1>1, <1>3, <1>9 DEF onNodeCreateRoomRsp, onNodeEnterRoomRsp, onNodeLeaveRoomRsp,
                    onNodeReadyInRoomRsp
<1> QED BY <1>1, <1>5, <1>6, <1>7, <1>8, <1>9

-----------------------------------------------------------------------------
(* The sets of users at the gates cover users that stay where they were. *)
LEMMA StayCovers ==
  ASSUME GateSetsCover, UsersStay, net' = net, gameEnd' = gameEnd
  PROVE  GateSetsCover'
BY DEF GateSetsCover, UsersStay, Known

(* A login through a connected gate. *)
LEMMA LoginFacts ==
  ASSUME GameTypeOK, GateSetsCover, NEW g \in Gates, NEW id \in Ids, NEW u \in Users,
         gameEnd[g], gameEnd' = gameEnd, onGateLogin(g, id, u)
  PROVE  GameTypeOK' /\ GateSetsCover'
<1>1. CASE UNCHANGED <<users, net>>
  BY <1>1 DEF onGateLogin, GameTypeOK, GateSetsCover, Known
<1>2. CASE /\ users' = [users EXCEPT ![u] = LoggedIn(users[u], g, id)]
           /\ net' = NetAfterLogin(u, g)
  <2> DEFINE now == LoggedIn(users[u], g, id)
  <2>1. now \in User /\ now.conn /\ now.cli = g
    <3>1. users[u] \in User \cup {NoUser}
      BY DEF GameTypeOK
    <3> QED BY <3>1, LoggedInFacts
  <2>2. users'[u] = now /\ \A v \in Users : v # u => users'[v] = users[v]
    BY <1>2 DEF GameTypeOK
  <2>3. users' = [users EXCEPT ![u] = now]
    BY <1>2
  <2> HIDE DEF now
  <2>4. users' \in [Users -> User \cup {NoUser}]
    BY <2>1, <2>3 DEF GameTypeOK
  <2>5. net' \in [Gates -> SUBSET Users]
    BY <1>2 DEF GameTypeOK, NetAfterLogin
  <2>6. ASSUME NEW v \in Users, users'[v] # NoUser, users'[v].conn
        PROVE  users'[v].cli # 0 /\ v \in net'[users'[v].cli] /\ gameEnd'[users'[v].cli]
    <3>1. CASE v = u
      <4>1. users'[v].cli = g /\ g # 0
        BY <3>1, <2>1, <2>2, PeersAssumption
      <4>2. v \in net'[g]
        BY <1>2, <3>1 DEF NetAfterLogin
      <4> QED BY <4>1, <4>2
    <3>2. CASE v # u
      <4>1. users'[v] = users[v]
        BY <2>2, <3>2
      <4>2. users[v].cli # 0 /\ v \in net[users[v].cli] /\ gameEnd[users[v].cli]
        BY <4>1, <2>6 DEF GateSetsCover, Known
      <4>3. users[v].cli \in Gates
        <5>1. users[v] \in User
          BY <4>1, <2>6 DEF GameTypeOK
        <5> QED BY <4>2, <5>1 DEF User, UserRecord
      <4>4. v \in net'[users[v].cli]
        BY <1>2, <3>2, <4>2, <4>3 DEF NetAfterLogin
      <4> QED BY <4>1, <4>2, <4>4
    <3> QED BY <3>1, <3>2
  <2>7. GateSetsCover'
    BY <2>6 DEF GateSetsCover, Known
  <2> QED BY <2>4, <2>5, <2>7 DEF onGateLogin, GameTypeOK
<1> QED BY <1>1, <1>2 DEF onGateLogin

(* The game server is told that a client has gone. *)
LEMMA GoneFacts ==
  ASSUME GameTypeOK, NEW u \in Users, onUserDisConnect(u)
  PROVE  UsersStay /\ GameTypeOK'
<1>1. users[u] \in User \cup {NoUser} /\ Released(users[u]) \in {users[u], NoUser}
  BY DEF GameTypeOK, Released
<1>2. users' \in [Users -> User \cup {NoUser}]
  BY <1>1 DEF onUserDisConnect, GameTypeOK
<1>3. \A v \in Users : users'[v] \in {users[v], NoUser}
  BY <1>1 DEF onUserDisConnect, GameTypeOK
<1> QED BY <1>2, <1>3 DEF UsersStay, GameTypeOK, onUserDisConnect

(* The game server loses a gate, and takes no user of it for connected. *)
LEMMA GateLostFacts ==
  ASSUME GameTypeOK, GateSetsCover, gameEnd \in [Gates -> BOOLEAN], NEW g \in Gates,
         onGateServerDisConnected(g), gameEnd' = [gameEnd EXCEPT ![g] = FALSE]
  PROVE  GameTypeOK' /\ GateSetsCover'
<1>1. ASSUME NEW u \in Users
      PROVE  /\ users'[u] \in User \cup {NoUser}
             /\ users'[u] = users[u] \/ users'[u] = NoUser \/ ~users'[u].conn
             /\ u \in net[g] /\ users'[u] # NoUser => ~users'[u].conn
  <2>1. CASE u \in net[g] /\ Known(u)
    <3>1. users[u] \in User
      BY <2>1 DEF GameTypeOK, Known
    <3>2. users'[u] = Released(Offline(users[u]))
      BY <2>1 DEF onGateServerDisConnected
    <3>3. Offline(users[u]) \in User /\ ~Offline(users[u]).conn
      BY <3>1, OfflineFacts
    <3>4. users'[u] \in {Offline(users[u]), NoUser}
      BY <3>2 DEF Released
    <3> QED BY <3>3, <3>4
  <2>2. CASE ~(u \in net[g] /\ Known(u))
    BY <2>2 DEF onGateServerDisConnected, GameTypeOK, Known
  <2> QED BY <2>1, <2>2
<1>2. users' \in [Users -> User \cup {NoUser}]
  BY <1>1 DEF onGateServerDisConnected
<1>3. net' \in [Gates -> SUBSET Users]
  BY DEF onGateServerDisConnected, GameTypeOK
<1>4. ASSUME NEW u \in Users, users'[u] # NoUser, users'[u].conn
      PROVE  users'[u].cli # 0 /\ u \in net'[users'[u].cli] /\ gameEnd'[users'[u].cli]
  <2>1. users'[u] = users[u] /\ u \notin net[g]
    BY <1>1, <1>4
  <2>2. users[u].cli # 0 /\ u \in net[users[u].cli] /\ gameEnd[users[u].cli]
    BY <2>1, <1>4 DEF GateSetsCover, Known
  <2>3. users[u].cli \in Gates
    <3>1. users[u] \in User
      BY <2>1, <1>4 DEF GameTypeOK
    <3> QED BY <2>2, <3>1 DEF User, UserRecord
  <2>4. users[u].cli # g
    BY <2>1, <2>2
  <2>5. net'[users[u].cli] = net[users[u].cli] /\ gameEnd'[users[u].cli] = gameEnd[users[u].cli]
    BY <2>3, <2>4 DEF onGateServerDisConnected, GameTypeOK
  <2> QED BY <2>1, <2>2, <2>5
<1>5. GateSetsCover'
  BY <1>4 DEF GateSetsCover, Known
<1> QED BY <1>2, <1>3, <1>5 DEF GameTypeOK, onGateServerDisConnected

(* What TakeOverLeavesTheRoom says of a step. *)
TakeOver ==
    \A u \in Users :
        LET old == users[u]
            now == users'[u]
        IN  old # NoUser /\ now # NoUser /\ old.conn /\ now.conn /\ old.cli # now.cli
                => now.room = NoRoom /\ (now.busy => old.busy)

(* A user that stays where it was is not taken over. *)
LEMMA StayTakesNone ==
  ASSUME UsersStay
  PROVE  TakeOver
BY DEF UsersStay, TakeOver

(* A login may take over its own user only. *)
LEMMA LoginTakesOver ==
  ASSUME GameTypeOK, NEW g \in Gates, NEW id \in Ids, NEW u \in Users, onGateLogin(g, id, u)
  PROVE  TakeOver
<1>1. CASE users' = users
  BY <1>1 DEF TakeOver
<1>2. CASE users' = [users EXCEPT ![u] = LoggedIn(users[u], g, id)]
  <2> DEFINE now == LoggedIn(users[u], g, id)
  <2>1. users'[u] = now /\ \A v \in Users : v # u => users'[v] = users[v]
    BY <1>2 DEF GameTypeOK
  <2>2. ASSUME users[u] # NoUser, users[u].conn
        PROVE  now.room = NoRoom /\ (now.busy => users[u].busy)
    <3>1. users[u] \in User
      BY <2>2 DEF GameTypeOK
    <3> QED BY <2>2, <3>1, TakeOverFacts
  <2> HIDE DEF now
  <2> QED BY <2>1, <2>2 DEF TakeOver
<1> QED BY <1>1, <1>2 DEF onGateLogin

(* A room request of a client. *)
LEMMA RequestFacts ==
  ASSUME GameTypeOK, NEW u \in Users, NEW id \in Ids, NEW g \in Gates, UnderWay(u) < MaxAsked,
         \/ onGateCreateRoomReq(id, u)
         \/ \E kind \in RoomKinds, r \in Rooms \cup {0} : onGateRoomReq(kind, g, id, u, r)
  PROVE  UsersStay /\ GameTypeOK' /\ net' = net
<1>1. CASE UNCHANGED <<users, asked>> /\ crashed' \in {TRUE, crashed}
           /\ UNCHANGED <<net, node, nodes>>
  BY <1>1 DEF UsersStay, GameTypeOK
<1>2. ASSUME Known(u), NEW kind \in Kinds, SendOn(u, kind, id), crashed' = crashed,
             UNCHANGED <<net, node, nodes>>
      PROVE  UsersStay /\ GameTypeOK' /\ net' = net
  <2>1. UsersStay /\ asked' \in [Users -> [Kinds -> 0..MaxAsked]]
    BY <1>2, SendOnFacts
  <2> QED BY <1>2, <2>1 DEF UsersStay, GameTypeOK
<1>3. CASE onGateCreateRoomReq(id, u)
  <2>1. CASE Known(u)
    <3>1. "create" \in Kinds /\ SendOn(u, "create", id)
          /\ crashed' = crashed /\ UNCHANGED <<net, node, nodes>>
      BY <1>3, <2>1 DEF onGateCreateRoomReq, Kinds
    <3> QED BY <2>1, <3>1, <1>2
  <2>2. CASE ~Known(u)
    BY <1>1, <1>3, <2>2 DEF onGateCreateRoomReq, Crash
  <2> QED BY <2>1, <2>2
<1>4. ASSUME NEW kind \in RoomKinds, NEW r \in Rooms \cup {0}, onGateRoomReq(kind, g, id, u, r)
      PROVE  UsersStay /\ GameTypeOK' /\ net' = net
  <2>1. kind \in Kinds /\ crashed' = crashed /\ UNCHANGED <<net, node, nodes>>
    BY <1>4 DEF onGateRoomReq, Kinds
  <2>2. UNCHANGED <<users, asked>> \/ (Known(u) /\ SendOn(u, kind, id))
    BY <1>4 DEF onGateRoomReq
  <2>3. CASE UNCHANGED <<users, asked>>
    BY <1>1, <2>1, <2>3
  <2>4. CASE Known(u) /\ SendOn(u, kind, id)
    BY <1>2, <2>1, <2>4
  <2> QED BY <2>2, <2>3, <2>4
<1> QED BY <1>3, <1>4

(* A step of the node server's side. *)
LEMMA NodeFacts ==
  ASSUME GameTypeOK, NodeNext
  PROVE  UsersStay /\ GameTypeOK' /\ net' = net
<1>1. ASSUME NEW u \in Users, NEW kind \in Kinds, NodeAnswers(u, kind)
      PROVE  UsersStay /\ GameTypeOK' /\ net' = net
  <2>1. UsersStay /\ crashed' \in BOOLEAN
    <3>1. CASE UNCHANGED <<users, crashed>>
      BY <3>1 DEF UsersStay, GameTypeOK
    <3>2. CASE NodeCannotSend(u, kind)
      <4>1. \/ onNodeCreateRoomRsp(u, FALSE, 0)
            \/ onNodeEnterRoomRsp(u, FALSE, 0)
            \/ onNodeLeaveRoomRsp(u, FALSE)
            \/ onNodeReadyInRoomRsp(u)
        BY <3>2, Zenon DEF NodeCannotSend
      <4>2. FALSE \in BOOLEAN /\ 0 \in Rooms \cup {0}
        OBVIOUS
      <4> QED BY <4>1, <4>2, AnswerFacts
    <3>3. CASE NodeRelays(u, kind)
      <4>1. PICK succ \in BOOLEAN :
               \/ \E r \in Rooms : onNodeCreateRoomRsp(u, succ, r)
               \/ onNodeEnterRoomRsp(u, succ, 0)
               \/ onNodeReadyInRoomRsp(u)
        BY <3>3, Zenon DEF NodeRelays
      <4>2. 0 \in Rooms \cup {0} /\ Rooms \subseteq Rooms \cup {0}
        OBVIOUS
      <4>3. CASE \E r \in Rooms : onNodeCreateRoomRsp(u, succ, r)
        BY <4>2, <4>3, AnswerFacts
      <4>4. CASE onNodeEnterRoomRsp(u, succ, 0) \/ onNodeReadyInRoomRsp(u)
        BY <4>2, <4>4, AnswerFacts
      <4> QED BY <4>1, <4>3, <4>4
    <3> QED BY <1>1, <3>1, <3>2, <3>3, Zenon DEF NodeAnswers
  <2>2. asked[u][kind] > 0 /\ Answered(u, kind) /\ UNCHANGED <<net, node, nodes>>
    BY <1>1, Zenon DEF NodeAnswers
  <2>3. asked' \in [Users -> [Kinds -> 0..MaxAsked]]
    <3>1. asked[u][kind] - 1 \in 0..MaxAsked
      BY <2>2, GameServerAssumption DEF GameTypeOK
    <3> QED BY <2>2, <3>1 DEF GameTypeOK, Answered
  <2> QED BY <2>1, <2>2, <2>3 DEF UsersStay, GameTypeOK
<1>2. CASE NodeLost
  <2>1. asked' \in [Users -> [Kinds -> 0..MaxAsked]] /\ node' \in 0..MaxNode /\ node' <= nodes
    BY <1>2, GameServerAssumption DEF NodeLost, GameTypeOK
  <2> QED BY <1>2, <2>1 DEF NodeLost, UsersStay, GameTypeOK
<1>3. CASE NodeConnects
  BY <1>3, GameServerAssumption DEF NodeConnects, UsersStay, GameTypeOK
<1> QED BY <1>1, <1>2, <1>3 DEF NodeNext

-----------------------------------------------------------------------------
(* What waits on the connections is of the gate it waits at. *)
LinksTyped ==
    /\ DOMAIN up = Gates /\ \A g \in Gates : up[g] \in Seq(UpMessage(g))
    /\ DOMAIN down = Gates /\ \A g \in Gates : down[g] \in Seq(ClientsOf(g))
    /\ gateEnd \in [Gates -> BOOLEAN] /\ gameEnd \in [Gates -> BOOLEAN]

(* What is sent waits last. *)
LEMMA SentFacts ==
  ASSUME LinksTyped, NEW g \in Gates, NEW m \in UpMessage(g)
  PROVE  DOMAIN SentUp(g, m) = Gates /\ \A h \in Gates : SentUp(g, m)[h] \in Seq(UpMessage(h))
<1>1. up[g] \in Seq(UpMessage(g))
  BY DEF LinksTyped
<1>2. Append(up[g], m) \in Seq(UpMessage(g))
  BY <1>1, AppendType
<1>3. SentUp(g, m) \in {up, [up EXCEPT ![g] = Append(@, m)]}
  BY DEF SentUp
<1> QED BY <1>2, <1>3 DEF LinksTyped

(* The three kinds of message are told apart. *)
LEMMA MessageFacts ==
  ASSUME NEW g \in Gates, NEW m \in UpMessage(g)
  PROVE  /\ m.type = "login" => m.client \in ClientsOf(g)
         /\ m.type = "request" => m.client \in ClientsOf(g)
         /\ m.type = "gone" => m.user \in Users
BY DEF UpMessage, Login, Gone, Request

(* A client of a gate has a number and an account. *)
LEMMA ClientFacts ==
  ASSUME NEW g \in Gates, NEW c \in ClientsOf(g)
  PROVE  c \in Clients /\ GateOf[c] = g /\ IdOf[c] \in Ids /\ AccountOf[c] \in Users
BY GateGameAssumption DEF ClientsOf

(* The game server handles a message. *)
LEMMA ReceiveFacts ==
  ASSUME GameTypeOK, GateSetsCover, LinksTyped, NEW g \in Gates, GameReceives(g)
  PROVE  GameTypeOK' /\ GateSetsCover' /\ LinksTyped' /\ TakeOver
<1> DEFINE m == Head(up[g])
<1>1. up[g] \in Seq(UpMessage(g)) /\ up[g] # << >> /\ gameEnd[g]
      /\ Handle(g, m) /\ gameEnd' = gameEnd /\ gateEnd' = gateEnd
      /\ up' = [up EXCEPT ![g] = Tail(@)]
  BY DEF GameReceives, LinksTyped
<1>2. m \in UpMessage(g) /\ Tail(up[g]) \in Seq(UpMessage(g))
  BY <1>1, HeadTailFacts
<1> HIDE DEF m
<1>3. DOMAIN up' = Gates /\ \A h \in Gates : up'[h] \in Seq(UpMessage(h))
  BY <1>1, <1>2 DEF LinksTyped
<1>4. CASE /\ m.type = "login"
           /\ onGateLogin(g, IdOf[m.client], AccountOf[m.client]) \/ UNCHANGED gameVars
           /\ down' = [down EXCEPT ![g] = IF gateEnd[g] THEN Append(@, m.client) ELSE @]
  <2>1. m.client \in ClientsOf(g) /\ IdOf[m.client] \in Ids /\ AccountOf[m.client] \in Users
    BY <1>2, <1>4, MessageFacts, ClientFacts
  <2>2. ASSUME UNCHANGED gameVars
        PROVE  GameTypeOK' /\ GateSetsCover' /\ TakeOver
    BY <1>1, <2>2 DEF gameVars, GameTypeOK, GateSetsCover, Known, TakeOver
  <2>3. ASSUME onGateLogin(g, IdOf[m.client], AccountOf[m.client])
        PROVE  GameTypeOK' /\ GateSetsCover' /\ TakeOver
    BY <1>1, <2>1, <2>3, LoginFacts, LoginTakesOver
  <2>4. GameTypeOK' /\ GateSetsCover' /\ TakeOver
    BY <1>4, <2>2, <2>3
  <2>5. DOMAIN down' = Gates /\ \A h \in Gates : down'[h] \in Seq(ClientsOf(h))
    <3>1. down[g] \in Seq(ClientsOf(g))
      BY DEF LinksTyped
    <3>2. Append(down[g], m.client) \in Seq(ClientsOf(g))
      BY <2>1, <3>1, AppendType
    <3> QED BY <1>4, <3>2 DEF LinksTyped
  <2> QED BY <1>1, <1>3, <2>4, <2>5 DEF LinksTyped
<1>5. CASE m.type = "gone" /\ onUserDisConnect(m.user) /\ UNCHANGED down
  <2>1. UsersStay /\ GameTypeOK' /\ net' = net
    BY <1>2, <1>5, MessageFacts, GoneFacts DEF onUserDisConnect
  <2> QED BY <1>1, <1>3, <1>5, <2>1, StayCovers, StayTakesNone DEF LinksTyped
<1>6. CASE /\ m.type = "request"
           /\ UnderWay(AccountOf[m.client]) < MaxAsked
           /\ \/ onGateCreateRoomReq(IdOf[m.client], AccountOf[m.client])
              \/ \E kind \in RoomKinds, r \in Rooms \cup {0} :
                    onGateRoomReq(kind, g, IdOf[m.client], AccountOf[m.client], r)
           /\ UNCHANGED down
  <2>1. m.client \in ClientsOf(g) /\ IdOf[m.client] \in Ids /\ AccountOf[m.client] \in Users
    BY <1>2, <1>6, MessageFacts, ClientFacts
  <2>2. UsersStay /\ GameTypeOK' /\ net' = net
    BY <1>6, <2>1, RequestFacts
  <2> QED BY <1>1, <1>3, <1>6, <2>2, StayCovers, StayTakesNone DEF LinksTyped
<1> QED BY <1>1, <1>4, <1>5, <1>6 DEF Handle

-----------------------------------------------------------------------------
(* The game server's side is left alone. *)
LEMMA GameIdle ==
  ASSUME GameTypeOK, GateSetsCover, UNCHANGED gameVars, gameEnd' = gameEnd
  PROVE  GameTypeOK' /\ GateSetsCover'
BY DEF gameVars, GameTypeOK, GateSetsCover, Known

(* The gates' side is left alone, or connected again. *)
LEMMA GateIdle ==
  ASSUME GateTypeOK, PairedClients, PairingsAgree, UNCHANGED gateVars,
         \A g \in Gates : gateEnd[g] => gateEnd'[g]
  PROVE  GateTypeOK' /\ PairedClients' /\ PairingsAgree'
BY GateServerAssumption DEF gateVars, GateTypeOK, PairedClients, PairingsAgree, IsOpen

(* A gate handles the answer to a login. *)
LEMMA AnswerToLogin ==
  ASSUME IInv, NEW g \in Gates, GateReceives(g)
  PROVE  IInv'
<1> DEFINE c == Head(down[g])
<1>1. LinksTyped /\ GameTypeOK /\ GateTypeOK
  BY DEF IInv, TypeOK, LinksTyped
<1>2. /\ down[g] \in Seq(ClientsOf(g)) /\ down[g] # << >> /\ gateEnd[g]
      /\ onGameServerLogin(c, AccountOf[c]) /\ down' = [down EXCEPT ![g] = Tail(@)]
      /\ UNCHANGED <<gameVars, up, gateEnd, gameEnd>>
  BY <1>1 DEF GateReceives, LinksTyped
<1>3. c \in ClientsOf(g) /\ Tail(down[g]) \in Seq(ClientsOf(g))
  BY <1>2, HeadTailFacts
<1> HIDE DEF c
<1>4. c \in Clients /\ GateOf[c] = g /\ AccountOf[c] \in Users
  BY <1>3, ClientFacts
<1>5. LinksTyped'
  BY <1>1, <1>2, <1>3 DEF LinksTyped
<1>6. GateTypeOK' /\ conn' = conn /\ points' = [points EXCEPT ![g] = @ \cup {c}]
  BY <1>1, <1>2, <1>4 DEF onGameServerLogin, GateTypeOK
<1>7. \A d \in Clients : d # c => paired'[d] = paired[d] /\ account'[d] = account[d]
  BY <1>1, <1>2 DEF onGameServerLogin, GateTypeOK
<1>8. PairedClients'
  <2>1. paired'[c] => account'[c] \in Users /\ conn'[c] # "new"
    BY <1>1, <1>2, <1>4 DEF onGameServerLogin, GateTypeOK, IInv, PairedClients, IsOpen
  <2> QED BY <1>6, <1>7, <2>1 DEF IInv, PairedClients
<1>9. PairingsAgree'
  <2>1. gateEnd'[g] /\ c \in points'[g]
    BY <1>1, <1>2, <1>6 DEF GateTypeOK
  <2>2. \A d \in Clients : points[GateOf[d]] \subseteq points'[GateOf[d]]
    BY <1>1, <1>6, GateServerAssumption DEF GateTypeOK
  <2>3. ASSUME NEW d \in Clients, d # c, IsOpen(d)', paired'[d]
        PROVE  gateEnd'[GateOf[d]] /\ d \in points'[GateOf[d]]
    BY <1>2, <1>6, <1>7, <2>2, <2>3 DEF IInv, PairingsAgree, IsOpen
  <2> QED BY <1>4, <2>1, <2>3 DEF PairingsAgree
<1>10. GameTypeOK' /\ GateSetsCover'
  BY <1>1, <1>2, GameIdle DEF IInv
<1> QED BY <1>5, <1>6, <1>8, <1>9, <1>10 DEF IInv, TypeOK, LinksTyped

(* A gate loses the game server, and stops every client it has paired. *)
LEMMA GameLostFacts ==
  ASSUME IInv, NEW g \in Gates, GateLosesGame(g)
  PROVE  IInv'
<1>1. LinksTyped /\ GameTypeOK /\ GateTypeOK
  BY DEF IInv, TypeOK, LinksTyped
<1>2. /\ ServerDisConnected(g) /\ gateEnd' = [gateEnd EXCEPT ![g] = FALSE]
      /\ down' = [down EXCEPT ![g] = << >>] /\ UNCHANGED <<gameVars, up, gameEnd>>
  BY DEF GateLosesGame
<1>3. LinksTyped'
  BY <1>1, <1>2 DEF LinksTyped
<1>4. GateTypeOK'
  BY <1>1, <1>2 DEF ServerDisConnected, GateTypeOK
<1>5. ASSUME NEW c \in Clients
      PROVE  /\ paired'[c] => paired[c]
             /\ conn'[c] = "new" => conn[c] = "new"
             /\ conn'[c] = "open" => conn[c] = "open" /\ c \notin points[g]
  BY <1>1, <1>2 DEF ServerDisConnected, IsOpen
<1>6. PairedClients'
  BY <1>2, <1>5 DEF ServerDisConnected, IInv, PairedClients
<1>7. ASSUME NEW c \in Clients, conn'[c] = "open", paired'[c]
      PROVE  gateEnd'[GateOf[c]] /\ c \in points'[GateOf[c]]
  <2>1. gateEnd[GateOf[c]] /\ c \in points[GateOf[c]] /\ GateOf[c] # g
    BY <1>5, <1>7 DEF IInv, PairingsAgree, IsOpen
  <2> QED BY <1>1, <1>2, <2>1, GateServerAssumption DEF ServerDisConnected, GateTypeOK, LinksTyped
<1>8. PairingsAgree'
  BY <1>7 DEF PairingsAgree, IsOpen
<1>9. GameTypeOK' /\ GateSetsCover'
  BY <1>1, <1>2, GameIdle DEF IInv
<1> QED BY <1>3, <1>4, <1>6, <1>8, <1>9 DEF IInv, TypeOK, LinksTyped

(* A client connects: it has not been paired before. *)
LEMMA ConnectFacts ==
  ASSUME IInv, NEW c \in Clients, ClientConnects(c)
  PROVE  IInv'
<1>1. LinksTyped /\ GameTypeOK /\ GateTypeOK
  BY DEF IInv, TypeOK, LinksTyped
<1>2. onConnected(c) /\ UNCHANGED <<gameVars, linkVars>> /\ ~paired[c]
  BY <1>1 DEF ClientConnects, onConnected, IInv, PairedClients
<1>3. LinksTyped' /\ GateTypeOK'
  BY <1>1, <1>2 DEF LinksTyped, linkVars, onConnected, GateTypeOK
<1>4. PairedClients' /\ PairingsAgree'
  BY <1>1, <1>2 DEF linkVars, onConnected, GateTypeOK, IInv, PairedClients, PairingsAgree, IsOpen
<1>5. GameTypeOK' /\ GateSetsCover'
  BY <1>1, <1>2, GameIdle DEF IInv, linkVars
<1> QED BY <1>3, <1>4, <1>5 DEF IInv, TypeOK, LinksTyped

(* A client sends a message to the game server. *)
LEMMA SendFacts ==
  ASSUME IInv, NEW c \in Clients, ClientLogsIn(c) \/ ClientAsks(c)
  PROVE  IInv'
<1>1. LinksTyped /\ GameTypeOK /\ GateTypeOK
  BY DEF IInv, TypeOK, LinksTyped
<1>2. PICK m \in {Login(c), Request(c)} :
         up' = SentUp(GateOf[c], m) /\ UNCHANGED <<gameVars, gateVars, down, gateEnd, gameEnd>>
  BY DEF ClientLogsIn, ClientAsks
<1>3. GateOf[c] \in Gates /\ m \in UpMessage(GateOf[c])
  BY GateServerAssumption DEF UpMessage, ClientsOf
<1>4. LinksTyped'
  BY <1>1, <1>2, <1>3, SentFacts DEF LinksTyped
<1>5. GateTypeOK' /\ PairedClients' /\ PairingsAgree'
  BY <1>1, <1>2, GateIdle DEF IInv
<1>6. GameTypeOK' /\ GateSetsCover'
  BY <1>1, <1>2, GameIdle DEF IInv
<1> QED BY <1>4, <1>5, <1>6 DEF IInv, TypeOK, LinksTyped

(* A client goes. *)
LEMMA LeaveFacts ==
  ASSUME IInv, NEW c \in Clients, ClientGoes(c)
  PROVE  IInv'
<1>1. LinksTyped /\ GameTypeOK /\ GateTypeOK
  BY DEF IInv, TypeOK, LinksTyped
<1>2. /\ ClientDisConnected(c)
      /\ up' = IF paired[c] THEN SentUp(GateOf[c], Gone(account[c])) ELSE up
      /\ UNCHANGED <<gameVars, down, gateEnd, gameEnd>>
  BY DEF ClientGoes
<1>3. LinksTyped'
  <2>1. CASE paired[c]
    <3>1. GateOf[c] \in Gates /\ Gone(account[c]) \in UpMessage(GateOf[c])
      BY <2>1, GateServerAssumption DEF IInv, PairedClients, UpMessage
    <3> QED BY <1>1, <1>2, <2>1, <3>1, SentFacts DEF LinksTyped
  <2>2. CASE ~paired[c]
    BY <1>1, <1>2, <2>2 DEF LinksTyped
  <2> QED BY <2>1, <2>2
<1>4. /\ GateTypeOK' /\ conn' = [conn EXCEPT ![c] = "closed"] /\ UNCHANGED <<paired, account>>
      /\ points' \in {points, [points EXCEPT ![GateOf[c]] = @ \ {c}]}
  BY <1>1, <1>2, GateServerAssumption DEF ClientDisConnected, GateTypeOK
<1>5. PairedClients'
  BY <1>1, <1>4 DEF GateTypeOK, IInv, PairedClients
<1>6. ASSUME NEW d \in Clients, conn'[d] = "open", paired'[d]
      PROVE  gateEnd'[GateOf[d]] /\ d \in points'[GateOf[d]]
  <2>1. d # c /\ conn[d] = "open" /\ paired[d]
    BY <1>1, <1>4, <1>6 DEF GateTypeOK
  <2>2. gateEnd[GateOf[d]] /\ d \in points[GateOf[d]] /\ GateOf[d] \in Gates
    BY <2>1, GateServerAssumption DEF IInv, PairingsAgree, IsOpen
  <2> QED BY <1>1, <1>2, <1>4, <2>1, <2>2 DEF GateTypeOK
<1>7. PairingsAgree'
  BY <1>6 DEF PairingsAgree, IsOpen
<1>8. GameTypeOK' /\ GateSetsCover'
  BY <1>1, <1>2, GameIdle DEF IInv
<1> QED BY <1>3, <1>4, <1>5, <1>7, <1>8 DEF IInv, TypeOK, LinksTyped

-----------------------------------------------------------------------------
(* The steps of the system. *)
Steps ==
    \/ \E c \in Clients : ClientConnects(c)
    \/ \E c \in Clients : ClientLogsIn(c) \/ ClientAsks(c)
    \/ \E c \in Clients : ClientGoes(c)
    \/ \E g \in Gates : GameReceives(g)
    \/ \E g \in Gates : GateReceives(g)
    \/ \E g \in Gates : GameLosesGate(g)
    \/ \E g \in Gates : GateLosesGame(g)
    \/ \E g \in Gates : Reconnect(g)
    \/ NodeNext /\ UNCHANGED <<gateVars, linkVars>>
    \/ UNCHANGED vars

(* They are all the steps there are. *)
LEMMA NextIsSteps == [Next]_vars => Steps
BY Zenon DEF Next, Steps

(* The invariant holds at first. *)
LEMMA InvInit == Init => IInv
<1> SUFFICES ASSUME Init PROVE IInv
  OBVIOUS
<1>1. GameTypeOK
  <2>1. 0 \in 0..MaxNode /\ 0 \in 0..MaxAsked
    BY GameServerAssumption
  <2>2. users \in [Users -> User \cup {NoUser}] /\ net \in [Gates -> SUBSET Users]
    BY DEF Init, GameInit
  <2>3. node \in 0..MaxNode /\ nodes \in 0..MaxNode /\ node <= nodes
    BY <2>1 DEF Init, GameInit
  <2>4. asked \in [Users -> [Kinds -> 0..MaxAsked]] /\ crashed \in BOOLEAN
    BY <2>1 DEF Init, GameInit
  <2> QED BY <2>2, <2>3, <2>4 DEF GameTypeOK
<1>2. GateTypeOK
  BY DEF Init, GateInit, GateTypeOK
<1>3. LinksTyped
  BY DEF Init, LinksTyped
<1>4. GateSetsCover
  BY DEF Init, GameInit, GateSetsCover, Known
<1>5. PairedClients /\ PairingsAgree
  BY DEF Init, GateInit, PairedClients, PairingsAgree
<1> QED BY <1>1, <1>2, <1>3, <1>4, <1>5 DEF IInv, TypeOK, LinksTyped

(* Every step keeps the invariant, and takes over a user as it should. *)
LEMMA InvStep == IInv /\ [Next]_vars => IInv' /\ TakeOver
<1> SUFFICES ASSUME IInv, Steps PROVE IInv' /\ TakeOver
  BY NextIsSteps
<1>1. LinksTyped /\ GameTypeOK /\ GateTypeOK /\ GateSetsCover /\ PairedClients /\ PairingsAgree
  BY DEF IInv, TypeOK, LinksTyped
<1>2. users' = users => TakeOver
  BY DEF TakeOver
<1>3. ASSUME NEW c \in Clients, ClientConnects(c) PROVE IInv' /\ TakeOver
  BY <1>2, <1>3, ConnectFacts DEF ClientConnects, gameVars
<1>4. ASSUME NEW c \in Clients, ClientLogsIn(c) \/ ClientAsks(c) PROVE IInv' /\ TakeOver
  BY <1>2, <1>4, SendFacts DEF ClientLogsIn, ClientAsks, gameVars
<1>5. ASSUME NEW c \in Clients, ClientGoes(c) PROVE IInv' /\ TakeOver
  BY <1>2, <1>5, LeaveFacts DEF ClientGoes, gameVars
<1>6. ASSUME NEW g \in Gates, GameReceives(g) PROVE IInv' /\ TakeOver
  <2>1. GameTypeOK' /\ GateSetsCover' /\ LinksTyped' /\ TakeOver
    BY <1>1, <1>6, ReceiveFacts
  <2>2. GateTypeOK' /\ PairedClients' /\ PairingsAgree'
    BY <1>1, <1>6, GateIdle DEF GameReceives
  <2> QED BY <2>1, <2>2 DEF IInv, TypeOK, LinksTyped
<1>7. ASSUME NEW g \in Gates, GateReceives(g) PROVE IInv' /\ TakeOver
  BY <1>2, <1>7, AnswerToLogin DEF GateReceives, gameVars
<1>8. ASSUME NEW g \in Gates, GameLosesGate(g) PROVE IInv' /\ TakeOver
  <2>1. /\ onGateServerDisConnected(g) /\ gameEnd' = [gameEnd EXCEPT ![g] = FALSE]
        /\ up' = [up EXCEPT ![g] = << >>] /\ UNCHANGED <<gateVars, down, gateEnd>>
    BY <1>8 DEF GameLosesGate
  <2>2. GameTypeOK' /\ GateSetsCover'
    BY <1>1, <2>1, GateLostFacts DEF LinksTyped
  <2>3. LinksTyped'
    BY <1>1, <2>1 DEF LinksTyped
  <2>4. GateTypeOK' /\ PairedClients' /\ PairingsAgree'
    BY <1>1, <2>1, GateIdle
  <2>5. TakeOver
    <3>1. ASSUME NEW u \in Users, users[u] # NoUser, users'[u] # NoUser, users'[u].conn
          PROVE  users'[u] = users[u]
      <4>1. users[u] \in User
        BY <1>1, <3>1 DEF GameTypeOK
      <4>2. ~Offline(users[u]).conn
        BY <4>1, OfflineFacts
      <4> QED BY <2>1, <3>1, <4>2 DEF onGateServerDisConnected, Released
    <3> QED BY <3>1 DEF TakeOver
  <2> QED BY <2>2, <2>3, <2>4, <2>5 DEF IInv, TypeOK, LinksTyped
<1>9. ASSUME NEW g \in Gates, GateLosesGame(g) PROVE IInv' /\ TakeOver
  BY <1>2, <1>9, GameLostFacts DEF GateLosesGame, gameVars
<1>10. ASSUME NEW g \in Gates, Reconnect(g) PROVE IInv' /\ TakeOver
  <2>1. /\ gateEnd' = [gateEnd EXCEPT ![g] = TRUE] /\ gameEnd' = [gameEnd EXCEPT ![g] = TRUE]
        /\ UNCHANGED <<gameVars, gateVars, up, down>>
    BY <1>10 DEF Reconnect
  <2>2. LinksTyped' /\ (\A h \in Gates : gateEnd[h] => gateEnd'[h])
                    /\ (\A h \in Gates : gameEnd[h] => gameEnd'[h])
    BY <1>1, <2>1 DEF LinksTyped
  <2>3. GateTypeOK' /\ PairedClients' /\ PairingsAgree'
    BY <1>1, <2>1, <2>2, GateIdle
  <2>4. users' = users /\ net' = net /\ GameTypeOK'
    BY <1>1, <2>1 DEF gameVars, GameTypeOK
  <2>5. GateSetsCover'
    <3>1. ASSUME NEW u \in Users, users[u] # NoUser, users[u].conn
          PROVE  users[u].cli # 0 /\ u \in net[users[u].cli] /\ gameEnd'[users[u].cli]
      <4>1. users[u] \in User
        BY <1>1, <3>1 DEF GameTypeOK
      <4>2. users[u].cli # 0 /\ u \in net[users[u].cli] /\ gameEnd[users[u].cli]
        BY <1>1, <3>1 DEF GateSetsCover, Known
      <4>3. users[u].cli \in Gates
        BY <4>1, <4>2 DEF User, UserRecord
      <4> QED BY <2>2, <4>2, <4>3
    <3> QED BY <2>4, <3>1 DEF GateSetsCover, Known
  <2> QED BY <1>2, <2>2, <2>3, <2>4, <2>5 DEF IInv, TypeOK, LinksTyped
<1>11. ASSUME NodeNext, UNCHANGED <<gateVars, linkVars>> PROVE IInv' /\ TakeOver
  <2>1. UsersStay /\ GameTypeOK' /\ net' = net
    BY <1>1, <1>11, NodeFacts
  <2>2. gameEnd' = gameEnd /\ gateEnd' = gateEnd /\ LinksTyped'
    BY <1>1, <1>11 DEF linkVars, LinksTyped
  <2>3. GateSetsCover' /\ TakeOver
    BY <1>1, <2>1, <2>2, StayCovers, StayTakesNone
  <2>4. GateTypeOK' /\ PairedClients' /\ PairingsAgree'
    BY <1>1, <1>11, <2>2, GateIdle
  <2> QED BY <2>1, <2>2, <2>3, <2>4 DEF IInv, TypeOK, LinksTyped
<1>12. ASSUME UNCHANGED vars PROVE IInv' /\ TakeOver
  <2>1. UNCHANGED gameVars /\ UNCHANGED gateVars /\ UNCHANGED linkVars
    BY <1>12 DEF vars, gameVars, gateVars, linkVars
  <2>2. LinksTyped'
    BY <1>1, <2>1 DEF linkVars, LinksTyped
  <2>3. GameTypeOK' /\ GateSetsCover'
    BY <1>1, <2>1, GameIdle DEF linkVars
  <2>4. GateTypeOK' /\ PairedClients' /\ PairingsAgree'
    BY <1>1, <2>1, GateIdle DEF linkVars
  <2>5. TakeOver
    BY <1>2, <2>1 DEF gameVars
  <2> QED BY <2>2, <2>3, <2>4, <2>5 DEF IInv, TypeOK, LinksTyped
<1> QED
  BY <1>3, <1>4, <1>5, <1>6, <1>7, <1>8, <1>9, <1>10, <1>11, <1>12, Zenon DEF Steps

(* The invariant holds always. *)
LEMMA Inv == Spec => []IInv
BY InvInit, InvStep, PTL DEF Spec

(***************************************************************************)
(* Every variable of the game server, the gates and the connections between *)
(* them has its type, whatever comes late or is lost.                       *)
(***************************************************************************)
THEOREM TypeCorrect == Spec => []TypeOK
<1>1. IInv => TypeOK
  BY DEF IInv
<1> QED BY <1>1, Inv, PTL

(***************************************************************************)
(* Every user that UserManager takes for connected is in the set that       *)
(* GameConnectionManager keeps for its gate, and the gate is connected:     *)
(* onGateServerDisConnected, which goes through that set, misses none.      *)
(***************************************************************************)
THEOREM GateSetsCorrect == Spec => []GateSetsCover
<1>1. IInv => GateSetsCover
  BY DEF IInv
<1> QED BY <1>1, Inv, PTL

(***************************************************************************)
(* Every open client connection that onGameServerLogin has paired is an end *)
(* point of the game server's connection, which the gate still has.         *)
(***************************************************************************)
THEOREM PairingsCorrect == Spec => []PairingsAgree
<1>1. IInv => PairingsAgree
  BY DEF IInv
<1> QED BY <1>1, Inv, PTL

(***************************************************************************)
(* onGateLogin takes a connected user over from another gate only into no   *)
(* room, and no other handler moves a connected user to another gate.       *)
(***************************************************************************)
THEOREM TakeOversLeaveTheRoom == Spec => TakeOverLeavesTheRoom
<1>1. IInv /\ [Next]_vars => [TakeOver]_vars
  BY InvStep
<1>2. Spec => [][TakeOver]_vars
  BY <1>1, Inv, PTL DEF Spec
<1> QED BY <1>2 DEF TakeOver, TakeOverLeavesTheRoom
=============================================================================

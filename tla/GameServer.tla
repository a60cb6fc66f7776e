----------------------------- MODULE GameServer -----------------------------
(***************************************************************************)
(* The users of a GameServer: UserManager, GameConnectionManager and the    *)
(* handlers of GateService and NodeService, one action per handler.  The    *)
(* NodeServer behind it keeps no state: it is the requests under way and    *)
(* what each of them may be answered with.                                  *)
(***************************************************************************)
EXTENDS Peers, Integers

CONSTANTS
    Ids,          \* the numbers a gate gives its clients' connections
    Rooms,        \* ids of rooms
    MaxNode,      \* bound on the connections to a node server in a run
    MaxAsked,     \* bound on the requests of one user under way
    CreateAnswered \* whether the answer to a create request ever comes

ASSUME GameServerAssumption ==
    /\ Ids \subseteq Nat \ {0}
    /\ Rooms \subseteq Nat \ {0}
    /\ MaxNode \in Nat /\ MaxAsked \in Nat
    /\ CreateAnswered \in BOOLEAN

NoRoom == -1
RoomKinds == {"leave", "ready"}
Kinds == RoomKinds \cup {"create"}

UserRecord == [conn : BOOLEAN, cli : Gates \cup {0}, gid : Ids \cup {0},
               ser : 0..MaxNode, room : Rooms \cup {0, NoRoom}, busy : BOOLEAN]
User == {usr \in UserRecord : usr.conn <=> usr.cli # 0}

VARIABLES
    users,      \* userMaps_ of UserManager
    net,        \* userMaps_ of GameConnectionManager
    node,       \* the connection to the node server, 0 without one
    nodes,      \* how many there have been
    asked,      \* the requests under way, by user and kind
    crashed     \* the process has followed a null pointer

gameVars == <<users, net, node, nodes, asked, crashed>>

GameInit ==
    /\ users = [u \in Users |-> NoUser]
    /\ net = [g \in Gates |-> {}]
    /\ node = 0
    /\ nodes = 0
    /\ asked = [u \in Users |-> [k \in Kinds |-> 0]]
    /\ crashed = FALSE

Known(u) == users[u] # NoUser

-----------------------------------------------------------------------------
(* Mutant of Released: a user in a room is kept, one that waits is not. *)
Released_InRoom(usr) == IF usr.room = NoRoom THEN NoUser ELSE usr

(***************************************************************************)
(* userDisConnected.  isBattle is never true, so only a user that is in no  *)
(* room and waits for the node is kept.  What is sent to the node has no    *)
(* handler there.                                                           *)
(***************************************************************************)
Released(usr) == IF usr.room = NoRoom /\ usr.busy THEN usr ELSE NoUser

(* Mutant of Offline: the user keeps the gate it came from. *)
Offline_KeepsGate(usr) == [usr EXCEPT !.conn = FALSE, !.gid = 0]

(* set_connected(false). *)
Offline(usr) == [usr EXCEPT !.conn = FALSE, !.cli = 0, !.gid = 0]

Online(usr, g, id) == [usr EXCEPT !.conn = TRUE, !.cli = g, !.gid = id]

NewUser(g, id) ==
    [conn |-> TRUE, cli |-> g, gid |-> id, ser |-> 0, room |-> NoRoom, busy |-> FALSE]

(* What is left of the user when it logs in from elsewhere. *)
Remaining(usr) ==
    IF usr = NoUser THEN NoUser
    ELSE IF usr.conn THEN Released(Offline(usr))
    ELSE usr

LoggedIn(usr, g, id) ==
    IF Remaining(usr) = NoUser THEN NewUser(g, id) ELSE Online(Remaining(usr), g, id)

SameConnection(usr, g, id) ==
    usr # NoUser /\ usr.conn /\ usr.cli = g /\ usr.gid = id

(* Mutant of NetAfterLogin: a user that was known is not added to the gate. *)
NetAfterLogin_OnlyNew(u, g) ==
    [net EXCEPT ![g] = IF Known(u) THEN @ ELSE @ \cup {u}]

NetAfterLogin(u, g) ==
    [h \in Gates |->
        (IF Known(u) /\ users[u].conn /\ users[u].cli = h THEN net[h] \ {u} ELSE net[h])
            \cup (IF h = g THEN {u} ELSE {})]

(* onGateLogin of an account that matches its name. *)
onGateLogin(g, id, u) ==
    /\ IF SameConnection(users[u], g, id) THEN UNCHANGED <<users, net>>
       ELSE /\ users' = [users EXCEPT ![u] = LoggedIn(users[u], g, id)]
            /\ net' = NetAfterLogin(u, g)
    /\ UNCHANGED <<node, nodes, asked, crashed>>

(* onUserDisConnect: it does not look whose connection has gone. *)
onUserDisConnect(u) ==
    /\ users' = IF Known(u) THEN [users EXCEPT ![u] = Released(users[u])] ELSE users
    /\ UNCHANGED <<net, node, nodes, asked, crashed>>

(* onGateServerDisConnected. *)
onGateServerDisConnected(g) ==
    /\ users' = [u \in Users |-> IF u \in net[g] /\ Known(u)
                                 THEN Released(Offline(users[u])) ELSE users[u]]
    /\ net' = [net EXCEPT ![g] = {}]
    /\ UNCHANGED <<node, nodes, asked, crashed>>

-----------------------------------------------------------------------------
(* A request is sent on, to the node server the user was served by if that  *)
(* connection is still there, to any otherwise, and nowhere without one.    *)
SendOn(u, kind, id) ==
    /\ users' = [users EXCEPT ![u].gid = id, ![u].busy = TRUE,
                              ![u].ser = IF @ = node THEN @ ELSE 0]
    /\ asked' = IF node = 0 THEN asked ELSE [asked EXCEPT ![u][kind] = @ + 1]

Crash ==
    /\ crashed' = TRUE
    /\ UNCHANGED <<users, asked>>

(* onGateCreateRoomReq, the handler of enter requests too.  The refusal of  *)
(* an unknown or busy user, or of another connection, does not return.      *)
onGateCreateRoomReq(id, u) ==
    /\ IF Known(u) THEN SendOn(u, "create", id) /\ UNCHANGED crashed ELSE Crash
    /\ UNCHANGED <<net, node, nodes>>

(* onGateLeaveRoomReq and onGateReadyInRoomReq; the gates send requests to  *)
(* choose a level as requests to be ready, so onGateChooseLevelReq and the  *)
(* replies that would come of it have nothing to do.                        *)
onGateRoomReq(kind, g, id, u, r) ==
    /\ IF Known(u) /\ users[u].cli = g /\ ~users[u].busy
             /\ users[u].room # NoRoom /\ users[u].room = r
       THEN SendOn(u, kind, id)
       ELSE UNCHANGED <<users, asked>>
    /\ UNCHANGED <<net, node, nodes, crashed>>

-----------------------------------------------------------------------------
Answered(u, kind) == asked' = [asked EXCEPT ![u][kind] = @ - 1]

(* onNodeCreateRoomRsp: the user is asserted, or followed, to be there. *)
onNodeCreateRoomRsp(u, succ, r) ==
    IF ~Known(u) THEN crashed' = TRUE /\ UNCHANGED users
    ELSE /\ users' = [users EXCEPT
                ![u].room = IF succ THEN r ELSE @,
                ![u].ser  = IF succ THEN node ELSE @,
                ![u].busy = succ /\ ~users[u].conn /\ @]
         /\ UNCHANGED crashed

(* onNodeEnterRoomRsp. *)
onNodeEnterRoomRsp(u, succ, r) ==
    IF ~Known(u) THEN crashed' = TRUE /\ UNCHANGED users
    ELSE /\ users' = [users EXCEPT
                ![u].room = IF succ THEN r ELSE @,
                ![u].ser  = IF succ THEN node ELSE @,
                ![u].busy = FALSE]
         /\ UNCHANGED crashed

(* onNodeLeaveRoomRsp. *)
onNodeLeaveRoomRsp(u, succ) ==
    /\ users' = IF ~Known(u) THEN users
                ELSE [users EXCEPT ![u].room = IF succ THEN NoRoom ELSE @, ![u].busy = FALSE]
    /\ UNCHANGED crashed

(* onNodeReadyInRoomRsp. *)
onNodeReadyInRoomRsp(u) ==
    /\ users' = IF ~Known(u) THEN users
                ELSE [users EXCEPT ![u].ser = node, ![u].busy = FALSE]
    /\ UNCHANGED crashed

(* The NodeServer has no room server to send the request to. *)
NodeCannotSend(u, kind) ==
    \/ kind = "create" /\ onNodeCreateRoomRsp(u, FALSE, 0)
    \/ kind = "leave" /\ onNodeLeaveRoomRsp(u, FALSE)
    \/ kind = "ready" /\ onNodeReadyInRoomRsp(u)

(***************************************************************************)
(* The NodeServer sends on the answer of a room server.  The answer to a    *)
(* leave request becomes one to an enter request, with no room set: 0.      *)
(***************************************************************************)
NodeRelays(u, kind) ==
    \E succ \in BOOLEAN :
        \/ \E r \in Rooms : kind = "create" /\ CreateAnswered /\ onNodeCreateRoomRsp(u, succ, r)
        \/ kind = "leave" /\ onNodeEnterRoomRsp(u, succ, 0)
        \/ kind = "ready" /\ onNodeReadyInRoomRsp(u)

(* A request under way is answered, or its answer is lost. *)
NodeAnswers(u, kind) ==
    /\ asked[u][kind] > 0
    /\ \/ NodeCannotSend(u, kind)
       \/ NodeRelays(u, kind)
       \/ UNCHANGED <<users, crashed>>
    /\ Answered(u, kind)
    /\ UNCHANGED <<net, node, nodes>>

(* onNodeServerDisConnected does nothing. *)
NodeLost ==
    /\ node # 0
    /\ node' = 0
    /\ asked' = [u \in Users |-> [k \in Kinds |-> 0]]
    /\ UNCHANGED <<users, net, nodes, crashed>>

NodeConnects ==
    /\ node = 0 /\ nodes < MaxNode
    /\ node' = nodes + 1
    /\ nodes' = nodes + 1
    /\ UNCHANGED <<users, net, asked, crashed>>

NodeNext ==
    \/ \E u \in Users, kind \in Kinds : NodeAnswers(u, kind)
    \/ NodeLost
    \/ NodeConnects

-----------------------------------------------------------------------------
GameTypeOK ==
    /\ users \in [Users -> User \cup {NoUser}]
    /\ net \in [Gates -> SUBSET Users]
    /\ node \in 0..MaxNode /\ nodes \in 0..MaxNode /\ node <= nodes
    /\ asked \in [Users -> [Kinds -> 0..MaxAsked]]
    /\ crashed \in BOOLEAN
=============================================================================

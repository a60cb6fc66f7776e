------------------------------ MODULE GateGame ------------------------------
(***************************************************************************)
(* Gate servers and a game server, joined by one TCP connection each: what  *)
(* one side has sent waits in order for the other, the two sides learn of   *)
(* the loss of a connection at different times, and a new connection is     *)
(* made when both have.                                                     *)
(***************************************************************************)
EXTENDS GameServer, GateServer, Sequences, FiniteSetsExt

CONSTANTS
    IdOf,        \* the number of each client's connection at its gate
    AccountOf,   \* the account each client logs in with
    MaxWaiting   \* bound on the messages that wait on all connections

ASSUME GateGameAssumption ==
    /\ IdOf \in [Clients -> Ids]
    /\ AccountOf \in [Clients -> Users]

VARIABLES
    up, down,           \* messages to and from the game server, by gate
    gateEnd, gameEnd    \* whether each side has the connection

linkVars == <<up, down, gateEnd, gameEnd>>
vars == <<users, net, node, nodes, asked, crashed, conn, paired, account, points,
          up, down, gateEnd, gameEnd>>

Init ==
    /\ GameInit
    /\ GateInit
    /\ up = [g \in Gates |-> << >>]
    /\ down = [g \in Gates |-> << >>]
    /\ gateEnd = [g \in Gates |-> TRUE]
    /\ gameEnd = [g \in Gates |-> TRUE]

Login(c) == [type |-> "login", client |-> c]
Gone(u) == [type |-> "gone", user |-> u]
Request(c) == [type |-> "request", client |-> c]

ClientsOf(g) == {c \in Clients : GateOf[c] = g}
UpMessage(g) ==
    {Login(c) : c \in ClientsOf(g)} \cup {Request(c) : c \in ClientsOf(g)}
        \cup {Gone(u) : u \in Users}

(* What a gate sends is lost unless both sides have the connection. *)
SentUp(g, m) ==
    IF gateEnd[g] /\ gameEnd[g] THEN [up EXCEPT ![g] = Append(@, m)] ELSE up

Waiting == MapThenSumSet(LAMBDA g : Len(up[g]) + Len(down[g]), Gates)
CanSend == Waiting < MaxWaiting
UnderWay(u) == asked[u]["create"] + asked[u]["leave"] + asked[u]["ready"]

-----------------------------------------------------------------------------
ClientConnects(c) ==
    /\ onConnected(c)
    /\ UNCHANGED <<gameVars, linkVars>>

(* onClientLogin, to the paired server or to any: there is one. *)
ClientLogsIn(c) ==
    /\ IsOpen(c) /\ CanSend
    /\ up' = SentUp(GateOf[c], Login(c))
    /\ UNCHANGED <<gameVars, gateVars, down, gateEnd, gameEnd>>

(***************************************************************************)
(* The five handlers of room requests: they go to the paired server only.   *)
(* What a request asks for is chosen when it is handled.                    *)
(***************************************************************************)
ClientAsks(c) ==
    /\ IsOpen(c) /\ paired[c] /\ CanSend
    /\ up' = SentUp(GateOf[c], Request(c))
    /\ UNCHANGED <<gameVars, gateVars, down, gateEnd, gameEnd>>

(* The game server is told of a client that goes if it is paired. *)
ClientGoes(c) ==
    /\ CanSend
    /\ ClientDisConnected(c)
    /\ up' = IF paired[c] THEN SentUp(GateOf[c], Gone(account[c])) ELSE up
    /\ UNCHANGED <<gameVars, down, gateEnd, gameEnd>>

(***************************************************************************)
(* The game server handles the next message of a gate.  A login is refused  *)
(* when the cache has no such account, and is answered all the same; so is  *)
(* a login that finds nothing to do.                                        *)
(***************************************************************************)
Handle(g, m) ==
    \/ /\ m.type = "login"
       /\ \/ onGateLogin(g, IdOf[m.client], AccountOf[m.client])
          \/ UNCHANGED gameVars
       /\ down' = [down EXCEPT ![g] = IF gateEnd[g] THEN Append(@, m.client) ELSE @]
    \/ /\ m.type = "gone"
       /\ onUserDisConnect(m.user)
       /\ UNCHANGED down
    \/ /\ m.type = "request"
       /\ UnderWay(AccountOf[m.client]) < MaxAsked
       /\ LET u == AccountOf[m.client]
              id == IdOf[m.client]
          IN  \/ onGateCreateRoomReq(id, u)
              \/ \E kind \in RoomKinds, r \in Rooms \cup {0} : onGateRoomReq(kind, g, id, u, r)
       /\ UNCHANGED down

GameReceives(g) ==
    /\ gameEnd[g] /\ up[g] # << >>
    /\ Handle(g, Head(up[g]))
    /\ up' = [up EXCEPT ![g] = Tail(@)]
    /\ UNCHANGED <<gateVars, gateEnd, gameEnd>>

GateReceives(g) ==
    /\ gateEnd[g] /\ down[g] # << >>
    /\ onGameServerLogin(Head(down[g]), AccountOf[Head(down[g])])
    /\ down' = [down EXCEPT ![g] = Tail(@)]
    /\ UNCHANGED <<gameVars, up, gateEnd, gameEnd>>

-----------------------------------------------------------------------------
(* The game server finds the connection of a gate closed. *)
GameLosesGate(g) ==
    /\ gameEnd[g]
    /\ onGateServerDisConnected(g)
    /\ gameEnd' = [gameEnd EXCEPT ![g] = FALSE]
    /\ up' = [up EXCEPT ![g] = << >>]
    /\ UNCHANGED <<gateVars, down, gateEnd>>

(* A gate finds the connection of the game server closed. *)
GateLosesGame(g) ==
    /\ gateEnd[g]
    /\ ServerDisConnected(g)
    /\ gateEnd' = [gateEnd EXCEPT ![g] = FALSE]
    /\ down' = [down EXCEPT ![g] = << >>]
    /\ UNCHANGED <<gameVars, up, gameEnd>>

Reconnect(g) ==
    /\ ~gateEnd[g] /\ ~gameEnd[g]
    /\ gateEnd' = [gateEnd EXCEPT ![g] = TRUE]
    /\ gameEnd' = [gameEnd EXCEPT ![g] = TRUE]
    /\ UNCHANGED <<gameVars, gateVars, up, down>>

Next ==
    /\ ~crashed
    /\ \/ \E c \in Clients : \/ ClientConnects(c) \/ ClientLogsIn(c)
                             \/ ClientAsks(c) \/ ClientGoes(c)
       \/ \E g \in Gates : \/ GameReceives(g) \/ GateReceives(g)
                           \/ GameLosesGate(g) \/ GateLosesGame(g) \/ Reconnect(g)
       \/ NodeNext /\ UNCHANGED <<gateVars, linkVars>>

Spec == Init /\ [][Next]_vars

(* TCP delivers what has been sent while the connection lasts. *)
FairSpec ==
    /\ Spec
    /\ \A g \in Gates : WF_vars(~crashed /\ GameReceives(g))
    /\ \A g \in Gates : WF_vars(~crashed /\ GateReceives(g))

-----------------------------------------------------------------------------
TypeOK ==
    /\ GameTypeOK
    /\ GateTypeOK
    /\ DOMAIN up = Gates /\ \A g \in Gates : up[g] \in Seq(UpMessage(g))
    /\ DOMAIN down = Gates /\ \A g \in Gates : down[g] \in Seq(ClientsOf(g))
    /\ gateEnd \in [Gates -> BOOLEAN] /\ gameEnd \in [Gates -> BOOLEAN]

(***************************************************************************)
(* Every user the game server takes for connected is in the set of its      *)
(* gate, whose connection is there: the loss of a gate, which goes through  *)
(* that set, misses none of them.  Logins, take-overs and losses of two     *)
(* gates change the user and the sets in every order.                       *)
(***************************************************************************)
GateSetsCover ==
    \A u \in Users :
        Known(u) /\ users[u].conn =>
            /\ users[u].cli # 0 /\ u \in net[users[u].cli] /\ gameEnd[users[u].cli]

(***************************************************************************)
(* Every client a gate has paired with the game server is an end point of   *)
(* that server, so that its loss stops them all, and no pairing outlives    *)
(* the connection, although answers to logins come late.                    *)
(***************************************************************************)
PairingsAgree ==
    \A c \in Clients :
        IsOpen(c) /\ paired[c] => gateEnd[GateOf[c]] /\ c \in points[GateOf[c]]

(***************************************************************************)
(* "The user is creating a room, for now the only possibility"              *)
(* (GateService.cpp:88): a user that is taken over from a login elsewhere   *)
(* and keeps its object is in no room.                                      *)
(***************************************************************************)
TakeOverLeavesTheRoom ==
    [][\A u \in Users :
        LET old == users[u]
            now == users'[u]
        IN  old # NoUser /\ now # NoUser /\ old.conn /\ now.conn /\ old.cli # now.cli
                => now.room = NoRoom /\ (now.busy => old.busy)]_vars

(***************************************************************************)
(* A login that has reached the connection is answered and the client       *)
(* paired, unless the client goes, the connection is lost or the game       *)
(* server is down.                                                          *)
(***************************************************************************)
LoginsAreAnswered ==
    \A c \in Clients :
        (\E i \in DOMAIN up[GateOf[c]] : up[GateOf[c]][i] = Login(c))
            ~> \/ paired[c] \/ ~IsOpen(c) \/ crashed
               \/ ~gateEnd[GateOf[c]] \/ ~gameEnd[GateOf[c]]

(***************************************************************************)
(* "This user does not exist, the request is illegal" (GateService.cpp:272):*)
(* a request of a user the game server does not know is refused.            *)
(***************************************************************************)
UnknownUsersAreRefused == ~crashed
=============================================================================

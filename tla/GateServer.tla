----------------------------- MODULE GateServer -----------------------------
(***************************************************************************)
(* The connections of the gate servers: ConnectionManager with the          *)
(* Connection of each client, paired with the game server it has logged in  *)
(* to, and the end points the Connection of that game server lists.  A gate *)
(* is named by its connection to the game server.  The id of a connection   *)
(* comes again only after 2^16 others, so each client here connects once.   *)
(***************************************************************************)
EXTENDS Peers

CONSTANTS
    Clients,      \* client connections
    GateOf        \* the gate of each

ASSUME GateServerAssumption == GateOf \in [Clients -> Gates]

VARIABLES
    conn,     \* connectionMap_: the state of each client's connection
    paired,   \* the end point of the connection is the game server
    account,  \* userId_ of the connection, NoUser for 0
    points    \* endpointsList_ of the game server's connection at each gate

gateVars == <<conn, paired, account, points>>

GateInit ==
    /\ conn = [c \in Clients |-> "new"]
    /\ paired = [c \in Clients |-> FALSE]
    /\ account = [c \in Clients |-> NoUser]
    /\ points = [g \in Gates |-> {}]

IsOpen(c) == conn[c] = "open"

(* onConnected of a client. *)
onConnected(c) ==
    /\ conn[c] = "new"
    /\ conn' = [conn EXCEPT ![c] = "open"]
    /\ UNCHANGED <<paired, account, points>>

(* Mutant of onGameServerLogin: a client that has gone is not listed, nor one that is there. *)
onGameServerLogin_NoPoint(c, u) ==
    /\ paired' = IF IsOpen(c) THEN [paired EXCEPT ![c] = TRUE] ELSE paired
    /\ account' = IF IsOpen(c) THEN [account EXCEPT ![c] = u] ELSE account
    /\ UNCHANGED <<conn, points>>

(* Mutant of onGameServerLogin: the client has to be an end point already. *)
onGameServerLogin_Listed(c, u) ==
    LET known == IsOpen(c) /\ c \in points[GateOf[c]]
    IN  /\ paired' = IF known THEN [paired EXCEPT ![c] = TRUE] ELSE paired
        /\ account' = IF known THEN [account EXCEPT ![c] = u] ELSE account
        /\ UNCHANGED <<conn, points>>

(* onGameServerLogin, whatever the answer says, of a client that may have gone. *)
onGameServerLogin(c, u) ==
    /\ paired' = IF IsOpen(c) THEN [paired EXCEPT ![c] = TRUE] ELSE paired
    /\ account' = IF IsOpen(c) THEN [account EXCEPT ![c] = u] ELSE account
    /\ points' = [points EXCEPT ![GateOf[c]] = @ \cup {c}]
    /\ UNCHANGED conn

(* onDisConnected of a client. *)
ClientDisConnected(c) ==
    /\ IsOpen(c)
    /\ conn' = [conn EXCEPT ![c] = "closed"]
    /\ points' = IF paired[c] THEN [points EXCEPT ![GateOf[c]] = @ \ {c}] ELSE points
    /\ UNCHANGED <<paired, account>>

(* onDisConnected of the game server: the clients it lists are stopped, each of  *)
(* which comes back to onDisConnected with its end point taken away.             *)
ServerDisConnected(g) ==
    /\ paired' = [c \in Clients |-> paired[c] /\ ~(c \in points[g] /\ IsOpen(c))]
    /\ conn' = [c \in Clients |-> IF c \in points[g] /\ IsOpen(c) THEN "closed" ELSE conn[c]]
    /\ points' = [points EXCEPT ![g] = {}]
    /\ UNCHANGED account

GateTypeOK ==
    /\ conn \in [Clients -> {"new", "open", "closed"}]
    /\ paired \in [Clients -> BOOLEAN]
    /\ account \in [Clients -> Users \cup {NoUser}]
    /\ points \in [Gates -> SUBSET Clients]
=============================================================================

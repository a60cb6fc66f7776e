-------------------------------- MODULE Peers --------------------------------
(* What the gate servers and the game server know of each other. *)
CONSTANTS
    Users,    \* account numbers
    NoUser,   \* no account, and no user object
    Gates     \* the connections between gate servers and the game server

ASSUME PeersAssumption == Users # {} /\ NoUser \notin Users /\ 0 \notin Gates
=============================================================================

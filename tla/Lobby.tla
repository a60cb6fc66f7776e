------------------------------- MODULE Lobby -------------------------------
(***************************************************************************)
(* What a game room promises its players, without lists, maps or counters: *)
(* numbered seats, one of them the owner's.  A player takes a free seat    *)
(* while the game has not started, may get up, and may declare itself      *)
(* ready; the owner starts the game, once, and only when every seat is     *)
(* taken and every other player is ready.  After that nobody moves.        *)
(***************************************************************************)
EXTENDS Naturals, FiniteSets

CONSTANTS
    Players,    \* who may sit
    Seats,      \* the numbered seats
    Empty,      \* no player
    NoSeat      \* nobody owns the lobby

VARIABLES
    sitting,    \* the player on each seat
    ready,      \* the seats whose player is ready
    owner,      \* the seat of the owner
    started     \* whether the game has been started

lobbyVars == <<sitting, ready, owner, started>>

Taken == {s \in Seats : sitting[s] # Empty}

LobbyTypeOK ==
    /\ sitting \in [Seats -> Players \cup {Empty}]
    /\ ready \subseteq Seats
    /\ owner \in Seats \cup {NoSeat}
    /\ started \in BOOLEAN

Init ==
    /\ sitting = [s \in Seats |-> Empty]
    /\ ready = {}
    /\ owner = NoSeat
    /\ started = FALSE

SitDown(p, s) ==
    /\ ~started
    /\ sitting[s] = Empty
    /\ sitting' = [sitting EXCEPT ![s] = p]
    /\ owner' = IF Taken = {} THEN s ELSE owner
    /\ UNCHANGED <<ready, started>>

(* When the owner gets up, somebody who stays owns the lobby. *)
GetUp(s) ==
    /\ ~started
    /\ sitting[s] # Empty
    /\ sitting' = [sitting EXCEPT ![s] = Empty]
    /\ ready' = ready \ {s}
    /\ IF owner # s THEN owner' = owner
       ELSE IF Taken = {s} THEN owner' = NoSeat
       ELSE owner' \in Taken \ {s}
    /\ UNCHANGED started

DeclareReady(s) ==
    /\ ~started
    /\ sitting[s] # Empty
    /\ s # owner
    /\ s \notin ready
    /\ ready' = ready \cup {s}
    /\ UNCHANGED <<sitting, owner, started>>

Start ==
    /\ ~started
    /\ owner \notin ready
    /\ Taken = Seats
    /\ Seats \ {owner} \subseteq ready
    /\ ready' = ready \cup {owner}
    /\ started' = TRUE
    /\ UNCHANGED <<sitting, owner>>

Next ==
    \/ \E p \in Players, s \in Seats : SitDown(p, s)
    \/ \E s \in Seats : GetUp(s)
    \/ \E s \in Seats : DeclareReady(s)
    \/ Start

Spec == Init /\ [][Next]_lobbyVars
=============================================================================

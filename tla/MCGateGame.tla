----------------------------- MODULE MCGateGame -----------------------------
(* One account and two gates with a client each, whose connections have the *)
(* same number.                                                             *)
EXTENDS GateGame, TLC

CONSTANTS g1, g2, c1, c2, u1

MCClients == {c1, c2}
MCGateOf == (c1 :> g1) @@ (c2 :> g2)
MCIdOf == (c1 :> 1) @@ (c2 :> 1)
MCAccountOf == [c \in MCClients |-> u1]
=============================================================================

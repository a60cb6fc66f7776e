----------------------------- MODULE MCSessions -----------------------------
(* Sessions with three objects and one host, or two objects and two hosts; *)
(* ids wrap in both.                                                       *)
EXTENDS Sessions

CONSTANTS o1, o2, o3, game, node, other

MCObjects == {o1, o2, o3}
MCTwoObjects == {o1, o2}
MCTypes == {game, node}
MCOneHost == <<"game">>
MCOneHostType == <<game>>
MCTwoHosts == <<"game", "node">>
MCTwoHostTypes == <<game, node>>

(* No action tells one object from another. *)
MCSymmetry == Permutations(MCObjects)
=============================================================================

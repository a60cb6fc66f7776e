----------------------------- MODULE MCOneRoom -----------------------------
(* Model-checking values for OneRoom: the accounts are interchangeable. *)
EXTENDS OneRoom, TLC

AccountSymmetry == Permutations(Users)
=============================================================================

--------------------------- MODULE MCRoomServer ---------------------------
(* Model-checking values for RoomServer: the accounts are interchangeable. *)
EXTENDS RoomServer, TLC

AccountSymmetry == Permutations(Users)
=============================================================================

-------------------------- MODULE MCAuthentication --------------------------
(* Two requests for one name and password, and one, r3, for a name that is  *)
(* not plain with another password.                                         *)
EXTENDS Authentication

CONSTANTS r1, r2, r3, alice, odd, p1, p2

MCNameOf == [r \in Requests |-> IF r = r3 THEN odd ELSE alice]
MCPasswdOf == [r \in Requests |-> IF r = r3 THEN p2 ELSE p1]
=============================================================================

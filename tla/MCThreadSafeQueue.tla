------------------------- MODULE MCThreadSafeQueue -------------------------
(***************************************************************************)
(* ThreadSafeQueue with two producers, two workers and two slots, for TLC.  *)
(***************************************************************************)
EXTENDS ThreadSafeQueue

CONSTANTS p1, p2, w1, w2, a, b
=============================================================================

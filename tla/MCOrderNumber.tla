--------------------------- MODULE MCOrderNumber ---------------------------
(***************************************************************************)
(* Model-checking instance of OrderNumber.                                 *)
(***************************************************************************)
EXTENDS OrderNumber, TLC

Symmetry == Permutations(Requests) \cup Permutations(Keys)
=============================================================================

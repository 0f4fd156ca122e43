--------------------------- MODULE MCTableSession ---------------------------
(***************************************************************************)
(* Model-checking instances of TableSession.                               *)
(***************************************************************************)
EXTENDS TableSession, TLC

Symmetry == Permutations(Requests) \cup Permutations(Sessions)
=============================================================================

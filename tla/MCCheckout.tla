----------------------------- MODULE MCCheckout -----------------------------
(***************************************************************************)
(* Model-checking instances of Checkout.                                   *)
(***************************************************************************)
EXTENDS Checkout, TLC

(* Requests are interchangeable, and so are line ids and fingerprints; only  *)
(* for runs without liveness.                                                *)
Symmetry == Permutations(Requests) \cup Permutations(Lines)
              \cup Permutations(Fingerprints)
=============================================================================

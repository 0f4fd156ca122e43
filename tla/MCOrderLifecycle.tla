-------------------------- MODULE MCOrderLifecycle --------------------------
(***************************************************************************)
(* Model-checking instances of OrderLifecycle.                             *)
(***************************************************************************)
EXTENDS OrderLifecycle

=============================================================================

--------------------------- MODULE MCMenuOptions ----------------------------
(***************************************************************************)
(* Model-checking instances of MenuOrdering: two options, one of them with  *)
(* two choices, the other with one.                                        *)
(***************************************************************************)
EXTENDS MenuOrdering, TLC

CONSTANTS A, B, a1, a2, b1

MCOptionOf == (a1 :> A) @@ (a2 :> A) @@ (b1 :> B)
MCPayloadStates == [c \in ChoiceRows |-> IF c = b1 THEN {"AVAILABLE", "SOLD_OUT"}
                                            ELSE {"AVAILABLE", "HIDDEN"}]
\* Bound: what follows on a menu that stale commits have broken is not explored;
\* that menu itself is still checked.
StillSound == TriggersRefer /\ TriggersAcyclic /\ \A g \in Options : SettingsSound(g)
Symmetry == Permutations(Requests) \cup Permutations({a1, a2})
=============================================================================

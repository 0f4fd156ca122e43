--------------------------- MODULE MCMenuRetention ---------------------------
(* Two menus and an upload, which both may get. *)
EXTENDS MenuRetention, TLC

CONSTANTS m1, m2, k1

Menu(state, at, k, ordered) ==
    [row |-> state, deletedAt |-> at, imageKey |-> k,
     ordered |-> ordered, options |-> ordered]

Stock(a, b, upload, objects) ==
    [day |-> 1, menu |-> (m1 :> a @@ m2 :> b),
     tmp |-> (k1 :> upload), bucket |-> objects]

\* The day after one menu was deleted, whose upload has expired: one that was
\* ordered and one that was not, next to another without an image or with the
\* same one; and a menu with a key of another form, and an upload to come.
MCStocks ==
    { Stock(Menu("here", 0, k1, ordered), Menu("here", None, k, FALSE),
            "expired", {k1} \X Variants) : ordered \in BOOLEAN, k \in {None, k1} }
    \cup
    { Stock(Menu("here", 0, Invalid, FALSE), Menu("absent", None, None, FALSE),
            "new", {}) }
=============================================================================

----------------------------- MODULE MCMenuOrder -----------------------------
(* Two categories with menus to move between them, and a menu with options. *)
EXTENDS MenuOrder, TLC

CONSTANTS q1, q2, q3, c1, c2

MCRequests == {q1, q2, q3}
MCConns == {c1, c2}
Symmetry == Permutations(MCRequests) \cup Permutations(MCConns)

Here(l, n) == [list |-> l, sortOrder |-> n, state |-> "live"]
In(l, s) == [list |-> l, sortOrder |-> 0, state |-> s]

\* Menus 11 and 12 in category 1, menu 13 in category 2, no options.
TwoCategories ==
    [x \in Rows |->
        CASE x \in {1, 2} -> Here(Store, 10 * x)
          [] x \in {11, 12} -> Here(1, 10 * (x - 10))
          [] x = 13 -> Here(2, 10)
          [] OTHER -> In(Store, "gone")]

\* Menu 11 with option 21 and its choice 31; one more of each can be created.
OneMenu ==
    [x \in Rows |->
        CASE x = 1 -> Here(Store, 10)
          [] x = 11 -> Here(1, 10)
          [] x = 21 -> Here(11, 10)
          [] x = 31 -> Here(21, 10)
          [] x \in {3, 14, 22, 32} -> In(Store, "absent")
          [] OTHER -> In(Store, "gone")]

MCCatalogues == {TwoCategories, OneMenu}
=============================================================================

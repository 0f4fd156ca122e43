------------------------------ MODULE MCSignIn ------------------------------
EXTENDS SignIn, TLC

CONSTANTS d1, d2, s1, s2

Ids == [t \in Tokens |-> IF t = s1 THEN 1 ELSE IF t = s2 THEN 2 ELSE 0]
Times == [t \in Tokens |-> IF t = s1 THEN 1 ELSE IF t = s2 THEN 2 ELSE 0]

Alike == Permutations(Requests)

\* Both devices have signed in, the first one a while ago; or the second one
\* has left a session behind and has no cookie.
MCStocks ==
    {[rows |-> {s1, s2}, id |-> Ids, last |-> 2, expires |-> Times,
      cookie |-> (d1 :> s1 @@ d2 :> c)] : c \in {s2, None}}
=============================================================================

---------------------------- MODULE MCMenuDraft -----------------------------
(***************************************************************************)
(* Model-checking instances of MenuDraft and DraftItems: two ways to write *)
(* one name, and a name that is too long and is cut to the first of them.  *)
(***************************************************************************)
EXTENDS DraftItems, TLC

CONSTANTS tea, TEA, teaaa, c1, c2

MCKey == (tea :> "tea") @@ (TEA :> "tea") @@ (teaaa :> "teaaa")
MCCut == (tea :> tea) @@ (TEA :> TEA) @@ (teaaa :> tea)

RawItem ==
  [name : {tea, teaaa}, price : {"whole", "outOfRange", "none"}, category : Names \cup {Nothing}]
  \cup [name : {TEA, Nothing}, price : {"fraction"}, category : {tea, TEA}]
MCExtractions ==
  UNION {[1..n -> RawItem] : n \in 0..2}
  \cup [1..3 -> {item \in RawItem : item.category \in {tea, TEA} /\ item.price = "fraction"}]

MCStores ==
  [categories : {<<>>, <<[id |-> c1, name |-> tea]>>, <<[id |-> c1, name |-> TEA]>>,
                 <<[id |-> c2, name |-> TEA]>>, <<[id |-> c1, name |-> teaaa]>>,
                 <<[id |-> c1, name |-> tea], [id |-> c2, name |-> TEA]>>},
   menus : {{}, {TEA}}]

Symmetry == Permutations(Senders)
=============================================================================

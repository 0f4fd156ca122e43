--------------------------- MODULE MenuOrderProofs ---------------------------
(***************************************************************************)
(* Theorems of MenuOrder, for every catalogue, any number of requests and  *)
(* connections, and every timeout.  The named lock lets one reorder at a   *)
(* time between its check and its write; row locks keep apart what is      *)
(* written but not committed; together they keep the order of every list.  *)
(* Then theorems of MenuDraft, for any number of drafts and requests and   *)
(* every limit: the accounts of an owner's budget, and what becomes of     *)
(* drafts and edits.  And of DraftItems, for every text that may be read   *)
(* and every store: what an owner is shown is what he saves and commits.   *)
(***************************************************************************)
EXTENDS MenuOrder, MenuDraft, DraftItems, FiniteSetTheorems, TLAPS

(* Connections serve one reorder each, whoever holds the lock has it, and  *)
(* no two connections have it.                                             *)
LockInv ==
  /\ \A r, s \in Requests :
        /\ Reordering(reqs[r]) /\ Reordering(reqs[s])
        /\ reqs[r].conn = reqs[s].conn
        => r = s
  /\ \A r \in Requests : Holding(reqs[r]) => held[reqs[r].conn] > 0
  /\ \A c, d \in Conns : held[c] > 0 /\ held[d] > 0 => c = d

(* Only one reorder is between its check and the release of the lock.      *)
LEMMA OneAtATime ==
  ASSUME TypeOK, LockInv, NEW r \in Requests, NEW s \in Requests,
         Holding(reqs[r]), Holding(reqs[s])
  PROVE  r = s
<1>1. Reordering(reqs[r]) /\ Reordering(reqs[s])
  BY DEF Holding, Reordering
<1>2. reqs[r].conn \in Conns /\ reqs[s].conn \in Conns
  BY <1>1 DEF TypeOK, IsRequest
<1>3. held[reqs[r].conn] > 0 /\ held[reqs[s].conn] > 0
  BY DEF LockInv
<1>. QED
  BY <1>1, <1>2, <1>3 DEF LockInv

-----------------------------------------------------------------------------
(* A finite set of rows has a last one.                                    *)
LEMMA LastExists ==
  ASSUME NEW S, IsFiniteSet(S), S # {}, NEW f \in [S -> Nat]
  PROVE  \E x \in S : \A y \in S : f[y] <= f[x]
<1> DEFINE Above(x) == {y \in S : f[y] > f[x]}
           T == {Above(x) : x \in S}
<1>1. T \subseteq FiniteSubsetsOf(S) /\ T # {}
  <2>1. T \subseteq SUBSET S
    OBVIOUS
  <2>2. T # {}
    <3>1. PICK x : x \in S
      OBVIOUS
    <3>2. Above(x) \in T
      BY <3>1
    <3>. QED
      BY <3>2
  <2>3. FiniteSubsetsOf(S) = SUBSET S
    BY FS_FiniteSubsetsOfFinite
  <2>. QED
    BY <2>1, <2>2, <2>3
<1>2. PICK U \in T : \A V \in T : ~ (<<V, U>> \in StrictSubsetOrdering(S))
  <2> HIDE DEF T
  <2>. QED
    BY <1>1, FS_StrictSubsetOrderingWellFounded, WFMin
<1>3. PICK x \in S : U = Above(x)
  BY <1>2
<1>4. ASSUME NEW y \in S, ~(f[y] <= f[x])
      PROVE  FALSE
  <2>1. y \in Above(x) /\ y \notin Above(y)
    BY <1>4
  <2>2. Above(y) \subseteq Above(x)
    BY <1>4
  <2>3. <<Above(y), Above(x)>> \in StrictSubsetOrdering(S)
    BY <2>1, <2>2 DEF StrictSubsetOrdering
  <2>. QED
    BY <1>2, <1>3, <2>3
<1>. QED
  BY <1>3, <1>4

\* nextSortOrder is above every live row of the list.
LEMMA NextIsLast ==
  ASSUME rows \in [Rows -> Row], NEW l \in Lists
  PROVE  /\ NextSortOrder(l) \in Nat
         /\ \A x \in Live(l) : rows[x].sortOrder < NextSortOrder(l)
<1>1. Live(l) \subseteq Rows
  BY DEF Live, Members, Rows, Lists
<1>2. IsFiniteSet(Live(l))
  BY <1>1, FS_Subset, CatalogueAssumption
<1> DEFINE S == {0} \cup {rows[x].sortOrder : x \in Live(l)}
<1>3. S \subseteq Nat
  BY <1>1 DEF Row
<1>4. \E n \in S : \A x \in Live(l) : rows[x].sortOrder <= n
  <2>1. CASE Live(l) = {}
    BY <2>1
  <2>2. CASE Live(l) # {}
    <3> DEFINE f == [x \in Live(l) |-> rows[x].sortOrder]
    <3>1. f \in [Live(l) -> Nat]
      BY <1>1 DEF Row
    <3>2. \E x \in Live(l) : \A y \in Live(l) : f[y] <= f[x]
      <4> HIDE DEF f
      <4>. QED
        BY <1>2, <2>2, <3>1, LastExists
    <3>. QED
      BY <3>2
  <2>. QED
    BY <2>1, <2>2
<1>5. PICK n : /\ n \in S /\ NextSortOrder(l) = 10 + n
               /\ \A x \in Live(l) : rows[x].sortOrder <= n
  BY <1>4 DEF NextSortOrder, STEP
<1>. QED
  BY <1>1, <1>3, <1>5 DEF Row

-----------------------------------------------------------------------------
IInv1 == TypeOK /\ LockInv

(* What becomes of the requests when r becomes q.                          *)
LEMMA BecomesFacts ==
  ASSUME TypeOK, NEW r \in Requests, NEW q, Becomes(r, q)
  PROVE  /\ DOMAIN reqs' = Requests
         /\ reqs'[r] = q
         /\ \A s \in Requests \ {r} : reqs'[s] = reqs[s]
BY DEF TypeOK, Becomes

\* A release takes one hold of the connection off the lock.
LEMMA OneLess ==
  ASSUME TypeOK, LockInv, NEW r \in Requests, Holding(reqs[r]), Release(r)
  PROVE  /\ reqs[r].conn \in Conns
         /\ held' \in [Conns -> Nat]
         /\ held'[reqs[r].conn] = held[reqs[r].conn] - 1
         /\ \A d \in Conns \ {reqs[r].conn} : held'[d] = held[d]
<1>1. reqs[r].conn \in Conns
  BY DEF Holding, Reordering, TypeOK, IsRequest
<1>2. held \in [Conns -> Nat] /\ held[reqs[r].conn] > 0
  BY DEF TypeOK, LockInv
<1>. QED
  BY <1>1, <1>2 DEF Release

\* Every step keeps the invariant of the named lock.
LEMMA LockInvStep ==
  ASSUME TypeOK, LockInv, [Next]_vars
  PROVE  LockInv'
<1> USE DEF Reordering, Holding
<1>0. held \in [Conns -> Nat] /\ DOMAIN reqs = Requests
  BY DEF TypeOK
<1>1. ASSUME NEW r \in Requests, NEW q, Becomes(r, q), ~Reordering(q),
             UNCHANGED held
      PROVE  LockInv'
  BY <1>0, <1>1, BecomesFacts DEF LockInv
<1>2. ASSUME NEW r \in Requests, NEW l, SendsOrder(r, l)
      PROVE  LockInv'
  <2>1. PICK c \in Conns, o \in Orders(Live(l)) :
          /\ \A q \in Requests : Reordering(reqs[q]) => reqs[q].conn # c
          /\ Becomes(r, [pc |-> "waiting", list |-> l, order |-> o, conn |-> c,
                         waited |-> 0, worked |-> 0])
          /\ UNCHANGED held
    BY <1>2 DEF SendsOrder
  <2>. QED
    BY <1>0, <2>1, BecomesFacts DEF LockInv
<1>3. ASSUME NEW r \in Requests, AcquireLock(r)
      PROVE  LockInv'
  <2>1. /\ reqs[r].pc = "waiting" /\ reqs[r].conn \in Conns
    BY <1>3 DEF AcquireLock, TypeOK, IsRequest
  <2>2. /\ \A d \in Conns \ {reqs[r].conn} : held[d] = 0 /\ held'[d] = 0
        /\ held'[reqs[r].conn] = held[reqs[r].conn] + 1
    BY <1>0, <1>3, <2>1 DEF AcquireLock, LockFree
  <2>3. /\ reqs'[r].conn = reqs[r].conn /\ reqs'[r].pc = "locked"
        /\ \A s \in Requests \ {r} : reqs'[s] = reqs[s]
    BY <1>3, BecomesFacts DEF AcquireLock, Moves, At
  <2>4. \A s \in Requests : Holding(reqs'[s]) => held'[reqs'[s].conn] > 0
    BY <1>0, <2>1, <2>2, <2>3 DEF LockInv, TypeOK, IsRequest
  <2>. QED
    BY <1>0, <2>1, <2>2, <2>3, <2>4 DEF LockInv
<1>4. ASSUME NEW r \in Requests, NEW q, Holding(reqs[r]), Release(r), Becomes(r, q),
             q.conn = reqs[r].conn \/ ~Reordering(q), ~Holding(q)
      PROVE  LockInv'
  <2>1. /\ reqs[r].conn \in Conns
        /\ held' \in [Conns -> Nat]
        /\ held'[reqs[r].conn] = held[reqs[r].conn] - 1
        /\ \A d \in Conns \ {reqs[r].conn} : held'[d] = held[d]
    BY <1>4, OneLess
  <2>2. /\ reqs'[r] = q
        /\ \A s \in Requests \ {r} : reqs'[s] = reqs[s]
    BY <1>4, BecomesFacts
  <2>3. \A s \in Requests \ {r} : Reordering(reqs[s]) =>
            reqs[s].conn # reqs[r].conn /\ reqs[s].conn \in Conns
    BY <1>4 DEF LockInv, TypeOK, IsRequest
  <2>4. \A s \in Requests : Holding(reqs'[s]) => held'[reqs'[s].conn] > 0
    BY <1>4, <2>1, <2>2, <2>3 DEF LockInv
  <2>5. \A c, d \in Conns : held'[c] > 0 /\ held'[d] > 0 => c = d
    BY <1>0, <2>1 DEF LockInv
  <2>6. \A s, t \in Requests :
          Reordering(reqs'[s]) /\ Reordering(reqs'[t]) /\ reqs'[s].conn = reqs'[t].conn
            => s = t
    BY <1>4, <2>2, <2>3 DEF LockInv
  <2>. QED
    BY <2>4, <2>5, <2>6 DEF LockInv
<1>5. ASSUME NEW r \in Requests, CheckSet(r)
      PROVE  LockInv'
  <2>1. CASE Becomes(r, Done) /\ Release(r)
    BY <1>4, <1>5, <2>1 DEF CheckSet, Done
  <2>2. CASE Moves(r, "checked") /\ UNCHANGED held
    <3>1. /\ reqs[r].pc = "locked"
          /\ reqs'[r].conn = reqs[r].conn /\ reqs'[r].pc = "checked"
          /\ \A s \in Requests \ {r} : reqs'[s] = reqs[s]
      BY <1>5, <2>2, BecomesFacts DEF CheckSet, Moves, At
    <3>. QED
      BY <1>0, <2>2, <3>1 DEF LockInv
  <2>. QED
    BY <1>5, <2>1, <2>2 DEF CheckSet
<1>6. ASSUME NEW r \in Requests, Renumber(r)
      PROVE  LockInv'
  <2>1. /\ reqs[r].pc = "checked" /\ UNCHANGED held
        /\ reqs'[r].conn = reqs[r].conn /\ reqs'[r].pc = "renumbered"
        /\ \A s \in Requests \ {r} : reqs'[s] = reqs[s]
    BY <1>6, BecomesFacts DEF Renumber, Moves, At
  <2>. QED
    BY <1>0, <2>1 DEF LockInv
<1>7. ASSUME NEW r \in Requests, ReleaseLock(r)
      PROVE  LockInv'
  <2>1. At(reqs[r], "released", reqs[r].waited, reqs[r].worked).conn = reqs[r].conn
    BY DEF At
  <2>2. ~Holding(At(reqs[r], "released", reqs[r].waited, reqs[r].worked))
    BY DEF At
  <2>. QED
    BY <1>4, <1>7, <2>1, <2>2 DEF ReleaseLock, Moves
<1>8. ASSUME NEW c \in Conns, ConnectionEnds(c)
      PROVE  LockInv'
  <2>1. /\ \A d \in Conns : held'[d] = IF d = c THEN 0 ELSE held[d]
        /\ \A s \in Requests :
              reqs'[s] = IF Reordering(reqs[s]) /\ reqs[s].conn = c THEN Done
                         ELSE reqs[s]
    BY <1>0, <1>8 DEF ConnectionEnds
  <2>2. ~Reordering(Done)
    BY DEF Done
  <2>3. \A s \in Requests : Reordering(reqs[s]) => reqs[s].conn \in Conns
    BY DEF TypeOK, IsRequest
  <2>. QED
    BY <1>0, <2>1, <2>2, <2>3 DEF LockInv
<1>9. CASE Tick
  <2>1. \A s \in Requests :
          /\ Reordering(reqs'[s]) <=> Reordering(reqs[s])
          /\ Reordering(reqs[s]) => reqs'[s].conn = reqs[s].conn
          /\ Holding(reqs'[s]) <=> Holding(reqs[s])
    BY <1>9 DEF Tick, At
  <2>2. UNCHANGED held
    BY <1>9 DEF Tick
  <2>. QED
    BY <2>1, <2>2 DEF LockInv
<1>10. CASE UNCHANGED vars
  BY <1>10 DEF vars, LockInv
<1>11. ~Reordering(Done) /\ ~Reordering(Ready)
  BY DEF Done, Ready
<1>12. ASSUME NEW r \in Requests, Reorder(r)
       PROVE  LockInv'
  <2>1. CASE LockTimesOut(r) \/ Overrun(r) \/ Commit(r)
    BY <1>1, <1>11, <2>1 DEF LockTimesOut, Overrun, Commit
  <2>. QED
    BY <1>2, <1>3, <1>5, <1>6, <1>7, <1>12, <2>1 DEF Reorder, ReorderCategories,
       ReorderMenus, ReorderOptions, ReorderChoices
<1>13. ASSUME NEW r \in Requests, NEW l, NEW x, ReadsNext(r, l, x)
       PROVE  LockInv'
  BY <1>1, <1>13 DEF ReadsNext
<1>14. ASSUME NEW r \in Requests, Place(r)
       PROVE  LockInv'
  <2>1. CASE Insert(r) \/ MoveMenu(r)
    BY <1>1, <1>11, <2>1 DEF Insert, MoveMenu, Ends
  <2>. QED
    BY <1>13, <1>14, <2>1 DEF Place, CreateCategory, CreateMenu, CreateOption,
       CreateChoice, ResolveCategoryMove
<1>15. ASSUME NEW r \in Requests, Delete(r)
       PROVE  LockInv'
  <2>1. CASE CountMenus(r)
    <3>1. PICK c : Becomes(r, [pc |-> "counted", row |-> c])
      BY <2>1 DEF CountMenus
    <3>. QED
      BY <1>1, <2>1, <3>1 DEF CountMenus
  <2>2. CASE ~CountMenus(r)
    BY <1>1, <1>11, <1>15, <2>2 DEF Delete, SoftDeleteMenu, RestoreMenu,
       DeleteCategory, DeleteOption, DeleteChoice, Ends
  <2>. QED
    BY <2>1, <2>2
<1>. QED
  BY <1>8, <1>9, <1>10, <1>12, <1>14, <1>15 DEF Next

-----------------------------------------------------------------------------
RowsOK ==
  /\ rows \in [Rows -> Row]
  /\ \A x \in Rows : Exists(x) => x \in Members(rows[x].list) /\ IsThere(rows[x].list)

\* The rows that can be in a list are of one kind and do not include the list.
LEMMA MembersOf ==
  ASSUME NEW l \in Lists
  PROVE  /\ Members(l) \subseteq Rows
         /\ l \notin Members(l)
         /\ l # Store => l \in Rows
         /\ l \in Categories => Members(l) = Menus
         /\ l \in Options => Members(l) = ChoiceRows
         /\ \A x \in Menus : x \in Members(l) => l \in Categories
BY CatalogueAssumption DEF Members, Rows, Lists, Store

(* Rows that go leave no row behind that is in one of them.                *)
LEMMA GoneRows ==
  ASSUME RowsOK, NEW S, S \subseteq Rows, Gone(S),
         \A y \in Rows \ S : Exists(y) => rows[y].list \notin S
  PROVE  RowsOK'
<1>1. \A x \in Rows : /\ rows'[x].list = rows[x].list
                      /\ rows'[x].sortOrder = rows[x].sortOrder
                      /\ rows'[x].state = IF x \in S THEN "gone" ELSE rows[x].state
  BY DEF Gone, RowsOK, Row
<1>2. rows' \in [Rows -> Row]
  BY DEF Gone, RowsOK, Row
<1>3. ASSUME NEW x \in Rows, Exists(x)'
      PROVE  (x \in Members(rows[x].list) /\ IsThere(rows[x].list))'
  <2>1. x \notin S /\ Exists(x)
    BY <1>1, <1>3 DEF Exists
  <2>2. x \in Members(rows[x].list) /\ IsThere(rows[x].list) /\ rows[x].list \notin S
    BY <2>1 DEF RowsOK
  <2>3. rows[x].list \in Lists
    BY DEF RowsOK, Row
  <2>4. rows[x].list # Store => rows[x].list \in Rows
    BY <2>3, MembersOf
  <2>5. (rows[x].list # Store => Exists(rows[x].list))'
    BY <1>1, <2>2, <2>4 DEF IsThere, Exists
  <2>. QED
    BY <1>1, <2>2, <2>5 DEF IsThere
<1>. QED
  BY <1>2, <1>3 DEF RowsOK

(* A row that is there, or comes, in a list of its kind that is there.     *)
LEMMA PutRows ==
  ASSUME RowsOK, NEW x \in Rows, NEW row \in Row,
         rows' = [rows EXCEPT ![x] = row],
         row.state \in {"live", "deleted"},
         x \in Members(row.list), IsThere(row.list)
  PROVE  RowsOK'
<1>1. \A y \in Rows : rows'[y] = IF y = x THEN row ELSE rows[y]
  BY DEF RowsOK
<1>2. rows' \in [Rows -> Row]
  BY DEF RowsOK
<1>3. \A y \in Rows : Exists(y) => Exists(y)'
  BY <1>1 DEF Exists
<1>4. ASSUME NEW y \in Rows, Exists(y)'
      PROVE  (y \in Members(rows[y].list) /\ IsThere(rows[y].list))'
  <2>1. y \in Members(rows'[y].list) /\ IsThere(rows'[y].list)
    BY <1>1, <1>4 DEF RowsOK, Exists
  <2>2. rows'[y].list \in Lists
    BY <1>2 DEF Row
  <2>3. rows'[y].list # Store => rows'[y].list \in Rows
    BY <2>2, MembersOf
  <2>4. rows'[y].list # Store => Exists(rows'[y].list)
    BY <2>1 DEF IsThere
  <2>5. rows'[y].list # Store => rows'[rows'[y].list].state \in {"live", "deleted"}
    BY <1>3, <2>3, <2>4 DEF Exists
  <2>. QED
    BY <2>1, <2>5 DEF IsThere, Exists
<1>. QED
  BY <1>2, <1>4 DEF RowsOK

(* A deletion leaves nothing in what is deleted.                           *)
LEMMA NothingLeft ==
  ASSUME RowsOK
  PROVE  /\ \A c \in Categories : IsEmpty(c) =>
              \A y \in Rows : Exists(y) => rows[y].list \notin {c}
         /\ \A x \in Options :
              LET gone == {x} \cup {y \in ChoiceRows : Exists(y) /\ rows[y].list = x}
              IN  \A y \in Rows \ gone : Exists(y) => rows[y].list \notin gone
         /\ \A x \in ChoiceRows : \A y \in Rows : Exists(y) => rows[y].list \notin {x}
<1>1. \A y \in Rows : Exists(y) => y \in Members(rows[y].list) /\ rows[y].list \in Lists
  BY DEF RowsOK, Row
<1>2. \A c \in Categories : IsEmpty(c) =>
         \A y \in Rows : Exists(y) => rows[y].list \notin {c}
  BY <1>1 DEF IsEmpty
<1>3. \A x \in ChoiceRows : x \notin Lists
  BY CatalogueAssumption DEF Lists, Rows
<1>4. \A x \in Options : x \in Lists /\ Members(x) = ChoiceRows
  BY MembersOf DEF Lists
<1>. QED
  BY <1>1, <1>2, <1>3, <1>4

\* Every step keeps the rows in lists of their kind.
LEMMA RowsStep ==
  ASSUME TypeOK, [Next]_vars
  PROVE  RowsOK' /\ kept' \subseteq Lists \X Rows \X Rows
<1>0. RowsOK /\ kept \subseteq Lists \X Rows \X Rows
  BY DEF TypeOK, RowsOK
<1>1. ASSUME UNCHANGED <<rows, kept>>
      PROVE  RowsOK' /\ kept' \subseteq Lists \X Rows \X Rows
  BY <1>0, <1>1 DEF RowsOK, Exists, IsThere
<1>2. ASSUME NEW r \in Requests, Commit(r)
      PROVE  RowsOK' /\ kept' \subseteq Lists \X Rows \X Rows
  <2> DEFINE q == reqs[r]
             hit == {x \in Named(q) : Exists(x)}
             here == {x \in hit : rows[x].list = q.list}
  <2>1. /\ q.list \in Lists /\ Named(q) \subseteq Rows /\ DOMAIN q.order \subseteq Nat
    BY <1>2, MembersOf DEF Commit, TypeOK, IsRequest, Reordering
  <2>2. \A x \in hit : PositionOf(q, x) \in Nat
    BY <2>1 DEF PositionOf, Named
  <2>3. \A x \in Rows : rows'[x] = IF x \in hit
               THEN [rows[x] EXCEPT !.sortOrder = 10 * PositionOf(q, x)]
               ELSE rows[x]
    BY <1>2 DEF Commit, STEP
  <2>4. \A x \in Rows : /\ rows'[x] \in Row
                        /\ rows'[x].list = rows[x].list
                        /\ rows'[x].state = rows[x].state
    <3>1. \A row \in Row, n \in Nat :
            /\ [row EXCEPT !.sortOrder = 10 * n] \in Row
            /\ [row EXCEPT !.sortOrder = 10 * n].list = row.list
            /\ [row EXCEPT !.sortOrder = 10 * n].state = row.state
      BY DEF Row
    <3>2. \A x \in Rows : rows[x] \in Row
      BY <1>0 DEF RowsOK
    <3> HIDE DEF hit, q
    <3>3. ASSUME NEW x \in Rows, x \in hit
          PROVE  /\ rows'[x] \in Row
                 /\ rows'[x].list = rows[x].list
                 /\ rows'[x].state = rows[x].state
      <4> DEFINE n == PositionOf(q, x)
      <4>1. n \in Nat /\ rows'[x] = [rows[x] EXCEPT !.sortOrder = 10 * n]
        BY <2>2, <2>3, <3>3
      <4> HIDE DEF n
      <4>. QED
        BY <3>1, <3>2, <4>1
    <3>. QED
      BY <2>3, <3>2, <3>3
  <2>5. rows' \in [Rows -> Row]
    BY <1>2, <2>4 DEF Commit
  <2>6. RowsOK'
    BY <1>0, <2>4, <2>5, MembersOf DEF RowsOK, Exists, IsThere, Row
  <2>7. kept' \subseteq kept \cup ({q.list} \X here \X here)
    BY <1>2 DEF Commit
  <2>8. {q.list} \X here \X here \subseteq Lists \X Rows \X Rows
    BY <2>1
  <2>. QED
    BY <1>0, <2>6, <2>7, <2>8
<1>3. ASSUME NEW r \in Requests, Insert(r)
      PROVE  RowsOK' /\ kept' \subseteq Lists \X Rows \X Rows
  <2>1. CASE ~IsThere(reqs[r].list)
    BY <1>1, <1>3, <2>1 DEF Insert
  <2>2. CASE IsThere(reqs[r].list)
    <3>1. reqs[r].list \in Lists /\ reqs[r].next \in Nat
      BY <1>3 DEF Insert, TypeOK, IsRequest
    <3>2. PICK x \in Members(reqs[r].list) :
             Placed(r, x, [list |-> reqs[r].list, sortOrder |-> reqs[r].next,
                           state |-> "live"])
      BY <1>3, <2>2 DEF Insert
    <3>3. [list |-> reqs[r].list, sortOrder |-> reqs[r].next, state |-> "live"] \in Row
      BY <3>1 DEF Row
    <3>4. RowsOK'
      BY <1>0, <2>2, <3>1, <3>2, <3>3, PutRows, MembersOf DEF Placed
    <3>. QED
      BY <1>0, <3>2, <3>4 DEF Placed
  <2>. QED
    BY <2>1, <2>2
<1>4. ASSUME NEW r \in Requests, MoveMenu(r)
      PROVE  RowsOK' /\ kept' \subseteq Lists \X Rows \X Rows
  <2>1. PICK x \in reqs[r].moved :
           \/ IsThere(reqs[r].list) /\ Placed(r, x, MovedTo(reqs[r], x))
           \/ UNCHANGED <<rows, kept>>
    BY <1>4 DEF MoveMenu
  <2>2. CASE UNCHANGED <<rows, kept>>
    BY <1>1, <2>2
  <2>3. CASE IsThere(reqs[r].list) /\ Placed(r, x, MovedTo(reqs[r], x))
    <3>1. /\ x \in Menus /\ reqs[r].next \in Nat /\ reqs[r].list \in Categories
          /\ x \in Rows /\ reqs[r].list \in Lists
      BY <1>4, <2>1 DEF MoveMenu, TypeOK, IsRequest, Rows, Lists
    <3>2. /\ MovedTo(reqs[r], x) \in Row
          /\ MovedTo(reqs[r], x).list = reqs[r].list
          /\ MovedTo(reqs[r], x).state = rows[x].state
      BY <1>0, <3>1 DEF MovedTo, RowsOK, Row
    <3>3. x \in Members(reqs[r].list)
      BY <3>1, MembersOf
    <3>4. RowsOK'
      <4>1. CASE Exists(x)
        BY <1>0, <2>3, <3>1, <3>2, <3>3, <4>1, PutRows DEF Placed, Exists
      <4>2. CASE ~Exists(x)
        <5>1. \A y \in Rows : rows'[y] = IF y = x THEN MovedTo(reqs[r], x) ELSE rows[y]
          BY <1>0, <2>3 DEF Placed, RowsOK
        <5>2. rows' \in [Rows -> Row]
          BY <1>0, <2>3, <3>2 DEF Placed, RowsOK
        <5>3. \A y \in Rows : Exists(y)' => y # x /\ Exists(y)
          BY <3>2, <4>2, <5>1 DEF Exists
        <5>4. \A y \in Rows : Exists(y) => Exists(y)'
          BY <4>2, <5>1 DEF Exists
        <5>. QED
          BY <1>0, <5>1, <5>2, <5>3, <5>4, MembersOf DEF RowsOK, IsThere, Exists, Row
      <4>. QED
        BY <4>1, <4>2
    <3>. QED
      BY <1>0, <2>3, <3>4 DEF Placed
  <2>. QED
    BY <2>1, <2>2, <2>3
<1>5. ASSUME NEW S, S \subseteq Rows, Gone(S),
             \A y \in Rows \ S : Exists(y) => rows[y].list \notin S
      PROVE  RowsOK' /\ kept' \subseteq Lists \X Rows \X Rows
  BY <1>0, <1>5, GoneRows DEF Gone
<1>6. ASSUME NEW r \in Requests, Delete(r)
      PROVE  RowsOK' /\ kept' \subseteq Lists \X Rows \X Rows
  <2>1. CASE SoftDeleteMenu(r) \/ RestoreMenu(r)
    <3>1. PICK x \in Menus, s \in {"live", "deleted"} :
             /\ Exists(x)
             /\ rows' = [rows EXCEPT ![x].state = s]
             /\ UNCHANGED kept
      BY <2>1 DEF SoftDeleteMenu, RestoreMenu, Exists
    <3> DEFINE row == [rows[x] EXCEPT !.state = s]
    <3>2. x \in Rows /\ rows[x] \in Row
      BY <1>0, <3>1 DEF RowsOK, Rows
    <3>3. row \in Row /\ row.state = s /\ row.list = rows[x].list
      BY <3>2 DEF Row
    <3>4. rows' = [rows EXCEPT ![x] = row]
      BY <3>1
    <3>5. x \in Members(row.list) /\ IsThere(row.list)
      BY <1>0, <3>1, <3>2, <3>3 DEF RowsOK
    <3> HIDE DEF row
    <3>. QED
      BY <1>0, <3>1, <3>2, <3>3, <3>4, <3>5, PutRows
  <2>2. CASE CountMenus(r)
    BY <1>1, <2>2 DEF CountMenus
  <2>3. CASE DeleteCategory(r)
    <3>1. reqs[r].row \in Categories /\ reqs[r].row \in Rows
      BY <2>3 DEF DeleteCategory, TypeOK, IsRequest, Rows
    <3>2. CASE IsEmpty(reqs[r].row) /\ Gone({reqs[r].row})
      BY <1>0, <1>5, <3>1, <3>2, NothingLeft
    <3>3. CASE UNCHANGED <<rows, kept>>
      BY <1>1, <3>3
    <3>. QED
      BY <2>3, <3>2, <3>3 DEF DeleteCategory
  <2>4. CASE DeleteOption(r)
    <3>1. PICK x \in Options :
             Gone({x} \cup {y \in ChoiceRows : Exists(y) /\ rows[y].list = x})
      BY <2>4 DEF DeleteOption
    <3> DEFINE gone == {x} \cup {y \in ChoiceRows : Exists(y) /\ rows[y].list = x}
    <3>2. gone \subseteq Rows
      BY DEF Rows
    <3>3. \A y \in Rows \ gone : Exists(y) => rows[y].list \notin gone
      BY <1>0, NothingLeft
    <3> HIDE DEF gone
    <3>. QED
      BY <1>5, <3>1, <3>2, <3>3 DEF gone
  <2>5. CASE DeleteChoice(r)
    <3>1. PICK x \in ChoiceRows : Gone({x})
      BY <2>5 DEF DeleteChoice
    <3>. QED
      BY <1>0, <1>5, <3>1, NothingLeft DEF Rows
  <2>. QED
    BY <1>6, <2>1, <2>2, <2>3, <2>4, <2>5 DEF Delete
<1>7. ASSUME NEW r \in Requests, Reorder(r)
      PROVE  RowsOK' /\ kept' \subseteq Lists \X Rows \X Rows
  <2>1. CASE Commit(r)
    BY <1>2, <2>1
  <2>2. CASE ~Commit(r)
    BY <1>1, <1>7, <2>2 DEF Reorder, ReorderCategories, ReorderMenus, ReorderOptions,
       ReorderChoices, SendsOrder, AcquireLock, LockTimesOut, CheckSet, Renumber,
       ReleaseLock, Overrun
  <2>. QED
    BY <2>1, <2>2
<1>8. ASSUME NEW r \in Requests, Place(r)
      PROVE  RowsOK' /\ kept' \subseteq Lists \X Rows \X Rows
  BY <1>1, <1>3, <1>4, <1>8 DEF Place, CreateCategory, CreateMenu, CreateOption,
     CreateChoice, ResolveCategoryMove, ReadsNext
<1>9. CASE Tick \/ UNCHANGED vars \/ \E c \in Conns : ConnectionEnds(c)
  BY <1>1, <1>9 DEF Tick, vars, ConnectionEnds
<1>. QED
  BY <1>6, <1>7, <1>8, <1>9 DEF Next

-----------------------------------------------------------------------------
RequestsOK ==
  /\ held \in [Conns -> Nat]
  /\ DOMAIN reqs = Requests
  /\ \A r \in Requests : IsRequest(reqs[r])
  /\ overtaken \subseteq Requests

\* The type invariant is that of the rows and that of the requests.
LEMMA TypeParts == TypeOK <=> RowsOK /\ RequestsOK /\ kept \subseteq Lists \X Rows \X Rows
BY DEF TypeOK, RowsOK, RequestsOK

(* A reorder goes on with what it has asked for.                           *)
LEMMA GoesOn ==
  ASSUME NEW q, IsRequest(q), Reordering(q),
         NEW pc \in {"waiting", "locked", "checked", "renumbered", "released"},
         NEW v \in 0 .. LockTimeout, NEW w \in 0 .. TxTimeout
  PROVE  IsRequest(At(q, pc, v, w))
<1> DEFINE a == At(q, pc, v, w)
<1>1. /\ a.pc = pc /\ a.list = q.list /\ a.order = q.order /\ a.conn = q.conn
      /\ a.waited = v /\ a.worked = w
  BY DEF At
<1>2. Named(a) = Named(q)
  BY <1>1 DEF Named
<1> HIDE DEF a
<1>. QED
  BY <1>1, <1>2 DEF IsRequest, Reordering, a

\* Every step keeps the requests well typed.
LEMMA RequestsStep ==
  ASSUME TypeOK, LockInv, [Next]_vars
  PROVE  RequestsOK'
<1>0. RequestsOK /\ RowsOK
  BY DEF TypeOK, RequestsOK, RowsOK
<1>1. LockTimeout \in Nat /\ TxTimeout \in Nat
  BY CatalogueAssumption DEF TxTimeout
<1>2. IsRequest(Done)
  BY DEF IsRequest, Done, Reordering
<1>3. ASSUME NEW r \in Requests, NEW q, Becomes(r, q), IsRequest(q),
             UNCHANGED held \/ held' \in [Conns -> Nat],
             overtaken' \subseteq Requests
      PROVE  RequestsOK'
  BY <1>0, <1>3, BecomesFacts DEF RequestsOK
<1>4. ASSUME NEW r \in Requests, NEW pc, Reordering(reqs[r]),
             pc \in {"waiting", "locked", "checked", "renumbered", "released"}
      PROVE  IsRequest(At(reqs[r], pc, reqs[r].waited, reqs[r].worked))
  BY <1>0, <1>4, GoesOn DEF RequestsOK, IsRequest
<1>5. ASSUME NEW r \in Requests, NEW l \in Lists, SendsOrder(r, l)
      PROVE  RequestsOK'
  <2>1. PICK c \in Conns, o \in Orders(Live(l)) :
          Becomes(r, [pc |-> "waiting", list |-> l, order |-> o, conn |-> c,
                      waited |-> 0, worked |-> 0])
    BY <1>5 DEF SendsOrder
  <2> DEFINE q == [pc |-> "waiting", list |-> l, order |-> o, conn |-> c,
                   waited |-> 0, worked |-> 0]
  <2>2. DOMAIN o \subseteq Nat
    BY DEF Orders
  <2>3. /\ \A i \in DOMAIN o : o[i] \in Live(l)
        /\ \A i, j \in DOMAIN o : o[i] = o[j] => i = j
    BY DEF Orders
  <2>4. Named(q) \subseteq Members(l)
    BY <2>3 DEF Named, Live
  <2>5. IsRequest(q)
    BY <1>1, <2>2, <2>3, <2>4 DEF IsRequest, Reordering
  <2>. QED
    BY <1>0, <1>3, <1>5, <2>1, <2>5 DEF SendsOrder, RequestsOK
<1>6. ASSUME NEW r \in Requests, Holding(reqs[r]), Release(r)
      PROVE  held' \in [Conns -> Nat]
  <2>1. /\ reqs[r].conn \in Conns /\ held' \in [Conns -> Nat]
    BY <1>6, OneLess
  <2>. QED
    BY <2>1
<1>7. ASSUME NEW r \in Requests, Reorder(r)
      PROVE  RequestsOK'
  <2>1. CASE ReorderCategories(r) \/ ReorderMenus(r) \/ ReorderOptions(r)
             \/ ReorderChoices(r)
    BY <1>5, <2>1 DEF ReorderCategories, ReorderMenus, ReorderOptions,
       ReorderChoices, Lists
  <2>2. CASE AcquireLock(r)
    <3>1. Reordering(reqs[r]) /\ reqs[r].conn \in Conns
      BY <1>0, <2>2 DEF AcquireLock, Reordering, RequestsOK, IsRequest
    <3>2. held' \in [Conns -> Nat]
      BY <1>0, <2>2, <3>1 DEF AcquireLock, RequestsOK
    <3>. QED
      BY <1>0, <1>3, <1>4, <2>2, <3>1, <3>2 DEF AcquireLock, Moves, RequestsOK
  <2>3. CASE LockTimesOut(r) \/ Overrun(r)
    BY <1>0, <1>2, <1>3, <2>3 DEF LockTimesOut, Overrun, RequestsOK
  <2>4. CASE CheckSet(r)
    <3>1. Reordering(reqs[r]) /\ Holding(reqs[r])
      BY <2>4 DEF CheckSet, Reordering, Holding
    <3>2. CASE Becomes(r, Done) /\ Release(r)
      BY <1>0, <1>2, <1>3, <1>6, <2>4, <3>1, <3>2 DEF CheckSet, RequestsOK
    <3>3. CASE Moves(r, "checked") /\ UNCHANGED held
      BY <1>0, <1>3, <1>4, <2>4, <3>1, <3>3 DEF CheckSet, Moves, RequestsOK
    <3>. QED
      BY <2>4, <3>2, <3>3 DEF CheckSet
  <2>5. CASE Renumber(r)
    <3>1. Reordering(reqs[r])
      BY <2>5 DEF Renumber, Reordering
    <3>. QED
      BY <1>0, <1>3, <1>4, <2>5, <3>1 DEF Renumber, Moves, RequestsOK
  <2>6. CASE ReleaseLock(r)
    <3>1. Reordering(reqs[r]) /\ Holding(reqs[r])
      BY <2>6 DEF ReleaseLock, Reordering, Holding
    <3>. QED
      BY <1>0, <1>3, <1>4, <1>6, <2>6, <3>1 DEF ReleaseLock, Moves, RequestsOK
  <2>7. CASE Commit(r)
    <3>1. overtaken' \subseteq Requests /\ Becomes(r, Done) /\ UNCHANGED held
      BY <1>0, <2>7 DEF Commit, Overtakes, RequestsOK
    <3>. QED
      BY <1>2, <1>3, <3>1
  <2>. QED
    BY <1>7, <2>1, <2>2, <2>3, <2>4, <2>5, <2>6, <2>7 DEF Reorder
<1>8. ASSUME NEW r \in Requests, NEW l \in Lists, NEW moved, moved \subseteq Menus,
             moved # {} => l \in Categories, ReadsNext(r, l, moved)
      PROVE  RequestsOK'
  <2>1. NextSortOrder(l) \in Nat
    BY <1>0, NextIsLast DEF RowsOK
  <2>2. IsRequest([pc |-> "placing", list |-> l, next |-> NextSortOrder(l),
                   moved |-> moved])
    BY <1>8, <2>1 DEF IsRequest, Reordering
  <2>. QED
    BY <1>0, <1>3, <1>8, <2>2 DEF ReadsNext, RequestsOK
<1>9. ASSUME NEW r \in Requests, Place(r)
      PROVE  RequestsOK'
  <2>1. CASE CreateCategory(r) \/ CreateMenu(r) \/ CreateOption(r) \/ CreateChoice(r)
             \/ ResolveCategoryMove(r)
    <3>1. CASE ResolveCategoryMove(r)
      <4>1. PICK x \in Menus, c \in Categories : ReadsNext(r, c, {x})
        BY <3>1 DEF ResolveCategoryMove
      <4>2. c \in Lists
        BY DEF Lists
      <4>. QED
        BY <1>8, <4>1, <4>2
    <3>2. CASE ~ResolveCategoryMove(r)
      <4>1. PICK l \in Lists : ReadsNext(r, l, {})
        BY <2>1, <3>2 DEF CreateCategory, CreateMenu, CreateOption, CreateChoice, Lists
      <4>. QED
        BY <1>8, <4>1
    <3>. QED
      BY <3>1, <3>2
  <2>2. CASE Insert(r) \/ MoveMenu(r)
    <3>1. overtaken' \subseteq Requests /\ Becomes(r, Done) /\ UNCHANGED held
      BY <1>0, <2>2 DEF Insert, MoveMenu, Placed, Ends, Overtakes, RequestsOK
    <3>. QED
      BY <1>2, <1>3, <3>1
  <2>. QED
    BY <1>9, <2>1, <2>2 DEF Place
<1>10. ASSUME NEW r \in Requests, Delete(r)
       PROVE  RequestsOK'
  <2>1. CASE CountMenus(r)
    <3>1. PICK c \in Categories : Becomes(r, [pc |-> "counted", row |-> c])
      BY <2>1 DEF CountMenus
    <3>2. IsRequest([pc |-> "counted", row |-> c])
      BY DEF IsRequest, Reordering
    <3>. QED
      BY <1>0, <1>3, <2>1, <3>1, <3>2 DEF CountMenus, RequestsOK
  <2>2. CASE ~CountMenus(r)
    <3>1. overtaken' \subseteq Requests /\ Becomes(r, Done) /\ UNCHANGED held
      BY <1>0, <1>10, <2>2 DEF Delete, SoftDeleteMenu, RestoreMenu, DeleteCategory,
         DeleteOption, DeleteChoice, Ends, Overtakes, RequestsOK
    <3>. QED
      BY <1>2, <1>3, <3>1
  <2>. QED
    BY <2>1, <2>2
<1>11. ASSUME NEW c \in Conns, ConnectionEnds(c)
       PROVE  RequestsOK'
  BY <1>0, <1>2, <1>11 DEF ConnectionEnds, RequestsOK
<1>12. CASE Tick
  <2>1. ASSUME NEW r \in Requests
        PROVE  IsRequest(reqs'[r])
    <3>1. IsRequest(reqs[r])
      BY <1>0 DEF RequestsOK
    <3>2. CASE ~Reordering(reqs[r])
      BY <1>12, <3>1, <3>2 DEF Tick
    <3>3. CASE Reordering(reqs[r])
      <4>1. /\ reqs[r].waited \in 0 .. LockTimeout /\ reqs[r].worked \in 0 .. TxTimeout
            /\ reqs[r].waited + reqs[r].worked < TxTimeout
            /\ reqs[r].pc = "waiting" => reqs[r].waited < LockTimeout
        BY <1>12, <3>1, <3>3 DEF Tick, IsRequest, Age
      <4>2. CASE reqs[r].pc = "waiting"
        <5>1. reqs'[r] = At(reqs[r], "waiting", reqs[r].waited + 1, reqs[r].worked)
          BY <1>12, <3>3, <4>2 DEF Tick
        <5>2. reqs[r].waited + 1 \in 0 .. LockTimeout
          BY <1>1, <4>1, <4>2
        <5>. QED
          BY <3>1, <3>3, <4>1, <5>1, <5>2, GoesOn
      <4>3. CASE reqs[r].pc # "waiting"
        <5>1. reqs'[r] = At(reqs[r], reqs[r].pc, reqs[r].waited, reqs[r].worked + 1)
          BY <1>12, <3>3, <4>3 DEF Tick
        <5>2. reqs[r].worked + 1 \in 0 .. TxTimeout
          BY <1>1, <4>1
        <5>3. reqs[r].pc \in {"waiting", "locked", "checked", "renumbered", "released"}
          BY <3>3 DEF Reordering
        <5>. QED
          BY <3>1, <3>3, <4>1, <5>1, <5>2, <5>3, GoesOn
      <4>. QED
        BY <4>2, <4>3
    <3>. QED
      BY <3>2, <3>3
  <2>2. DOMAIN reqs' = Requests /\ UNCHANGED <<held, overtaken>>
    BY <1>12 DEF Tick
  <2>. QED
    BY <1>0, <2>1, <2>2 DEF RequestsOK
<1>13. CASE UNCHANGED vars
  BY <1>0, <1>13 DEF vars, RequestsOK
<1>. QED
  BY <1>7, <1>9, <1>10, <1>11, <1>12, <1>13 DEF Next

-----------------------------------------------------------------------------
(* It has found its rows in the list, and has not committed.               *)
Past(q) == q.pc \in {"checked", "renumbered", "released"}

(* The order asked for last stands; no reorder under way names a row that  *)
(* another list's order is about, what two have written is apart, and what *)
(* one has found in its list another, which still has the rows locked, has *)
(* not got there.                                                          *)
OrderInv ==
  /\ \A k \in kept : /\ rows[k[2]].list = k[1] /\ rows[k[3]].list = k[1]
                     /\ rows[k[2]].sortOrder < rows[k[3]].sortOrder
  /\ \A r \in Requests : Past(reqs[r]) =>
        \A x \in Named(reqs[r]) : rows[x].state # "absent"
  /\ \A r \in Requests : Past(reqs[r]) =>
        \A k \in kept : k[1] # reqs[r].list =>
            k[2] \notin Named(reqs[r]) /\ k[3] \notin Named(reqs[r])
  /\ \A r, s \in Requests : r # s /\ Pending(reqs[r]) /\ Pending(reqs[s]) =>
        \A x \in Named(reqs[r]) : x \notin Named(reqs[s])
  /\ \A r, s \in Requests : reqs[r].pc = "checked" /\ reqs[s].pc = "released" =>
        \A x \in Named(reqs[r]) : x \in Named(reqs[s]) => rows[x].list = reqs[r].list

\* A request that moves on names the same rows.
LEMMA NamedAt ==
  ASSUME NEW q, NEW pc, NEW v, NEW w
  PROVE  /\ Named(At(q, pc, v, w)) = Named(q)
         /\ At(q, pc, v, w).pc = pc
         /\ At(q, pc, v, w).list = q.list
         /\ At(q, pc, v, w).order = q.order
BY DEF At, Named

(* Steps of the others: the rows of the orders stay, a row is put into a   *)
(* list anew only when nobody has it locked, and reorders only end.        *)
LEMMA OthersKeep ==
  ASSUME TypeOK, OrderInv,
         kept' \subseteq kept,
         \A k \in kept' : /\ rows'[k[2]].list = rows[k[2]].list
                          /\ rows'[k[3]].list = rows[k[3]].list
                          /\ rows'[k[2]].sortOrder = rows[k[2]].sortOrder
                          /\ rows'[k[3]].sortOrder = rows[k[3]].sortOrder,
         \A x \in Rows : rows[x].state # "absent" =>
             /\ rows'[x].state # "absent"
             /\ rows'[x].list = rows[x].list \/ RowFree(x),
         \A s \in Requests : Past(reqs'[s]) =>
             /\ reqs'[s].pc = reqs[s].pc /\ reqs'[s].list = reqs[s].list
             /\ Named(reqs'[s]) = Named(reqs[s])
  PROVE  OrderInv'
<1>1. \A s \in Requests : Past(reqs'[s]) => Past(reqs[s]) /\ Named(reqs[s]) \subseteq Rows
  BY MembersOf DEF Past, TypeOK, IsRequest, Reordering
<1>2. \A s \in Requests : Pending(reqs'[s]) => Past(reqs'[s]) /\ Pending(reqs[s])
  BY DEF Past, Pending
<1>3. \A k \in kept' : /\ rows'[k[2]].list = k[1] /\ rows'[k[3]].list = k[1]
                       /\ rows'[k[2]].sortOrder < rows'[k[3]].sortOrder
  BY DEF OrderInv
<1>4. \A r \in Requests : Past(reqs'[r]) =>
        \A x \in Named(reqs'[r]) : rows'[x].state # "absent"
  BY <1>1 DEF OrderInv
<1>5. \A r \in Requests : Past(reqs'[r]) =>
        \A k \in kept' : k[1] # reqs'[r].list =>
            k[2] \notin Named(reqs'[r]) /\ k[3] \notin Named(reqs'[r])
  BY <1>1 DEF OrderInv
<1>6. \A r, s \in Requests : r # s /\ Pending(reqs'[r]) /\ Pending(reqs'[s]) =>
        \A x \in Named(reqs'[r]) : x \notin Named(reqs'[s])
  BY <1>2 DEF OrderInv
<1>7. ASSUME NEW r \in Requests, NEW s \in Requests,
             reqs'[r].pc = "checked", reqs'[s].pc = "released",
             NEW x \in Named(reqs'[r]), x \in Named(reqs'[s])
      PROVE  rows'[x].list = reqs'[r].list
  <2>1. /\ Past(reqs'[r]) /\ Past(reqs'[s])
    BY <1>7 DEF Past
  <2>2. /\ reqs[r].pc = "checked" /\ reqs[s].pc = "released"
        /\ x \in Named(reqs[r]) /\ x \in Named(reqs[s]) /\ x \in Rows
        /\ reqs'[r].list = reqs[r].list
    BY <1>1, <1>7, <2>1
  <2>3. rows[x].list = reqs[r].list /\ rows[x].state # "absent"
    BY <1>1, <2>1, <2>2 DEF OrderInv
  <2>4. ~RowFree(x)
    BY <2>2 DEF RowFree, Pending
  <2>. QED
    BY <2>2, <2>3, <2>4
<1>. QED
  BY <1>3, <1>4, <1>5, <1>6, <1>7 DEF OrderInv, Past, Pending, Named

(* A request that becomes no reorder past its check, in a step that leaves *)
(* the rows or changes them as OthersKeep allows.                          *)
LEMMA EndsKeep ==
  ASSUME TypeOK, OrderInv, NEW r \in Requests, NEW q, Becomes(r, q), ~Past(q),
         kept' \subseteq kept,
         \A k \in kept' : /\ rows'[k[2]].list = rows[k[2]].list
                          /\ rows'[k[3]].list = rows[k[3]].list
                          /\ rows'[k[2]].sortOrder = rows[k[2]].sortOrder
                          /\ rows'[k[3]].sortOrder = rows[k[3]].sortOrder,
         \A x \in Rows : rows[x].state # "absent" =>
             /\ rows'[x].state # "absent"
             /\ rows'[x].list = rows[x].list \/ RowFree(x)
  PROVE  OrderInv'
<1>1. \A s \in Requests : Past(reqs'[s]) => reqs'[s] = reqs[s]
  BY BecomesFacts
<1>. QED
  BY <1>1, OthersKeep

(* Deletions and restorations: rows keep their lists and places.           *)
LEMMA StatesKeep ==
  ASSUME TypeOK, OrderInv, NEW r \in Requests, NEW q, Becomes(r, q), ~Past(q),
         kept' \subseteq kept,
         \A x \in Rows : /\ rows'[x].list = rows[x].list
                         /\ rows'[x].sortOrder = rows[x].sortOrder
                         /\ rows[x].state # "absent" => rows'[x].state # "absent"
  PROVE  OrderInv'
<1>1. \A k \in kept' : k[2] \in Rows /\ k[3] \in Rows
  BY DEF TypeOK
<1>. QED
  BY <1>1, EndsKeep

\* A row that is placed disturbs no order that is kept.
LEMMA PlacedKeep ==
  ASSUME TypeOK, OrderInv, NEW r \in Requests, Becomes(r, Done),
         NEW x \in Rows, NEW row, Placed(r, x, row), row.state # "absent",
         rows[x].state = "absent" \/ RowFree(x)
  PROVE  OrderInv'
<1>1. /\ \A y \in Rows : rows'[y] = IF y = x THEN row ELSE rows[y]
      /\ kept' = {k \in kept : x \notin {k[2], k[3]}}
  BY DEF Placed, TypeOK
<1>2. \A k \in kept' : /\ k \in kept /\ k[2] \in Rows /\ k[3] \in Rows
                       /\ k[2] # x /\ k[3] # x
  BY <1>1 DEF TypeOK
<1>3. ~Past(Done)
  BY DEF Past, Done
<1>. QED
  BY <1>1, <1>2, <1>3, EndsKeep

\* Creating or moving a row keeps the order of the lists.
LEMMA PlaceOrder ==
  ASSUME TypeOK, OrderInv, NEW r \in Requests, Place(r)
  PROVE  OrderInv'
<1>1. ~Past(Done)
  BY DEF Past, Done
<1>2. CASE Insert(r) \/ MoveMenu(r)
  <2>1. CASE UNCHANGED <<rows, kept>>
    BY <1>1, <1>2, <2>1, StatesKeep DEF Insert, MoveMenu, Ends
  <2>2. CASE \E x \in Members(reqs[r].list) :
               /\ rows[x].state = "absent"
               /\ Placed(r, x, [list |-> reqs[r].list, sortOrder |-> reqs[r].next,
                                state |-> "live"])
    <3>1. reqs[r].pc = "placing" /\ reqs[r].list \in Lists /\ Becomes(r, Done)
      BY <1>2 DEF Insert, MoveMenu, TypeOK, IsRequest, Ends
    <3>2. Members(reqs[r].list) \subseteq Rows
      BY <3>1, MembersOf
    <3>. QED
      BY <2>2, <3>1, <3>2, PlacedKeep
  <2>3. CASE \E x \in reqs[r].moved : RowFree(x) /\ Placed(r, x, MovedTo(reqs[r], x))
             /\ MoveMenu(r)
    <3>1. PICK x \in reqs[r].moved : RowFree(x) /\ Placed(r, x, MovedTo(reqs[r], x))
      BY <2>3
    <3>2. x \in Rows /\ Becomes(r, Done)
      BY <2>3 DEF MoveMenu, TypeOK, IsRequest, Ends, Rows
    <3>3. MovedTo(reqs[r], x).state = rows[x].state
      BY <3>2 DEF MovedTo, TypeOK, Row
    <3>4. CASE rows[x].state # "absent"
      BY <3>1, <3>2, <3>3, <3>4, PlacedKeep
    <3>5. CASE rows[x].state = "absent"
      <4>1. /\ \A y \in Rows : y # x => rows'[y] = rows[y]
            /\ kept' = {k \in kept : x \notin {k[2], k[3]}}
        BY <3>1 DEF Placed, TypeOK
      <4>2. \A k \in kept' : /\ k \in kept /\ k[2] \in Rows /\ k[3] \in Rows
                             /\ k[2] # x /\ k[3] # x
        BY <4>1 DEF TypeOK
      <4>3. \A y \in Rows : rows[y].state # "absent" => rows'[y] = rows[y]
        BY <3>5, <4>1
      <4>. QED
        BY <1>1, <3>2, <4>1, <4>2, <4>3, EndsKeep
    <3>. QED
      BY <3>4, <3>5
  <2>. QED
    BY <1>2, <2>1, <2>2, <2>3 DEF Insert, MoveMenu
<1>3. ASSUME NEW l, NEW moved, ReadsNext(r, l, moved)
      PROVE  OrderInv'
  <2>1. ~Past([pc |-> "placing", list |-> l, next |-> NextSortOrder(l), moved |-> moved])
    BY DEF Past
  <2>. QED
    BY <1>3, <2>1, StatesKeep DEF ReadsNext
<1>. QED
  BY <1>2, <1>3 DEF Place, CreateCategory, CreateMenu, CreateOption, CreateChoice,
     ResolveCategoryMove

\* Deleting a row keeps the order of the lists.
LEMMA DeleteOrder ==
  ASSUME TypeOK, OrderInv, NEW r \in Requests, Delete(r)
  PROVE  OrderInv'
<1>0. /\ ~Past(Done) /\ rows \in [Rows -> Row]
  BY DEF Past, Done, TypeOK
<1>1. ASSUME NEW S, Gone(S), Becomes(r, Done)
      PROVE  OrderInv'
  <2>1. \A x \in Rows : /\ rows'[x].list = rows[x].list
                        /\ rows'[x].sortOrder = rows[x].sortOrder
                        /\ rows[x].state # "absent" => rows'[x].state # "absent"
    BY <1>0, <1>1 DEF Gone, Row
  <2>. QED
    BY <1>0, <1>1, <2>1, StatesKeep DEF Gone
<1>2. CASE SoftDeleteMenu(r) \/ RestoreMenu(r)
  <2>1. PICK x \in Menus, s \in {"live", "deleted"} :
           rows' = [rows EXCEPT ![x].state = s]
    BY <1>2 DEF SoftDeleteMenu, RestoreMenu
  <2>2. \A y \in Rows : /\ rows'[y].list = rows[y].list
                        /\ rows'[y].sortOrder = rows[y].sortOrder
                        /\ rows[y].state # "absent" => rows'[y].state # "absent"
    BY <1>0, <2>1 DEF Row
  <2>3. Becomes(r, Done) /\ UNCHANGED kept
    BY <1>2 DEF SoftDeleteMenu, RestoreMenu, Ends
  <2>. QED
    BY <1>0, <2>2, <2>3, StatesKeep
<1>3. CASE CountMenus(r)
  <2>1. PICK c : Becomes(r, [pc |-> "counted", row |-> c])
    BY <1>3 DEF CountMenus
  <2>2. ~Past([pc |-> "counted", row |-> c])
    BY DEF Past
  <2>. QED
    BY <1>3, <2>1, <2>2, StatesKeep DEF CountMenus
<1>4. CASE DeleteCategory(r)
  <2>1. CASE UNCHANGED <<rows, kept>>
    BY <1>0, <1>4, <2>1, StatesKeep DEF DeleteCategory, Ends
  <2>. QED
    BY <1>1, <1>4, <2>1 DEF DeleteCategory, Ends
<1>5. CASE DeleteOption(r) \/ DeleteChoice(r)
  BY <1>1, <1>5 DEF DeleteOption, DeleteChoice, Ends
<1>. QED
  BY <1>2, <1>3, <1>4, <1>5 DEF Delete

\* A reorder that has found its rows keeps the order of the lists.
LEMMA CheckOrder ==
  ASSUME TypeOK, LockInv, OrderInv, NEW r \in Requests, CheckSet(r), Moves(r, "checked"),
         Named(reqs[r]) = Live(reqs[r].list)
  PROVE  OrderInv'
<1>1. /\ reqs[r].pc = "locked" /\ reqs[r].list \in Lists /\ UNCHANGED <<rows, kept>>
  BY DEF CheckSet, TypeOK, IsRequest, Reordering
<1>2. /\ reqs'[r].pc = "checked" /\ reqs'[r].list = reqs[r].list
      /\ Named(reqs'[r]) = Named(reqs[r])
      /\ \A s \in Requests \ {r} : reqs'[s] = reqs[s]
  BY BecomesFacts, NamedAt DEF Moves
<1>3. \A x \in Named(reqs[r]) : rows[x].list = reqs[r].list /\ rows[x].state # "absent"
  BY DEF Live
<1>4. \A s \in Requests \ {r} : reqs[s].pc # "checked"
  BY <1>1, OneAtATime DEF Holding
<1>5. /\ \A k \in kept' : /\ rows'[k[2]].list = k[1] /\ rows'[k[3]].list = k[1]
                          /\ rows'[k[2]].sortOrder < rows'[k[3]].sortOrder
      /\ \A s \in Requests : Past(reqs'[s]) =>
            \A x \in Named(reqs'[s]) : rows'[x].state # "absent"
  BY <1>1, <1>2, <1>3 DEF OrderInv
<1>6. \A s \in Requests : Past(reqs'[s]) =>
        \A k \in kept' : k[1] # reqs'[s].list =>
            k[2] \notin Named(reqs'[s]) /\ k[3] \notin Named(reqs'[s])
  BY <1>1, <1>2, <1>3 DEF OrderInv
<1>7. \A s, t \in Requests : s # t /\ Pending(reqs'[s]) /\ Pending(reqs'[t]) =>
        \A x \in Named(reqs'[s]) : x \notin Named(reqs'[t])
  BY <1>2 DEF OrderInv, Pending
<1>8. \A s, t \in Requests : reqs'[s].pc = "checked" /\ reqs'[t].pc = "released" =>
        \A x \in Named(reqs'[s]) : x \in Named(reqs'[t]) =>
            rows'[x].list = reqs'[s].list
  BY <1>1, <1>2, <1>3, <1>4
<1>. QED
  BY <1>5, <1>6, <1>7, <1>8 DEF OrderInv, Past, Pending, Named

\* The write of a reorder keeps the order of the lists.
LEMMA RenumberOrder ==
  ASSUME TypeOK, OrderInv, NEW r \in Requests, Renumber(r)
  PROVE  OrderInv'
<1>1. /\ reqs[r].pc = "checked" /\ UNCHANGED <<rows, kept>>
      /\ \A x \in Named(reqs[r]) : RowFree(x)
  BY DEF Renumber
<1>2. /\ reqs'[r].pc = "renumbered" /\ reqs'[r].list = reqs[r].list
      /\ Named(reqs'[r]) = Named(reqs[r])
      /\ \A s \in Requests \ {r} : reqs'[s] = reqs[s]
  BY BecomesFacts, NamedAt DEF Renumber, Moves
<1>3. Past(reqs[r])
  BY <1>1 DEF Past
<1>4. /\ \A k \in kept' : /\ rows'[k[2]].list = k[1] /\ rows'[k[3]].list = k[1]
                          /\ rows'[k[2]].sortOrder < rows'[k[3]].sortOrder
      /\ \A s \in Requests : Past(reqs'[s]) =>
            \A x \in Named(reqs'[s]) : rows'[x].state # "absent"
  BY <1>1, <1>2, <1>3 DEF OrderInv
<1>5. \A s \in Requests : Past(reqs'[s]) =>
        \A k \in kept' : k[1] # reqs'[s].list =>
            k[2] \notin Named(reqs'[s]) /\ k[3] \notin Named(reqs'[s])
  BY <1>1, <1>2, <1>3 DEF OrderInv
<1>6. \A s \in Requests \ {r} : Pending(reqs[s]) =>
        \A x \in Named(reqs[r]) : x \notin Named(reqs[s])
  BY <1>1 DEF RowFree
<1>7. \A s, t \in Requests : s # t /\ Pending(reqs'[s]) /\ Pending(reqs'[t]) =>
        \A x \in Named(reqs'[s]) : x \notin Named(reqs'[t])
  BY <1>2, <1>6 DEF OrderInv
<1>8. \A s, t \in Requests : reqs'[s].pc = "checked" /\ reqs'[t].pc = "released" =>
        \A x \in Named(reqs'[s]) : x \in Named(reqs'[t]) =>
            rows'[x].list = reqs'[s].list
  BY <1>1, <1>2 DEF OrderInv
<1>. QED
  BY <1>4, <1>5, <1>7, <1>8 DEF OrderInv, Past, Pending, Named

\* The end of a reorder keeps the order of the lists.
LEMMA ReleaseOrder ==
  ASSUME TypeOK, LockInv, OrderInv, NEW r \in Requests, ReleaseLock(r)
  PROVE  OrderInv'
<1>1. /\ reqs[r].pc = "renumbered" /\ UNCHANGED <<rows, kept>>
  BY DEF ReleaseLock
<1>2. /\ reqs'[r].pc = "released" /\ reqs'[r].list = reqs[r].list
      /\ Named(reqs'[r]) = Named(reqs[r])
      /\ \A s \in Requests \ {r} : reqs'[s] = reqs[s]
  BY BecomesFacts, NamedAt DEF ReleaseLock, Moves
<1>3. \A s \in Requests : reqs'[s].pc # "checked"
  BY <1>1, <1>2, OneAtATime DEF Holding
<1>4. Past(reqs[r]) /\ Pending(reqs[r])
  BY <1>1 DEF Past, Pending
<1>5. /\ \A k \in kept' : /\ rows'[k[2]].list = k[1] /\ rows'[k[3]].list = k[1]
                          /\ rows'[k[2]].sortOrder < rows'[k[3]].sortOrder
      /\ \A s \in Requests : Past(reqs'[s]) =>
            \A x \in Named(reqs'[s]) : rows'[x].state # "absent"
  BY <1>1, <1>2, <1>4 DEF OrderInv
<1>6. \A s \in Requests : Past(reqs'[s]) =>
        \A k \in kept' : k[1] # reqs'[s].list =>
            k[2] \notin Named(reqs'[s]) /\ k[3] \notin Named(reqs'[s])
  BY <1>1, <1>2, <1>4 DEF OrderInv
<1>7. \A s, t \in Requests : s # t /\ Pending(reqs'[s]) /\ Pending(reqs'[t]) =>
        \A x \in Named(reqs'[s]) : x \notin Named(reqs'[t])
  BY <1>2, <1>4 DEF OrderInv
<1>. QED
  BY <1>3, <1>5, <1>6, <1>7 DEF OrderInv, Past, Pending, Named

(* The order that is committed is about rows of its list; whoever names    *)
(* one of them too is a reorder of this list.                              *)
LEMMA CommitOrder ==
  ASSUME TypeOK, OrderInv, NEW r \in Requests, Commit(r)
  PROVE  OrderInv'
<1> DEFINE q == reqs[r]
           hit == {x \in Named(q) : Exists(x)}
           here == {x \in hit : rows[x].list = q.list}
           new == {k \in {q.list} \X here \X here : PositionOf(q, k[2]) < PositionOf(q, k[3])}
<1>1. /\ q.pc = "released" /\ Becomes(r, Done)
      /\ \A x \in Rows : rows'[x] = IF x \in hit
               THEN [rows[x] EXCEPT !.sortOrder = 10 * PositionOf(q, x)]
               ELSE rows[x]
      /\ kept' = {k \in kept : k[1] # q.list} \cup new
  BY DEF Commit, STEP
<1>2. Past(q) /\ Pending(q)
  BY <1>1 DEF Past, Pending
<1>3. /\ Named(q) \subseteq Rows /\ DOMAIN q.order \subseteq Nat /\ rows \in [Rows -> Row]
  BY <1>1, MembersOf DEF TypeOK, IsRequest, Reordering
<1>4. \A x \in hit : PositionOf(q, x) \in Nat
  BY <1>3 DEF PositionOf, Named
<1>5. ASSUME NEW x \in Rows
      PROVE  /\ rows'[x].list = rows[x].list /\ rows'[x].state = rows[x].state
             /\ x \in hit => rows'[x].sortOrder = 10 * PositionOf(q, x)
             /\ x \notin hit => rows'[x] = rows[x]
  <2>1. rows[x] \in Row
    BY <1>3
  <2>2. CASE x \in hit
    BY <1>1, <2>1, <2>2 DEF Row
  <2>3. CASE x \notin hit
    BY <1>1, <2>3
  <2>. QED
    BY <2>2, <2>3
<1>6. /\ \A s \in Requests : Past(reqs'[s]) => s # r
      /\ \A s \in Requests \ {r} : reqs'[s] = reqs[s]
      /\ reqs'[r].pc = "done"
  <2>1. reqs'[r] = Done /\ \A s \in Requests \ {r} : reqs'[s] = reqs[s]
    BY <1>1, BecomesFacts
  <2>. QED
    BY <2>1 DEF Past, Done
<1>7. \A s \in Requests : Past(reqs[s]) => Named(reqs[s]) \subseteq Rows
  BY MembersOf DEF Past, TypeOK, IsRequest, Reordering
<1>8. \A k \in new : /\ k[1] = q.list /\ k[2] \in here /\ k[3] \in here
                     /\ PositionOf(q, k[2]) < PositionOf(q, k[3])
  OBVIOUS
<1>9. \A x \in here : x \in hit /\ x \in Rows /\ rows[x].list = q.list /\ x \in Named(q)
  BY <1>3
<1>10. \A k \in kept : k[1] # q.list => k[2] \notin hit /\ k[3] \notin hit
  BY <1>2 DEF OrderInv
<1>11. \A k \in kept : k[2] \in Rows /\ k[3] \in Rows
  BY DEF TypeOK
<1> HIDE DEF q, hit, here, new
<1>12. ASSUME NEW k \in kept'
       PROVE  /\ rows'[k[2]].list = k[1] /\ rows'[k[3]].list = k[1]
              /\ rows'[k[2]].sortOrder < rows'[k[3]].sortOrder
  <2>1. CASE k \in kept /\ k[1] # q.list
    BY <1>5, <1>10, <1>11, <2>1 DEF OrderInv
  <2>2. CASE k \in new
    <3> DEFINE a == PositionOf(q, k[2])  b == PositionOf(q, k[3])
    <3>1. a \in Nat /\ b \in Nat /\ a < b
      BY <1>4, <1>8, <1>9, <2>2
    <3>2. rows'[k[2]].sortOrder = 10 * a /\ rows'[k[3]].sortOrder = 10 * b
      BY <1>5, <1>8, <1>9, <2>2
    <3>3. rows'[k[2]].list = k[1] /\ rows'[k[3]].list = k[1]
      BY <1>5, <1>8, <1>9, <2>2
    <3> HIDE DEF a, b
    <3>. QED
      BY <3>1, <3>2, <3>3
  <2>. QED
    BY <1>1, <1>12, <2>1, <2>2
<1>13. \A s \in Requests : Past(reqs'[s]) =>
         \A x \in Named(reqs'[s]) : rows'[x].state # "absent"
  BY <1>5, <1>6, <1>7 DEF OrderInv
<1>14. ASSUME NEW s \in Requests, Past(reqs[s]), s # r, NEW x \in here,
              x \in Named(reqs[s])
       PROVE  reqs[s].list = q.list
  <2>1. ~Pending(reqs[s])
    BY <1>2, <1>9, <1>14 DEF OrderInv, q
  <2>2. reqs[s].pc = "checked"
    BY <1>14, <2>1 DEF Past, Pending
  <2>3. rows[x].list = reqs[s].list
    BY <1>1, <1>9, <1>14, <2>2 DEF OrderInv, q
  <2>. QED
    BY <1>9, <2>3
<1>15. ASSUME NEW s \in Requests, Past(reqs'[s]), NEW k \in kept', k[1] # reqs'[s].list
       PROVE  k[2] \notin Named(reqs'[s]) /\ k[3] \notin Named(reqs'[s])
  <2>1. s # r /\ reqs'[s] = reqs[s] /\ Past(reqs[s])
    BY <1>6, <1>15
  <2>2. CASE k \in kept
    BY <1>15, <2>1, <2>2 DEF OrderInv
  <2>3. CASE k \in new
    BY <1>8, <1>14, <1>15, <2>1, <2>3
  <2>. QED
    BY <1>1, <1>15, <2>2, <2>3
<1>16. \A s, t \in Requests : s # t /\ Pending(reqs'[s]) /\ Pending(reqs'[t]) =>
         \A x \in Named(reqs'[s]) : x \notin Named(reqs'[t])
  BY <1>6 DEF OrderInv, Pending
<1>17. \A s, t \in Requests : reqs'[s].pc = "checked" /\ reqs'[t].pc = "released" =>
         \A x \in Named(reqs'[s]) : x \in Named(reqs'[t]) =>
             rows'[x].list = reqs'[s].list
  <2>1. ASSUME NEW s \in Requests, NEW t \in Requests, reqs'[s].pc = "checked",
               reqs'[t].pc = "released",
               NEW x \in Named(reqs'[s]), x \in Named(reqs'[t])
        PROVE  rows'[x].list = reqs'[s].list
    <3>1. reqs'[s] = reqs[s] /\ reqs'[t] = reqs[t]
      BY <1>6, <2>1
    <3>2. Past(reqs[s])
      BY <2>1, <3>1 DEF Past
    <3>. QED
      BY <1>5, <1>7, <2>1, <3>1, <3>2 DEF OrderInv
  <2>. QED
    BY <2>1
<1>. QED
  BY <1>12, <1>13, <1>15, <1>16, <1>17 DEF OrderInv, Past, Pending, Named

\* Every step keeps the order of the lists.
LEMMA OrderStep ==
  ASSUME TypeOK, LockInv, OrderInv, [Next]_vars
  PROVE  OrderInv'
<1>1. ~Past(Done)
  BY DEF Past, Done
<1>2. ASSUME NEW r \in Requests, NEW l, SendsOrder(r, l)
      PROVE  OrderInv'
  <2>1. PICK c \in Conns, o \in Orders(Live(l)) :
          Becomes(r, [pc |-> "waiting", list |-> l, order |-> o, conn |-> c,
                      waited |-> 0, worked |-> 0])
    BY <1>2 DEF SendsOrder
  <2>2. ~Past([pc |-> "waiting", list |-> l, order |-> o, conn |-> c,
               waited |-> 0, worked |-> 0])
    BY DEF Past
  <2>. QED
    BY <1>2, <2>1, <2>2, StatesKeep DEF SendsOrder
<1>3. ASSUME NEW r \in Requests, Reorder(r)
      PROVE  OrderInv'
  <2>1. CASE AcquireLock(r)
    <3>1. ~Past(At(reqs[r], "locked", reqs[r].waited, reqs[r].worked))
      BY DEF At, Past
    <3>. QED
      BY <2>1, <3>1, StatesKeep DEF AcquireLock, Moves
  <2>2. CASE LockTimesOut(r) \/ Overrun(r)
    BY <1>1, <2>2, StatesKeep DEF LockTimesOut, Overrun
  <2>3. CASE CheckSet(r)
    <3>1. CASE Becomes(r, Done)
      BY <1>1, <2>3, <3>1, StatesKeep DEF CheckSet
    <3>. QED
      BY <2>3, <3>1, CheckOrder DEF CheckSet
  <2>. QED
    BY <1>2, <1>3, <2>1, <2>2, <2>3, RenumberOrder, ReleaseOrder, CommitOrder
    DEF Reorder, ReorderCategories, ReorderMenus, ReorderOptions, ReorderChoices
<1>4. ASSUME UNCHANGED <<rows, kept>>,
             \A s \in Requests : Past(reqs'[s]) =>
                 /\ reqs'[s].pc = reqs[s].pc /\ reqs'[s].list = reqs[s].list
                 /\ Named(reqs'[s]) = Named(reqs[s])
      PROVE  OrderInv'
  BY <1>4, OthersKeep
<1>5. ASSUME NEW c \in Conns, ConnectionEnds(c)
      PROVE  OrderInv'
  <2>1. \A s \in Requests : Past(reqs'[s]) => reqs'[s] = reqs[s]
    BY <1>1, <1>5 DEF ConnectionEnds
  <2>. QED
    BY <1>4, <1>5, <2>1 DEF ConnectionEnds
<1>6. CASE Tick
  <2>1. \A s \in Requests : /\ reqs'[s].pc = reqs[s].pc
                            /\ Past(reqs'[s]) => reqs'[s].list = reqs[s].list
                            /\ Past(reqs'[s]) => Named(reqs'[s]) = Named(reqs[s])
    BY <1>6, NamedAt DEF Tick
  <2>. QED
    BY <1>4, <1>6, <2>1 DEF Tick
<1>7. CASE UNCHANGED vars
  BY <1>4, <1>7 DEF vars
<1>. QED
  BY <1>3, <1>5, <1>6, <1>7, PlaceOrder, DeleteOrder DEF Next

-----------------------------------------------------------------------------
(* What a creation or a move has read is still the end of its list, unless *)
(* the list has been written.                                              *)
ReadHolds ==
  \A r \in Requests \ overtaken : reqs[r].pc = "placing" =>
     \A y \in Rows : rows[y].list = reqs[r].list /\ rows[y].state = "live" =>
         rows[y].sortOrder < reqs[r].next

\* What a placement has read stands while its list gains no row.
LEMMA ReadKeeps ==
  ASSUME ReadHolds,
         \A s \in Requests \ overtaken' : reqs'[s].pc = "placing" =>
            /\ reqs'[s] = reqs[s] /\ s \notin overtaken
            /\ \A y \in Rows : rows'[y].list = reqs[s].list /\ rows'[y].state = "live" =>
                  /\ rows[y].list = reqs[s].list /\ rows[y].state = "live"
                  /\ rows'[y].sortOrder = rows[y].sortOrder
  PROVE  ReadHolds'
BY DEF ReadHolds

\* Every step keeps what the placements under way have read.
LEMMA ReadStep ==
  ASSUME TypeOK, ReadHolds, [Next]_vars
  PROVE  ReadHolds'
<1>0. /\ rows \in [Rows -> Row] /\ Done.pc = "done"
  BY DEF TypeOK, Done
<1>1. ASSUME NEW r \in Requests, NEW q, Becomes(r, q), q.pc # "placing",
             overtaken \subseteq overtaken' \cup {r},
             \A y \in Rows : /\ rows'[y].list = rows[y].list
                             /\ rows'[y].state = "live" => rows[y].state = "live"
                             /\ rows'[y].sortOrder = rows[y].sortOrder
      PROVE  ReadHolds'
  <2>1. /\ reqs'[r] = q /\ \A s \in Requests \ {r} : reqs'[s] = reqs[s]
    BY <1>1, BecomesFacts
  <2>. QED
    BY <1>1, <2>1, ReadKeeps
<1>2. ASSUME NEW r \in Requests, NEW l \in Lists, NEW moved, ReadsNext(r, l, moved)
      PROVE  ReadHolds'
  <2> DEFINE q == [pc |-> "placing", list |-> l, next |-> NextSortOrder(l),
                   moved |-> moved]
  <2>1. /\ Becomes(r, q) /\ UNCHANGED <<rows, overtaken>>
    BY <1>2 DEF ReadsNext
  <2>2. /\ reqs'[r] = q /\ \A s \in Requests \ {r} : reqs'[s] = reqs[s]
    BY <2>1, BecomesFacts
  <2>3. \A y \in Rows : rows[y].list = l /\ rows[y].state = "live" => y \in Live(l)
    BY DEF TypeOK, Exists, Live
  <2>4. \A y \in Rows : rows[y].list = l /\ rows[y].state = "live" =>
            rows[y].sortOrder < NextSortOrder(l)
    BY <1>0, <2>3, NextIsLast
  <2>5. q.list = l /\ q.next = NextSortOrder(l)
    OBVIOUS
  <2> HIDE DEF q
  <2>. QED
    BY <2>1, <2>2, <2>4, <2>5 DEF ReadHolds
<1>3. ASSUME NEW r \in Requests, NEW x \in Rows, NEW row, Becomes(r, Done),
             Placed(r, x, row)
      PROVE  ReadHolds'
  <2>1. /\ \A y \in Rows : rows'[y] = IF y = x THEN row ELSE rows[y]
        /\ overtaken' = (overtaken \ {r})
             \cup {q \in Requests \ {r} :
                     reqs[q].pc = "placing" /\ reqs[q].list \in {row.list, rows[x].list}}
    BY <1>0, <1>3 DEF Placed, Overtakes
  <2>2. /\ reqs'[r] = Done /\ \A s \in Requests \ {r} : reqs'[s] = reqs[s]
    BY <1>3, BecomesFacts
  <2>3. \A s \in Requests \ overtaken' : reqs'[s].pc = "placing" =>
          /\ reqs'[s] = reqs[s] /\ s \notin overtaken /\ reqs[s].list # row.list
    BY <1>0, <2>1, <2>2
  <2>. QED
    BY <2>1, <2>3, ReadKeeps
<1>4. ASSUME NEW r \in Requests, Reorder(r)
      PROVE  ReadHolds'
  <2>1. ASSUME NEW l, SendsOrder(r, l)
        PROVE  ReadHolds'
    <3>1. PICK c \in Conns, o \in Orders(Live(l)) :
            Becomes(r, [pc |-> "waiting", list |-> l, order |-> o, conn |-> c,
                        waited |-> 0, worked |-> 0])
      BY <2>1 DEF SendsOrder
    <3>. QED
      BY <1>1, <2>1, <3>1 DEF SendsOrder
  <2>2. ASSUME NEW pc, pc # "placing", Moves(r, pc), UNCHANGED <<rows, overtaken>>
        PROVE  ReadHolds'
    <3>1. At(reqs[r], pc, reqs[r].waited, reqs[r].worked).pc = pc
      BY NamedAt
    <3>. QED
      BY <1>1, <2>2, <3>1 DEF Moves
  <2>3. CASE Commit(r)
    <3> DEFINE q == reqs[r]
               hit == {x \in Named(q) : Exists(x)}
    <3>1. /\ Becomes(r, Done)
          /\ \A x \in Rows : x \notin hit => rows'[x] = rows[x]
          /\ overtaken' = (overtaken \ {})
               \cup {s \in Requests \ {} : reqs[s].pc = "placing"
                       /\ reqs[s].list \in {q.list} \cup {rows[x].list : x \in hit}}
      BY <2>3 DEF Commit, Overtakes
    <3>2. \A x \in Rows : x \in hit => rows'[x].list = rows[x].list
      BY <1>0, <2>3 DEF Commit, Row
    <3>3. /\ reqs'[r] = Done /\ \A s \in Requests \ {r} : reqs'[s] = reqs[s]
      BY <3>1, BecomesFacts
    <3> HIDE DEF hit, q
    <3>4. \A s \in Requests \ overtaken' : reqs'[s].pc = "placing" =>
            /\ reqs'[s] = reqs[s] /\ s \notin overtaken
            /\ \A x \in hit : reqs[s].list # rows[x].list
      BY <1>0, <3>1, <3>3
    <3>. QED
      BY <3>1, <3>2, <3>4, ReadKeeps
  <2>4. CASE LockTimesOut(r) \/ Overrun(r)
    BY <1>0, <1>1, <2>4 DEF LockTimesOut, Overrun
  <2>5. CASE CheckSet(r)
    BY <1>0, <1>1, <2>2, <2>5 DEF CheckSet
  <2>. QED
    BY <1>4, <2>1, <2>2, <2>3, <2>4, <2>5 DEF Reorder, ReorderCategories, ReorderMenus,
       ReorderOptions, ReorderChoices, AcquireLock, Renumber, ReleaseLock
<1>5. ASSUME NEW r \in Requests, Place(r)
      PROVE  ReadHolds'
  <2>1. CASE Insert(r) \/ MoveMenu(r)
    <3>1. Becomes(r, Done) /\ reqs[r].pc = "placing"
      BY <2>1 DEF Insert, MoveMenu, Ends
    <3>2. Members(reqs[r].list) \subseteq Rows /\ reqs[r].moved \subseteq Rows
      BY <3>1, MembersOf DEF TypeOK, IsRequest, Rows
    <3>3. CASE UNCHANGED <<rows, overtaken>>
      BY <1>0, <1>1, <3>1, <3>3
    <3>4. CASE \E x \in Rows : \E row : Placed(r, x, row)
      BY <1>3, <3>1, <3>4
    <3>. QED
      BY <2>1, <3>2, <3>3, <3>4 DEF Insert, MoveMenu
  <2>2. CASE ~(Insert(r) \/ MoveMenu(r))
    <3>1. PICK l, moved : l \in Lists /\ ReadsNext(r, l, moved)
      BY <1>5, <2>2 DEF Place, CreateCategory, CreateMenu, CreateOption, CreateChoice,
         ResolveCategoryMove, Lists
    <3>. QED
      BY <1>2, <3>1
  <2>. QED
    BY <2>1, <2>2
<1>6. ASSUME NEW r \in Requests, Delete(r)
      PROVE  ReadHolds'
  <2>1. ASSUME NEW S, Gone(S), Becomes(r, Done), UNCHANGED overtaken
        PROVE  ReadHolds'
    <3>1. \A y \in Rows : /\ rows'[y].list = rows[y].list
                          /\ rows'[y].state = "live" => rows[y].state = "live"
                          /\ rows'[y].sortOrder = rows[y].sortOrder
      BY <1>0, <2>1 DEF Gone, Row
    <3>. QED
      BY <1>0, <1>1, <2>1, <3>1
  <2>2. CASE SoftDeleteMenu(r)
    <3>1. PICK x \in Menus : rows' = [rows EXCEPT ![x].state = "deleted"]
      BY <2>2 DEF SoftDeleteMenu
    <3>2. \A y \in Rows : /\ rows'[y].list = rows[y].list
                          /\ rows'[y].state = "live" => rows[y].state = "live"
                          /\ rows'[y].sortOrder = rows[y].sortOrder
      BY <1>0, <3>1 DEF Row
    <3>. QED
      BY <1>0, <1>1, <2>2, <3>2 DEF SoftDeleteMenu, Ends
  <2>3. CASE RestoreMenu(r)
    <3>1. PICK x \in Menus : /\ rows' = [rows EXCEPT ![x].state = "live"]
                             /\ Overtakes({}, {rows[x].list})
      BY <2>3 DEF RestoreMenu
    <3>2. \A y \in Rows : /\ rows'[y].list = rows[y].list
                          /\ y # x => rows'[y] = rows[y]
      BY <1>0, <3>1 DEF Row
    <3>3. overtaken' = overtaken \cup {q \in Requests : reqs[q].pc = "placing"
                                          /\ reqs[q].list = rows[x].list}
      BY <3>1 DEF Overtakes
    <3>4. /\ reqs'[r] = Done /\ \A s \in Requests \ {r} : reqs'[s] = reqs[s]
      BY <2>3, BecomesFacts DEF RestoreMenu, Ends
    <3>5. \A s \in Requests \ overtaken' : reqs'[s].pc = "placing" =>
            /\ reqs'[s] = reqs[s] /\ s \notin overtaken /\ reqs[s].list # rows[x].list
      BY <1>0, <3>3, <3>4
    <3>. QED
      BY <3>2, <3>5, ReadKeeps
  <2>4. CASE CountMenus(r)
    <3>1. PICK c : Becomes(r, [pc |-> "counted", row |-> c])
      BY <2>4 DEF CountMenus
    <3>. QED
      BY <1>1, <2>4, <3>1 DEF CountMenus
  <2>5. CASE DeleteCategory(r) /\ UNCHANGED <<rows, kept>>
    BY <1>0, <1>1, <2>5 DEF DeleteCategory, Ends
  <2>. QED
    BY <1>6, <2>1, <2>2, <2>3, <2>4, <2>5
    DEF Delete, DeleteCategory, DeleteOption, DeleteChoice, Ends
<1>7. ASSUME NEW c \in Conns, ConnectionEnds(c)
      PROVE  ReadHolds'
  <2>1. \A s \in Requests : reqs'[s].pc = "placing" => reqs'[s] = reqs[s]
    BY <1>0, <1>7 DEF ConnectionEnds
  <2>. QED
    BY <1>7, <2>1, ReadKeeps DEF ConnectionEnds
<1>8. CASE Tick
  <2>1. \A s \in Requests : reqs'[s].pc = "placing" => reqs'[s] = reqs[s]
    BY <1>8, NamedAt DEF Tick, Reordering
  <2>. QED
    BY <1>8, <2>1, ReadKeeps DEF Tick
<1>9. CASE UNCHANGED vars
  BY <1>9, ReadKeeps DEF vars
<1>. QED
  BY <1>4, <1>5, <1>6, <1>7, <1>8, <1>9 DEF Next

-----------------------------------------------------------------------------
(* The inductive invariant.                                                *)
IInv == TypeOK /\ LockInv /\ OrderInv /\ ReadHolds

\* The inductive invariant holds at the start.
LEMMA IInvInit == Init => IInv
<1> SUFFICES ASSUME Init
             PROVE  IInv
  OBVIOUS
<1>1. \A r \in Requests : reqs[r].pc = "ready"
  BY DEF Init, Ready
<1>2. RowsOK
  BY CatalogueAssumption, MembersOf DEF Init, RowsOK, Exists, IsThere, Row
<1>3. RequestsOK /\ kept = {}
  BY <1>1 DEF Init, RequestsOK, IsRequest, Reordering
<1>4. TypeOK
  BY <1>2, <1>3, TypeParts
<1>5. LockInv
  BY <1>1 DEF Init, LockInv, Reordering, Holding
<1>6. OrderInv
  BY <1>1, <1>3 DEF OrderInv, Past, Pending
<1>7. ReadHolds
  BY <1>1 DEF ReadHolds
<1>. QED
  BY <1>4, <1>5, <1>6, <1>7 DEF IInv

\* Every step keeps the inductive invariant.
LEMMA IInvStep == IInv /\ [Next]_vars => IInv'
<1> SUFFICES ASSUME IInv, [Next]_vars
             PROVE  IInv'
  OBVIOUS
<1>1. TypeOK /\ LockInv /\ OrderInv /\ ReadHolds
  BY DEF IInv
<1>2. RowsOK' /\ RequestsOK' /\ kept' \subseteq Lists \X Rows \X Rows
  BY <1>1, RowsStep, RequestsStep
<1>3. TypeOK'
  BY <1>2 DEF TypeOK, RowsOK, RequestsOK
<1>. QED
  BY <1>1, <1>3, LockInvStep, OrderStep, ReadStep DEF IInv

(* The strengthening on which the other theorems rest.                     *)
THEOREM IInvHolds == Spec => []IInv
BY IInvInit, IInvStep, PTL DEF Spec

(* Rows stay in lists of their kind that are there; requests are sound.    *)
THEOREM TypeCorrect == Spec => []TypeOK
<1>1. IInv => TypeOK
  BY DEF IInv
<1>. QED
  BY <1>1, IInvHolds, PTL

(* Whatever reorders, moves, creations and deletions run at once: the last *)
(* order committed for a list stands.                                      *)
THEOREM OrderStands == Spec => []OrderKept
<1>1. IInv => OrderKept
  BY DEF IInv, OrderInv, OrderKept
<1>. QED
  BY <1>1, IInvHolds, PTL

(* A placement whose read nobody has overtaken ends up last in its list.   *)
THEOREM PlacedLast == Spec => AppendedLast
<1>1. ASSUME IInv, Next,
             NEW r \in Requests \ overtaken, NEW x \in Rows,
             reqs[r].pc = "placing", reqs'[r].pc = "done", rows'[x] # rows[x]
      PROVE  \A y \in Rows \ {x} :
                rows'[y].list = reqs[r].list /\ rows'[y].state = "live" =>
                    rows'[y].sortOrder < rows'[x].sortOrder
  <2>0. TypeOK /\ ReadHolds /\ rows \in [Rows -> Row]
    BY <1>1 DEF IInv, TypeOK
  <2>1. ASSUME NEW s \in Requests, NEW q, Becomes(s, q)
        PROVE  s = r
    BY <1>1, <2>0, <2>1, BecomesFacts
  <2>2. CASE \E s \in Requests : Reorder(s)
    <3>0. PICK s \in Requests : Reorder(s)
      BY <2>2
    <3>1. \E q : Becomes(s, q)
      <4>1. ASSUME NEW l, SendsOrder(s, l)
            PROVE  \E q : Becomes(s, q)
        BY <4>1 DEF SendsOrder
      <4>. QED
        BY <3>0, <4>1 DEF Reorder, ReorderCategories, ReorderMenus, ReorderOptions,
           ReorderChoices, AcquireLock, LockTimesOut, CheckSet, Renumber,
           ReleaseLock, Commit, Overrun, Moves
    <3>2. Reorder(r)
      BY <2>1, <3>0, <3>1
    <3>. QED
      BY <1>1, <3>2 DEF Reorder, ReorderCategories, ReorderMenus, ReorderOptions,
         ReorderChoices, SendsOrder, AcquireLock, LockTimesOut, CheckSet, Renumber,
         ReleaseLock, Commit, Overrun, Reordering
  <2>3. CASE \E s \in Requests : Delete(s)
    <3>1. Delete(r)
      BY <2>1, <2>3 DEF Delete, SoftDeleteMenu, RestoreMenu, CountMenus, DeleteCategory,
         DeleteOption, DeleteChoice, Ends
    <3>. QED
      BY <1>1, <3>1 DEF Delete, SoftDeleteMenu, RestoreMenu, CountMenus, DeleteCategory,
         DeleteOption, DeleteChoice
  <2>4. CASE \E s \in Requests : Place(s)
    <3>1. Place(r)
      BY <2>1, <2>4, ZenonT(60) DEF Place, CreateCategory, CreateMenu, CreateOption, CreateChoice,
         ResolveCategoryMove, ReadsNext, Insert, MoveMenu, Ends
    <3>2. Insert(r) \/ MoveMenu(r)
      BY <1>1, <3>1 DEF Place, CreateCategory, CreateMenu, CreateOption, CreateChoice,
         ResolveCategoryMove, ReadsNext
    <3>3. reqs[r].list \in Lists /\ reqs[r].moved \subseteq Rows
      BY <1>1, <2>0 DEF TypeOK, IsRequest, Rows
    <3>4. PICK z, row :
             z \in Rows /\ Placed(r, z, row) /\ row.sortOrder = reqs[r].next
      <4>1. CASE Insert(r)
        BY <1>1, <3>3, <4>1, MembersOf DEF Insert
      <4>2. CASE MoveMenu(r)
        <5>1. PICK z \in reqs[r].moved : Placed(r, z, MovedTo(reqs[r], z))
          BY <1>1, <4>2 DEF MoveMenu
        <5>2. MovedTo(reqs[r], z).sortOrder = reqs[r].next
          BY <2>0, <3>3, <5>1 DEF MovedTo, Row
        <5>. QED
          BY <3>3, <5>1, <5>2
      <4>. QED
        BY <3>2, <4>1, <4>2
    <3>5. \A y \in Rows : rows'[y] = IF y = z THEN row ELSE rows[y]
      BY <2>0, <3>4 DEF Placed
    <3>6. x = z /\ rows'[x].sortOrder = reqs[r].next
      BY <1>1, <3>4, <3>5
    <3>. QED
      BY <1>1, <2>0, <3>5, <3>6 DEF ReadHolds
  <2>5. CASE Tick \/ \E c \in Conns : ConnectionEnds(c)
    BY <1>1, <2>5, NamedAt DEF Tick, ConnectionEnds
  <2>. QED
    BY <1>1, <2>2, <2>3, <2>4, <2>5 DEF Next
<1>2. IInv /\ [Next]_vars =>
        [\A r \in Requests \ overtaken, x \in Rows :
          reqs[r].pc = "placing" /\ reqs'[r].pc = "done" /\ rows'[x] # rows[x] =>
              \A y \in Rows \ {x} :
                  rows'[y].list = reqs[r].list /\ rows'[y].state = "live" =>
                      rows'[y].sortOrder < rows'[x].sortOrder]_vars
  BY <1>1
<1>. QED
  BY <1>2, IInvHolds, PTL DEF Spec, AppendedLast

-----------------------------------------------------------------------------
(* A lock that a request has is the only claim to its connection.          *)
LEMMA LeftIs ==
  ASSUME TypeOK, LockInv, NEW c \in Conns
  PROVE  /\ \A r \in Requests : Holding(reqs[r]) /\ reqs[r].conn = c =>
              LeftOn(c) = held[c] - 1
         /\ (\A r \in Requests : Holding(reqs[r]) => reqs[r].conn # c) =>
              LeftOn(c) = held[c]
         /\ held[c] \in Nat /\ LeftOn(c) \in Nat
<1>1. held[c] \in Nat
  BY DEF TypeOK
<1>2. \A r \in Requests : Holding(reqs[r]) /\ reqs[r].conn = c => held[c] > 0
  BY DEF LockInv
<1>. QED
  BY <1>1, <1>2 DEF LeftOn

(* However long a reorder has waited for the lock, it has all of its work  *)
(* budget before it can leave the lock behind.                             *)
THEOREM LockIsLeftByOverrun == Spec => LockLeftOnlyByOverrun
<1> DEFINE Ok(c) == \E r \in Requests : /\ Holding(reqs[r]) /\ reqs[r].conn = c
                                       /\ reqs[r].worked >= WorkBudget
<1>1. ASSUME IInv, IInv', Next, NEW c \in Conns, LeftOn(c)' > LeftOn(c)
      PROVE  Ok(c)
  <2>0. /\ TypeOK /\ LockInv /\ TypeOK' /\ LockInv'
        /\ LockTimeout \in Nat /\ WorkBudget \in Nat
    BY <1>1, CatalogueAssumption DEF IInv
  <2> DEFINE H == \E r \in Requests : Holding(reqs[r]) /\ reqs[r].conn = c
             H1 == \E r \in Requests : Holding(reqs'[r]) /\ reqs'[r].conn = c
  <2>1. /\ LeftOn(c) = IF H THEN held[c] - 1 ELSE held[c]
        /\ LeftOn(c)' = IF H1 THEN held'[c] - 1 ELSE held'[c]
        /\ held[c] \in Nat /\ held'[c] \in Nat /\ LeftOn(c) \in Nat
    BY <2>0, LeftIs DEF LeftOn, Holding, TypeOK
  <2>2. ASSUME NEW r \in Requests, NEW q, Becomes(r, q), UNCHANGED held,
               Holding(q) = Holding(reqs[r]), q.conn = reqs[r].conn \/ ~Holding(q)
        PROVE  FALSE
    <3>1. /\ reqs'[r] = q /\ \A s \in Requests \ {r} : reqs'[s] = reqs[s]
      BY <2>0, <2>2, BecomesFacts
    <3>2. H = H1
      BY <2>2, <3>1
    <3>. QED
      BY <1>1, <2>1, <2>2, <3>2
  <2>3. ASSUME NEW r \in Requests, AcquireLock(r)
        PROVE  FALSE
    <3>1. /\ reqs[r].pc = "waiting" /\ Reordering(reqs[r]) /\ reqs[r].conn \in Conns
          /\ held \in [Conns -> Nat]
      BY <2>0, <2>3 DEF AcquireLock, TypeOK, IsRequest, Reordering
    <3>2. /\ reqs'[r].conn = reqs[r].conn /\ reqs'[r].pc = "locked"
          /\ \A s \in Requests \ {r} : reqs'[s] = reqs[s]
      BY <2>0, <2>3, BecomesFacts DEF AcquireLock, Moves, At
    <3>3. held'[c] = IF c = reqs[r].conn THEN held[c] + 1 ELSE held[c]
      BY <2>3, <3>1 DEF AcquireLock
    <3>4. CASE c = reqs[r].conn
      <4>1. H1 /\ ~H
        BY <2>0, <3>1, <3>2, <3>4 DEF Holding, Reordering, LockInv
      <4>. QED
        BY <1>1, <2>1, <3>3, <3>4, <4>1
    <3>5. CASE c # reqs[r].conn
      <4>1. H = H1
        BY <3>1, <3>2, <3>5 DEF Holding
      <4>. QED
        BY <1>1, <2>1, <3>3, <3>5, <4>1
    <3>. QED
      BY <3>4, <3>5
  <2>4. ASSUME NEW r \in Requests, Holding(reqs[r]), NEW q, Becomes(r, q), Release(r),
               ~Holding(q)
        PROVE  FALSE
    <3>1. /\ reqs[r].conn \in Conns
          /\ held'[reqs[r].conn] = held[reqs[r].conn] - 1
          /\ \A d \in Conns \ {reqs[r].conn} : held'[d] = held[d]
      BY <2>0, <2>4, OneLess
    <3>2. /\ reqs'[r] = q /\ \A s \in Requests \ {r} : reqs'[s] = reqs[s]
      BY <2>0, <2>4, BecomesFacts
    <3>3. CASE c = reqs[r].conn
      <4>1. H /\ ~H1
        BY <2>0, <2>4, <3>2, <3>3, OneAtATime
      <4>. QED
        BY <1>1, <2>1, <3>1, <3>3, <4>1
    <3>4. CASE c # reqs[r].conn
      <4>1. H = H1
        BY <2>4, <3>2, <3>4
      <4>. QED
        BY <1>1, <2>1, <3>1, <3>4, <4>1
    <3>. QED
      BY <3>3, <3>4
  <2>5. ASSUME NEW r \in Requests, Overrun(r)
        PROVE  Ok(c)
    <3>1. /\ reqs[r].waited \in 0 .. LockTimeout /\ reqs[r].worked \in 0 .. TxTimeout
          /\ reqs[r].waited + reqs[r].worked >= LockTimeout + WorkBudget
          /\ Becomes(r, Done) /\ UNCHANGED held
      BY <2>0, <2>5 DEF Overrun, TypeOK, IsRequest, Age, TxTimeout
    <3>2. reqs[r].worked >= WorkBudget
      BY <2>0, <3>1 DEF TxTimeout
    <3>3. ~Holding(Done)
      BY DEF Holding, Done
    <3>4. CASE ~Holding(reqs[r])
      BY <2>2, <3>1, <3>3, <3>4 DEF Holding
    <3>5. CASE Holding(reqs[r]) /\ reqs[r].conn = c
      BY <3>2, <3>5
    <3>6. CASE Holding(reqs[r]) /\ reqs[r].conn # c
      <4>1. /\ reqs'[r] = Done /\ \A s \in Requests \ {r} : reqs'[s] = reqs[s]
        BY <2>0, <3>1, BecomesFacts
      <4>2. H = H1
        BY <3>3, <3>6, <4>1
      <4>. QED
        BY <1>1, <2>1, <3>1, <4>2
    <3>. QED
      BY <3>4, <3>5, <3>6
  <2>6. ASSUME NEW d \in Conns, ConnectionEnds(d)
        PROVE  FALSE
    <3>1. held'[c] = IF c = d THEN 0 ELSE held[c]
      BY <2>0, <2>6 DEF ConnectionEnds, TypeOK
    <3>2. \A s \in Requests :
            reqs'[s] = IF Reordering(reqs[s]) /\ reqs[s].conn = d THEN Done ELSE reqs[s]
      BY <2>6 DEF ConnectionEnds
    <3>3. \A s \in Requests : Holding(reqs'[s]) => reqs'[s] = reqs[s]
      BY <3>2 DEF Holding, Done
    <3>4. c # d => H = H1
      BY <3>2, <3>3 DEF Holding, Done
    <3>. QED
      BY <1>1, <2>1, <3>1, <3>4
  <2>7. CASE Tick
    <3>1. \A s \in Requests :
            /\ Holding(reqs'[s]) <=> Holding(reqs[s])
            /\ Holding(reqs[s]) => reqs'[s].conn = reqs[s].conn
      BY <2>7 DEF Tick, At, Holding, Reordering
    <3>2. H = H1
      BY <3>1
    <3>. QED
      BY <1>1, <2>1, <2>7, <3>2 DEF Tick
  <2>8. ASSUME NEW r \in Requests, Reorder(r)
        PROVE  Ok(c)
    <3>0. ~Holding(Done)
      BY DEF Holding, Done
    <3>1. ASSUME NEW l, SendsOrder(r, l)
          PROVE  FALSE
      <4>1. PICK d \in Conns, o \in Orders(Live(l)) :
              Becomes(r, [pc |-> "waiting", list |-> l, order |-> o, conn |-> d,
                          waited |-> 0, worked |-> 0])
        BY <3>1 DEF SendsOrder
      <4>2. ~Holding([pc |-> "waiting", list |-> l, order |-> o, conn |-> d,
                      waited |-> 0, worked |-> 0]) /\ ~Holding(reqs[r])
        BY <3>1 DEF SendsOrder, Holding
      <4>. QED
        BY <2>2, <3>1, <4>1, <4>2 DEF SendsOrder, Holding
    <3>2. CASE LockTimesOut(r) \/ Commit(r)
      <4>1. ~Holding(reqs[r]) /\ Becomes(r, Done) /\ UNCHANGED held
        BY <3>2 DEF LockTimesOut, Commit, Holding
      <4>. QED
        BY <2>2, <3>0, <4>1 DEF Holding
    <3>3. CASE CheckSet(r)
      <4>1. Holding(reqs[r])
        BY <3>3 DEF CheckSet, Holding
      <4>2. CASE Becomes(r, Done) /\ Release(r)
        BY <2>4, <3>0, <4>1, <4>2
      <4>3. CASE Moves(r, "checked") /\ UNCHANGED held
        <5> DEFINE q == At(reqs[r], "checked", reqs[r].waited, reqs[r].worked)
        <5>1. Holding(q) /\ q.conn = reqs[r].conn
          BY DEF At, Holding
        <5>. QED
          BY <2>2, <4>1, <4>3, <5>1 DEF Moves, Holding
      <4>. QED
        BY <3>3, <4>2, <4>3 DEF CheckSet
    <3>4. CASE Renumber(r)
      <4> DEFINE q == At(reqs[r], "renumbered", reqs[r].waited, reqs[r].worked)
      <4>1. Holding(q) /\ q.conn = reqs[r].conn /\ Holding(reqs[r])
        BY <3>4 DEF At, Holding, Renumber
      <4>. QED
        BY <2>2, <3>4, <4>1 DEF Moves, Holding, Renumber
    <3>5. CASE ReleaseLock(r)
      <4> DEFINE q == At(reqs[r], "released", reqs[r].waited, reqs[r].worked)
      <4>1. ~Holding(q) /\ Holding(reqs[r])
        BY <3>5 DEF At, Holding, ReleaseLock
      <4>. QED
        BY <2>4, <3>5, <4>1 DEF Moves, ReleaseLock
    <3>. QED
      BY <2>3, <2>5, <2>8, <3>1, <3>2, <3>3, <3>4, <3>5 DEF Reorder, ReorderCategories,
         ReorderMenus, ReorderOptions, ReorderChoices
  <2>9. ASSUME NEW r \in Requests, Place(r) \/ Delete(r)
        PROVE  FALSE
    <3>1. PICK q : /\ Becomes(r, q) /\ ~Holding(q)
                   /\ UNCHANGED held /\ ~Holding(reqs[r])
      <4>1. CASE \E l, moved : ReadsNext(r, l, moved)
        BY <4>1 DEF ReadsNext, Holding
      <4>2. CASE CountMenus(r)
        BY <4>2 DEF CountMenus, Holding
      <4>3. CASE Insert(r) \/ MoveMenu(r) \/ (Delete(r) /\ ~CountMenus(r))
        <5>1. Becomes(r, Done) /\ UNCHANGED held /\ ~Holding(reqs[r])
          BY <4>3 DEF Insert, MoveMenu, Delete, SoftDeleteMenu, RestoreMenu,
             DeleteCategory, DeleteOption, DeleteChoice, Ends, Holding
        <5>. QED
          BY <5>1 DEF Holding, Done
      <4>. QED
        BY <2>9, <4>1, <4>2, <4>3 DEF Place, CreateCategory, CreateMenu, CreateOption,
           CreateChoice, ResolveCategoryMove
    <3>. QED
      BY <2>2, <3>1 DEF Holding
  <2>. QED
    BY <1>1, <2>6, <2>7, <2>8, <2>9 DEF Next
<1>2. ASSUME IInv, IInv', [Next]_vars
      PROVE  [\A c \in Conns : LeftOn(c)' > LeftOn(c) =>
                \E r \in Requests :
                    /\ Holding(reqs[r]) /\ reqs[r].conn = c
                    /\ reqs[r].worked >= WorkBudget]_vars
  BY <1>1, <1>2
<1> HIDE DEF Ok
<1>. QED
  BY <1>2, IInvHolds, PTL DEF Spec, LockLeftOnlyByOverrun

-----------------------------------------------------------------------------
(***************************************************************************)
(* Menu drafts: MenuDraft                                                  *)
(***************************************************************************)

\* Windows are numbered as they are opened, and one is open while the counter is.
WindowsInv ==
  /\ counter.used > 0 => window > 0 /\ counter.expires
  /\ \A r \in Senders : req[r].charged <= window /\ req[r].refunded <= window

\* Nobody is counted before the count, nor gets a refund before the refund; and
\* who has taken a draft for gone that is there is known (blind).
Uploading == {"count", "extract", "record", "save", "refund"}
RequestOK(q) ==
  /\ q.pc \in {"idle", "count"} => q.charged = 0
  /\ q.pc \in {"extract", "record", "save", "refund"} => q.charged > 0
  /\ q.pc \in {"idle"} \cup Uploading => q.refunded = 0 /\ ~q.lost
  /\ q.pc = "refund" => q.error \in {"tooMany", "upstream"}
  /\ q.pc \in Uploading => q.op = "upload" /\ q.draft \in Drafts
  /\ q.pc = "mark" => q.draft \in Drafts
  /\ q.pc \in {"read", "prune"} => q.op = "list"
  /\ q.pc \in {"count", "extract", "save"} /\ Alive(q.draft) => q.draft \in q.blind
  /\ q.pc = "prune" => \A d \in q.seen : Alive(d) => d \in q.blind
RequestsInv == \A r \in Senders : \A q \in {req[r]} : RequestOK(q)

DraftIInv ==
  /\ DraftTypeOK /\ WindowsInv /\ RequestsInv
  /\ CounterAccounts /\ BudgetKept /\ ListedWhileAlive

-----------------------------------------------------------------------------
\* The accounts of the windows.

PaidStates == {"extract", "record", "save", "unreadable", "drafted"}
Spent(w) == {r \in ChargedIn(w) : ~Free(r)}

\* The requests are finitely many, and so are those of any account.
LEMMA AccountsAreFinite ==
  ASSUME NEW w
  PROVE  /\ IsFiniteSet(ChargedIn(w)) /\ IsFiniteSet(LateRefunds(w))
         /\ IsFiniteSet(Spent(w)) /\ IsFiniteSet(CallsPaidBy(w))
         /\ Cardinality(LateRefunds(w)) \in Nat /\ Cardinality(Spent(w)) \in Nat
         /\ Cardinality(CallsPaidBy(w)) \in Nat
<1>1. IsFiniteSet(Senders)
  BY SendersAssumption
<1>2. /\ ChargedIn(w) \subseteq Senders /\ LateRefunds(w) \subseteq Senders
      /\ Spent(w) \subseteq Senders /\ CallsPaidBy(w) \subseteq Senders
  BY DEF ChargedIn, LateRefunds, Spent, CallsPaidBy
<1>3. /\ IsFiniteSet(ChargedIn(w)) /\ IsFiniteSet(LateRefunds(w))
      /\ IsFiniteSet(Spent(w)) /\ IsFiniteSet(CallsPaidBy(w))
  BY <1>1, <1>2, FS_Subset
<1> QED
  BY <1>3, FS_CardinalityType

\* A set that grows within the requests has no fewer members.
LEMMA GrowingCounts ==
  ASSUME NEW S, NEW T, T \subseteq Senders, S \subseteq T
  PROVE  /\ Cardinality(S) \in Nat /\ Cardinality(T) \in Nat
         /\ Cardinality(S) <= Cardinality(T)
<1>1. IsFiniteSet(T)
  BY SendersAssumption, FS_Subset
<1>2. IsFiniteSet(S) /\ Cardinality(S) <= Cardinality(T)
  BY <1>1, FS_Subset
<1> QED
  BY <1>1, <1>2, FS_CardinalityType

\* One more, and one less.
LEMMA OneMoreCounts ==
  ASSUME NEW S, S \subseteq Senders, NEW r \in Senders
  PROVE  /\ r \notin S => Cardinality(S \cup {r}) = Cardinality(S) + 1
         /\ r \in S => Cardinality(S \ {r}) = Cardinality(S) - 1
         /\ Cardinality(S) \in Nat
<1>1. IsFiniteSet(S)
  BY SendersAssumption, FS_Subset
<1> QED
  BY <1>1, FS_AddElement, FS_RemoveElement, FS_CardinalityType

\* What the types say of one request.
LEMMA RequestTyped ==
  ASSUME DraftTypeOK, NEW r \in Senders
  PROVE  /\ req[r] \in RequestState
         /\ req[r].charged \in Nat /\ req[r].refunded \in Nat /\ req[r].lost \in BOOLEAN
         /\ req[r].seen \subseteq Drafts /\ req[r].blind \subseteq Drafts
         /\ req[r].pc \in {"idle"} \cup Running \cup Outcomes
BY DEF DraftTypeOK, RequestState

\* A step on which nobody is charged or refunded.
Unbilled ==
  /\ counter' = counter /\ window' = window
  /\ \A s \in Senders :
       /\ req'[s].charged = req[s].charged /\ req'[s].refunded = req[s].refunded
       /\ req[s].charged > 0 =>
            /\ Free(s)' <=> Free(s)
            /\ req'[s].pc \in PaidStates => req[s].pc \in PaidStates

\* It changes no account.
LEMMA UnbilledKeeps ==
  ASSUME DraftIInv, Unbilled
  PROVE  WindowsInv' /\ CounterAccounts' /\ BudgetKept'
<1> USE DEF DraftIInv
<1>1. WindowsInv'
  BY DEF WindowsInv, Unbilled
<1>2. window \in Nat /\ counter \in Counter
  BY DEF DraftTypeOK
<1>3. ASSUME NEW w \in 1 .. window
      PROVE  /\ ChargedIn(w)' = ChargedIn(w)
             /\ LateRefunds(w)' = LateRefunds(w)
             /\ Spent(w)' = Spent(w)
             /\ CallsPaidBy(w)' \subseteq CallsPaidBy(w)
  <2>1. ChargedIn(w)' = ChargedIn(w) /\ LateRefunds(w)' = LateRefunds(w)
    BY DEF ChargedIn, LateRefunds, Unbilled
  <2>2. \A s \in ChargedIn(w) : s \in Senders /\ req[s].charged > 0
    BY <1>2 DEF ChargedIn
  <2>3. Spent(w)' = Spent(w)
    BY <2>1, <2>2 DEF Spent, Unbilled
  <2>4. CallsPaidBy(w)' \subseteq CallsPaidBy(w)
    BY <2>1, <2>2 DEF CallsPaidBy, Unbilled, PaidStates
  <2> QED
    BY <2>1, <2>3, <2>4
<1>4. CounterAccounts'
  <2> SUFFICES ASSUME counter'.used > 0
               PROVE  /\ counter'.expires
                      /\ counter'.used = Cardinality(Spent(window)')
                                         - Cardinality(LateRefunds(window)')
    BY DEF CounterAccounts, Spent
  <2>1. counter.used > 0 /\ window' = window /\ counter' = counter
    BY DEF Unbilled
  <2>2. window \in 1 .. window
    BY <1>2, <2>1 DEF WindowsInv
  <2>3. PICK w \in 1 .. window : w = window
    BY <2>2
  <2>4. Spent(w)' = Spent(w) /\ LateRefunds(w)' = LateRefunds(w)
    BY <1>3
  <2>5. Spent(window)' = Spent(window) /\ LateRefunds(window)' = LateRefunds(window)
    BY <2>1, <2>3, <2>4 DEF Spent, ChargedIn, LateRefunds
  <2> QED
    BY <2>1, <2>5 DEF CounterAccounts, Spent
<1>5. BudgetKept'
  <2> SUFFICES ASSUME NEW w \in 1 .. window
               PROVE  Cardinality(CallsPaidBy(w)') <= RateLimit + Cardinality(LateRefunds(w)')
    BY DEF BudgetKept, Unbilled
  <2>1. CallsPaidBy(w)' \subseteq CallsPaidBy(w) /\ LateRefunds(w)' = LateRefunds(w)
    BY <1>3
  <2>2. CallsPaidBy(w) \subseteq Senders
    BY DEF CallsPaidBy, ChargedIn
  <2>3. /\ Cardinality(CallsPaidBy(w)') \in Nat /\ Cardinality(CallsPaidBy(w)) \in Nat
        /\ Cardinality(CallsPaidBy(w)') <= Cardinality(CallsPaidBy(w))
    BY <2>1, <2>2, GrowingCounts
  <2>4. Cardinality(CallsPaidBy(w)) <= RateLimit + Cardinality(LateRefunds(w))
    BY DEF BudgetKept
  <2>5. Cardinality(LateRefunds(w)) \in Nat /\ RateLimit \in Nat
    BY AccountsAreFinite, RateLimitAssumption
  <2> QED
    BY <2>1, <2>3, <2>4, <2>5
<1> QED
  BY <1>1, <1>4, <1>5

\* What a counted request adds: to its window only, and within the limit if it
\* may call the model.
LEMMA CountBills ==
  ASSUME DraftIInv, DraftTypeOK', NEW r \in Senders, Count(r)
  PROVE  WindowsInv' /\ CounterAccounts' /\ BudgetKept'
<1> USE DEF DraftIInv
<1>0. /\ window \in Nat /\ counter \in Counter /\ counter.used \in Nat
      /\ RateLimit \in Nat \ {0}
  BY RateLimitAssumption DEF DraftTypeOK, Counter
<1>1. PICK opened : opened = IF counter.used = 0 THEN window + 1 ELSE window
  OBVIOUS
<1>2. PICK pc \in {"extract", "refund", "unavailable"} :
        /\ req' = [req EXCEPT ![r].pc = pc, ![r].charged = opened, ![r].error = "tooMany"]
        /\ pc = "extract" => counter.used + 1 <= RateLimit
  BY <1>1 DEF Count, WithinLimit, Counted
<1>3. counter' = [used |-> counter.used + 1, expires |-> TRUE] /\ window' = opened
  BY <1>1 DEF Count, Counted
<1>4. /\ req[r] \in RequestState /\ req[r].pc = "count" /\ req[r].charged = 0
      /\ req[r].refunded = 0 /\ ~req[r].lost
  BY RequestTyped DEF Count, IsAt, RequestsInv, RequestOK, Uploading
<1>5. /\ \A s \in Senders \ {r} : req'[s] = req[s]
      /\ req'[r].pc = pc /\ req'[r].charged = opened /\ req'[r].refunded = 0
  BY <1>2, <1>4 DEF DraftTypeOK, RequestState
<1>6. opened \in Nat \ {0} /\ window <= opened
  BY <1>0, <1>1 DEF WindowsInv
<1>7. WindowsInv'
  <2>1. \A s \in Senders \ {r} : req'[s].charged <= window' /\ req'[s].refunded <= window'
    <3> SUFFICES ASSUME NEW s \in Senders \ {r}
                 PROVE  req[s].charged <= opened /\ req[s].refunded <= opened
      BY <1>3, <1>5
    <3>1. /\ req[s].charged \in Nat /\ req[s].refunded \in Nat
          /\ req[s].charged <= window /\ req[s].refunded <= window
      BY RequestTyped DEF WindowsInv
    <3> QED
      BY <1>0, <1>6, <3>1
  <2>2. req'[r].charged <= window' /\ req'[r].refunded <= window'
    BY <1>3, <1>5, <1>6
  <2> QED
    BY <1>3, <1>6, <2>1, <2>2 DEF WindowsInv
<1>8. ASSUME NEW w \in 1 .. opened
      PROVE  /\ ChargedIn(w)' = IF w = opened THEN ChargedIn(w) \cup {r} ELSE ChargedIn(w)
             /\ LateRefunds(w)' = LateRefunds(w)
             /\ r \notin ChargedIn(w)
  <2>1. w # 0
    BY <1>6
  <2>2. ChargedIn(w)' = IF w = opened THEN ChargedIn(w) \cup {r} ELSE ChargedIn(w)
    BY <1>4, <1>5, <2>1 DEF ChargedIn
  <2>3. LateRefunds(w)' = LateRefunds(w)
    BY <1>4, <1>5, <2>1 DEF LateRefunds
  <2> QED
    BY <1>4, <2>1, <2>2, <2>3 DEF ChargedIn
<1>9. ASSUME NEW w \in 1 .. opened
      PROVE  /\ Spent(w)' = IF w = opened THEN Spent(w) \cup {r} ELSE Spent(w)
             /\ CallsPaidBy(w)' \subseteq IF w = opened /\ pc = "extract"
                                          THEN Spent(w)' ELSE CallsPaidBy(w)
  <2>1. \A s \in Senders \ {r} : (Free(s)' <=> Free(s)) /\ req'[s].pc = req[s].pc
    BY <1>5 DEF Free
  <2>2. ~Free(r)'
    BY <1>5 DEF Free
  <2>3. Spent(w)' = IF w = opened THEN Spent(w) \cup {r} ELSE Spent(w)
    <3>1. ChargedIn(w) \subseteq Senders \ {r}
      BY <1>8 DEF ChargedIn
    <3>2. CASE w = opened
      <4>1. ChargedIn(w)' = ChargedIn(w) \cup {r}
        BY <1>8, <3>2
      <4> QED
        BY <2>1, <2>2, <3>1, <3>2, <4>1 DEF Spent
    <3>3. CASE w # opened
      <4>1. ChargedIn(w)' = ChargedIn(w)
        BY <1>8, <3>3
      <4> QED
        BY <2>1, <3>1, <3>3, <4>1 DEF Spent
    <3> QED
      BY <3>2, <3>3
  <2>4. CASE w = opened /\ pc = "extract"
    <3>1. \A s \in CallsPaidBy(w)' : s \in ChargedIn(w)' /\ ~Free(s)'
      BY DEF CallsPaidBy, Free
    <3>2. CallsPaidBy(w)' \subseteq Spent(w)'
      BY <3>1 DEF Spent
    <3> QED
      BY <2>3, <2>4, <3>2
  <2>5. CASE ~(w = opened /\ pc = "extract")
    <3>1. \A s \in CallsPaidBy(w)' : s \in Senders \ {r} /\ s \in ChargedIn(w)
      <4> SUFFICES ASSUME NEW s \in CallsPaidBy(w)'
                   PROVE  s \in Senders \ {r} /\ s \in ChargedIn(w)
        OBVIOUS
      <4>1. /\ s \in Senders /\ req'[s].charged = w
            /\ req'[s].pc \in {"extract", "record", "save", "unreadable", "drafted"}
        BY DEF CallsPaidBy, ChargedIn
      <4>2. s # r
        BY <1>2, <1>5, <2>5, <4>1
      <4> QED
        BY <1>5, <4>1, <4>2 DEF ChargedIn
    <3>2. \A s \in CallsPaidBy(w)' : s \in CallsPaidBy(w)
      BY <2>1, <3>1 DEF CallsPaidBy
    <3> QED
      BY <2>3, <2>5, <3>2
  <2> QED
    BY <2>3, <2>4, <2>5
<1>10. PICK v \in 1 .. opened : v = opened
  BY <1>6
<1>11. /\ Spent(v) \subseteq Senders /\ r \notin Spent(v)
       /\ Cardinality(Spent(v)') = Cardinality(Spent(v)) + 1
  <2>1. Spent(v) \subseteq Senders /\ r \notin Spent(v)
    BY <1>8 DEF Spent, ChargedIn
  <2> QED
    BY <1>9, <1>10, <2>1, OneMoreCounts
<1>12. counter'.used = Cardinality(Spent(v)') - Cardinality(LateRefunds(v)')
  <2>1. CASE counter.used = 0
    <3>1. v = window + 1
      BY <1>1, <1>10, <2>1
    <3>2. \A s \in Senders : req[s].charged # v /\ req[s].refunded # v
      <4> SUFFICES ASSUME NEW s \in Senders
                   PROVE  req[s].charged # v /\ req[s].refunded # v
        OBVIOUS
      <4>1. /\ req[s].charged \in Nat /\ req[s].refunded \in Nat
            /\ req[s].charged <= window /\ req[s].refunded <= window
        BY RequestTyped DEF WindowsInv
      <4> QED
        BY <1>0, <3>1, <4>1
    <3>3. Spent(v) = {} /\ LateRefunds(v) = {}
      BY <3>2 DEF Spent, ChargedIn, LateRefunds
    <3>4. Cardinality(Spent(v)) = 0 /\ Cardinality(LateRefunds(v)) = 0
      BY <3>3, FS_EmptySet
    <3>5. Cardinality(LateRefunds(v)') = 0
      BY <1>8, <3>4
    <3> QED
      BY <1>3, <1>11, <2>1, <3>4, <3>5
  <2>2. CASE counter.used # 0
    <3>1. v = window
      BY <1>1, <1>10, <2>2
    <3>2. counter.used = Cardinality(Spent(v)) - Cardinality(LateRefunds(v))
      BY <1>0, <2>2, <3>1 DEF CounterAccounts, Spent
    <3>3. Cardinality(Spent(v)) \in Nat /\ Cardinality(LateRefunds(v)) \in Nat
      BY AccountsAreFinite
    <3>4. Cardinality(LateRefunds(v)') = Cardinality(LateRefunds(v))
      BY <1>8
    <3>5. counter'.used = counter.used + 1
      BY <1>3
    <3> QED
      BY <1>11, <3>2, <3>3, <3>4, <3>5
  <2> QED
    BY <2>1, <2>2
<1>13. CounterAccounts'
  <2>1. Spent(window)' = Spent(v)' /\ LateRefunds(window)' = LateRefunds(v)'
    BY <1>3, <1>10 DEF Spent, ChargedIn, LateRefunds
  <2> QED
    BY <1>3, <1>12, <2>1 DEF CounterAccounts, Spent
<1>14. BudgetKept'
  <2> SUFFICES ASSUME NEW w \in 1 .. opened
               PROVE  Cardinality(CallsPaidBy(w)') <= RateLimit + Cardinality(LateRefunds(w)')
    BY <1>3 DEF BudgetKept
  <2>0. Cardinality(LateRefunds(w)') = Cardinality(LateRefunds(w))
        /\ Cardinality(LateRefunds(w)) \in Nat
    BY <1>8, AccountsAreFinite
  <2>1. CASE w = opened /\ pc = "extract"
    <3>1. CallsPaidBy(w)' \subseteq Spent(w)'
      BY <1>9, <2>1
    <3>2. Spent(w)' \subseteq Senders
      BY <1>9, <1>10, <1>11, <2>1
    <3>3. /\ Cardinality(CallsPaidBy(w)') \in Nat /\ Cardinality(Spent(w)') \in Nat
          /\ Cardinality(CallsPaidBy(w)') <= Cardinality(Spent(w)')
      BY <3>1, <3>2, GrowingCounts
    <3>4. v = w
      BY <1>10, <2>1
    <3>5. counter'.used = Cardinality(Spent(w)') - Cardinality(LateRefunds(w)')
      BY <1>12, <3>4
    <3>6. counter'.used <= RateLimit /\ counter'.used \in Nat
      BY <1>0, <1>2, <1>3, <2>1
    <3> QED
      BY <1>0, <2>0, <3>3, <3>5, <3>6
  <2>2. CASE ~(w = opened /\ pc = "extract")
    <3>1. CallsPaidBy(w)' \subseteq CallsPaidBy(w)
      BY <1>9, <2>2
    <3>2. CallsPaidBy(w) \subseteq Senders
      BY DEF CallsPaidBy, ChargedIn
    <3>3. /\ Cardinality(CallsPaidBy(w)') \in Nat /\ Cardinality(CallsPaidBy(w)) \in Nat
          /\ Cardinality(CallsPaidBy(w)') <= Cardinality(CallsPaidBy(w))
      BY <3>1, <3>2, GrowingCounts
    <3>4. CASE w <= window
      <4>1. Cardinality(CallsPaidBy(w)) <= RateLimit + Cardinality(LateRefunds(w))
        BY <1>0, <1>6, <3>4 DEF BudgetKept
      <4> QED
        BY <1>0, <2>0, <3>3, <4>1
    <3>5. CASE ~(w <= window)
      <4>1. \A s \in Senders : req[s].charged # w
        <5> SUFFICES ASSUME NEW s \in Senders
                     PROVE  req[s].charged # w
          OBVIOUS
        <5>1. req[s].charged \in Nat /\ req[s].charged <= window
          BY RequestTyped DEF WindowsInv
        <5> QED
          BY <1>0, <3>5, <5>1
      <4>2. CallsPaidBy(w) = {}
        BY <4>1 DEF CallsPaidBy, ChargedIn
      <4>3. Cardinality(CallsPaidBy(w)) = 0
        BY <4>2, FS_EmptySet
      <4> QED
        BY <1>0, <2>0, <3>3, <4>3
    <3> QED
      BY <3>4, <3>5
  <2> QED
    BY <2>1, <2>2
<1> QED
  BY <1>7, <1>13, <1>14

\* What a refund that arrives takes off, and from which window.
LEMMA RefundBills ==
  ASSUME DraftIInv, NEW r \in Senders, req[r].pc = "refund",
         counter' = Refunded(counter), window' = window,
         req' = [req EXCEPT ![r].pc = req[r].error,
                            ![r].refunded = IF counter.used > 0 THEN window ELSE 0]
  PROVE  WindowsInv' /\ CounterAccounts' /\ BudgetKept'
<1> USE DEF DraftIInv
<1>0. window \in Nat /\ counter \in Counter /\ counter.used \in Nat /\ RateLimit \in Nat
  BY RateLimitAssumption DEF DraftTypeOK, Counter
<1>1. PICK at : at = IF counter.used > 0 THEN window ELSE 0
  OBVIOUS
<1>2. /\ req[r] \in RequestState /\ req[r].charged \in Nat \ {0}
      /\ req[r].refunded = 0 /\ ~req[r].lost /\ req[r].error \in {"tooMany", "upstream"}
  BY RequestTyped DEF RequestsInv, RequestOK, Uploading
<1>3. /\ \A s \in Senders \ {r} : req'[s] = req[s]
      /\ req'[r].pc = req[r].error /\ req'[r].charged = req[r].charged
      /\ req'[r].refunded = at /\ ~req'[r].lost
  BY <1>1, <1>2 DEF DraftTypeOK, RequestState
<1>4. at \in Nat /\ at <= window
  BY <1>0, <1>1
<1>5. counter'.used > 0 => /\ counter.used > 1 /\ counter'.expires = counter.expires
                           /\ counter'.used = counter.used - 1
  <2>1. CASE counter.used > 1
    <3>1. counter' = [counter EXCEPT !.used = counter.used - 1]
      BY <2>1 DEF Refunded
    <3> QED
      BY <1>0, <2>1, <3>1 DEF Counter
  <2>2. CASE ~(counter.used > 1)
    BY <2>2 DEF Refunded, NoCounter
  <2> QED
    BY <2>1, <2>2
<1>6. WindowsInv'
  <2>1. \A s \in Senders : req'[s].charged <= window' /\ req'[s].refunded <= window'
    BY <1>3, <1>4 DEF WindowsInv
  <2>2. counter'.used > 0 => window' > 0 /\ counter'.expires
    <3>1. counter.used > 1 => counter.used > 0
      BY <1>0
    <3> QED
      BY <1>5, <3>1 DEF WindowsInv
  <2> QED
    BY <2>1, <2>2 DEF WindowsInv
<1>7. ASSUME NEW w \in 1 .. window
      PROVE  /\ ChargedIn(w)' = ChargedIn(w)
             /\ LateRefunds(w) \subseteq LateRefunds(w)'
             /\ CallsPaidBy(w)' \subseteq CallsPaidBy(w)
  <2>1. ChargedIn(w)' = ChargedIn(w)
    BY <1>3 DEF ChargedIn
  <2>2. LateRefunds(w) \subseteq LateRefunds(w)'
    <3>1. r \notin LateRefunds(w)
      BY <1>0, <1>2 DEF LateRefunds
    <3>2. \A s \in LateRefunds(w) : s \in Senders \ {r} /\ s \in LateRefunds(w)'
      BY <1>3, <3>1 DEF LateRefunds
    <3> QED
      BY <3>2
  <2>3. CallsPaidBy(w)' \subseteq CallsPaidBy(w)
    <3>1. r \notin CallsPaidBy(w)'
      BY <1>2, <1>3 DEF CallsPaidBy
    <3>2. \A s \in CallsPaidBy(w)' : s \in Senders \ {r} /\ s \in CallsPaidBy(w)
      BY <1>3, <3>1 DEF CallsPaidBy, ChargedIn
    <3> QED
      BY <3>2
  <2> QED
    BY <2>1, <2>2, <2>3
<1>8. CounterAccounts'
  <2> SUFFICES ASSUME counter'.used > 0
               PROVE  /\ counter'.expires
                      /\ counter'.used = Cardinality(Spent(window)')
                                         - Cardinality(LateRefunds(window)')
    BY DEF CounterAccounts, Spent
  <2>1. counter.used > 1 /\ counter'.used = counter.used - 1 /\ at = window
    BY <1>0, <1>1, <1>5
  <2>2. /\ counter.expires /\ window > 0
        /\ counter.used = Cardinality(Spent(window)) - Cardinality(LateRefunds(window))
    BY <1>0, <2>1 DEF CounterAccounts, WindowsInv, Spent
  <2>3. PICK w \in 1 .. window : w = window
    BY <1>0, <2>2
  <2>4. /\ Cardinality(Spent(window)) \in Nat /\ Cardinality(LateRefunds(window)) \in Nat
        /\ Spent(window) \subseteq Senders /\ LateRefunds(window) \subseteq Senders
    BY AccountsAreFinite DEF Spent, ChargedIn, LateRefunds
  <2>5. ~Free(r) /\ Free(r)' /\ \A s \in Senders \ {r} : Free(s)' <=> Free(s)
    BY <1>2, <1>3 DEF Free
  <2>6. ChargedIn(window)' = ChargedIn(window)
    BY <1>3 DEF ChargedIn
  <2>7. CASE req[r].charged = window
    <3>1. r \in Spent(window) /\ Spent(window)' = Spent(window) \ {r}
      BY <2>5, <2>6, <2>7 DEF Spent, ChargedIn
    <3>2. LateRefunds(window)' = LateRefunds(window)
      BY <1>3, <2>1, <2>7 DEF LateRefunds
    <3>3. Cardinality(Spent(window)') = Cardinality(Spent(window)) - 1
      BY <2>4, <3>1, OneMoreCounts
    <3>4. counter'.expires
      BY <1>5, <2>2
    <3> QED
      BY <1>0, <2>1, <2>2, <2>4, <3>2, <3>3, <3>4
  <2>8. CASE req[r].charged # window
    <3>1. Spent(window)' = Spent(window)
      BY <2>5, <2>6, <2>8 DEF Spent, ChargedIn
    <3>2. /\ r \notin LateRefunds(window)
          /\ LateRefunds(window)' = LateRefunds(window) \cup {r}
      <4>1. r \notin LateRefunds(window)
        BY <1>0, <1>2, <2>2 DEF LateRefunds
      <4>2. \A s \in Senders : s \in LateRefunds(window)' <=> s \in LateRefunds(window) \/ s = r
        BY <1>3, <2>1, <2>8 DEF LateRefunds
      <4>3. LateRefunds(window)' \subseteq Senders
        BY DEF LateRefunds
      <4> QED
        BY <2>4, <4>1, <4>2, <4>3
    <3>3. Cardinality(LateRefunds(window)') = Cardinality(LateRefunds(window)) + 1
      BY <2>4, <3>2, OneMoreCounts
    <3>4. counter'.expires
      BY <1>5, <2>2
    <3> QED
      BY <1>0, <2>1, <2>2, <2>4, <3>1, <3>3, <3>4
  <2> QED
    BY <2>7, <2>8
<1>9. BudgetKept'
  <2> SUFFICES ASSUME NEW w \in 1 .. window
               PROVE  Cardinality(CallsPaidBy(w)') <= RateLimit + Cardinality(LateRefunds(w)')
    BY DEF BudgetKept
  <2>1. /\ CallsPaidBy(w) \subseteq Senders /\ LateRefunds(w)' \subseteq Senders
    BY DEF CallsPaidBy, ChargedIn, LateRefunds
  <2>2. /\ Cardinality(CallsPaidBy(w)') \in Nat /\ Cardinality(CallsPaidBy(w)) \in Nat
        /\ Cardinality(CallsPaidBy(w)') <= Cardinality(CallsPaidBy(w))
    BY <1>7, <2>1, GrowingCounts
  <2>3. /\ Cardinality(LateRefunds(w)) \in Nat /\ Cardinality(LateRefunds(w)') \in Nat
        /\ Cardinality(LateRefunds(w)) <= Cardinality(LateRefunds(w)')
    BY <1>7, <2>1, GrowingCounts
  <2>4. Cardinality(CallsPaidBy(w)) <= RateLimit + Cardinality(LateRefunds(w))
    BY DEF BudgetKept
  <2> QED
    BY <1>0, <2>2, <2>3, <2>4
<1> QED
  BY <1>6, <1>8, <1>9

-----------------------------------------------------------------------------
\* The requests.

\* The request r goes on to be q, and no draft comes up.
MovesTo(r, q) ==
  /\ req' = [req EXCEPT ![r] = q]
  /\ failed' \subseteq Drafts /\ index' \subseteq Drafts
  /\ draft' \in [Drafts -> Draft]
  /\ \A d \in Drafts : Alive(d)' => Alive(d)

\* A draft leaves the list when it is gone, or by a listing that has ended.
StaysListed(q) ==
  \A d \in index \ index' :
    Alive(d)' => q.op = "list" /\ q.pc = "ok" /\ d \in q.blind

\* The other requests are as they were, and know what they knew.
LEMMA OthersStayOK ==
  ASSUME DraftIInv, NEW r \in Senders, NEW q \in RequestState, MovesTo(r, q), RequestOK(q)'
  PROVE  /\ RequestsInv'
         /\ req' \in [Senders -> RequestState]
         /\ \A s \in Senders : req'[s] = IF s = r THEN q ELSE req[s]
<1>1. req \in [Senders -> RequestState]
  BY DEF DraftIInv, DraftTypeOK
<1>2. req' \in [Senders -> RequestState]
      /\ \A s \in Senders : req'[s] = IF s = r THEN q ELSE req[s]
  BY <1>1 DEF MovesTo
<1>3. RequestsInv'
  <2> SUFFICES ASSUME NEW s \in Senders, NEW o \in {req'[s]}
               PROVE  RequestOK(o)'
    BY DEF RequestsInv
  <2>1. CASE s = r
    BY <1>2, <2>1
  <2>2. CASE s # r
    <3>1. o = req[s] /\ RequestOK(o)
      BY <1>2, <2>2 DEF DraftIInv, RequestsInv
    <3>2. o.seen \subseteq Drafts
      BY <1>1, <3>1 DEF RequestState
    <3>3. o.pc \in {"count", "extract", "save"} => o.draft \in Drafts
      BY <3>1 DEF RequestOK, Uploading
    <3> QED
      BY <3>1, <3>2, <3>3 DEF RequestOK, MovesTo
  <2> QED
    BY <2>1, <2>2
<1> QED
  BY <1>2, <1>3

\* The list after such a step.
LEMMA ListStays ==
  ASSUME DraftIInv, NEW r \in Senders, NEW q \in RequestState, MovesTo(r, q), StaysListed(q),
         req[r].pc # "ok"
  PROVE  ListedWhileAlive'
<1>1. \A s \in Senders : req'[s] = IF s = r THEN q ELSE req[s]
  BY DEF DraftIInv, DraftTypeOK, MovesTo
<1> SUFFICES ASSUME NEW d \in Drafts, Alive(d)', d \notin index'
             PROVE  \E s \in Senders : req'[s].op = "list" /\ req'[s].pc = "ok"
                                       /\ d \in req'[s].blind
  BY DEF ListedWhileAlive, AliveDrafts
<1>2. CASE d \in index
  BY <1>1, <1>2 DEF StaysListed
<1>3. CASE d \notin index
  <2>1. d \in AliveDrafts \ index
    BY <1>3 DEF MovesTo, AliveDrafts
  <2>2. PICK s \in Senders : req[s].op = "list" /\ req[s].pc = "ok" /\ d \in req[s].blind
    BY <2>1 DEF DraftIInv, ListedWhileAlive
  <2>3. req'[s] = req[s]
    BY <1>1, <2>2
  <2> QED
    BY <2>2, <2>3
<1> QED
  BY <1>2, <1>3

\* So a request may go on for nothing.
LEMMA GoesForNothing ==
  ASSUME DraftIInv, UNCHANGED <<counter, window>>,
         NEW r \in Senders, NEW q \in RequestState, MovesTo(r, q), RequestOK(q)',
         StaysListed(q), req[r].pc # "ok",
         q.charged = req[r].charged, q.refunded = req[r].refunded,
         req[r].charged > 0 =>
            /\ ~(req[r].pc \in {"tooMany", "upstream"} /\ ~req[r].lost)
            /\ ~(q.pc \in {"tooMany", "upstream"} /\ ~q.lost)
            /\ q.pc \in PaidStates => req[r].pc \in PaidStates
  PROVE  DraftIInv'
<1>1. /\ RequestsInv' /\ req' \in [Senders -> RequestState]
      /\ \A s \in Senders : req'[s] = IF s = r THEN q ELSE req[s]
  BY OthersStayOK
<1>2. Unbilled
  <2> SUFFICES ASSUME NEW s \in Senders
               PROVE  /\ req'[s].charged = req[s].charged /\ req'[s].refunded = req[s].refunded
                      /\ req[s].charged > 0 =>
                           /\ Free(s)' <=> Free(s)
                           /\ req'[s].pc \in PaidStates => req[s].pc \in PaidStates
    BY DEF Unbilled
  <2>1. CASE s # r
    <3>1. req'[s] = req[s]
      BY <1>1, <2>1
    <3> QED
      BY <3>1 DEF Free
  <2>2. CASE s = r
    <3>1. req'[s] = q /\ req[s] = req[r]
      BY <1>1, <2>2
    <3> QED
      BY <3>1 DEF Free
  <2> QED
    BY <2>1, <2>2
<1>3. WindowsInv' /\ CounterAccounts' /\ BudgetKept'
  BY <1>2, UnbilledKeeps
<1>4. ListedWhileAlive'
  BY ListStays
<1>5. DraftTypeOK'
  BY <1>1 DEF DraftIInv, DraftTypeOK, MovesTo
<1> QED
  BY <1>1, <1>3, <1>4, <1>5 DEF DraftIInv

\* A request at a place of its own.
LEMMA AtItsPlace ==
  ASSUME DraftIInv, NEW r \in Senders, NEW q, q = req[r]
  PROVE  /\ q \in RequestState /\ RequestOK(q)
         /\ failed \subseteq Drafts /\ index \subseteq Drafts /\ draft \in [Drafts -> Draft]
BY DEF DraftIInv, DraftTypeOK, RequestsInv

\* An upload begins: what it has not found it may be blind for.
LEMMA UploadKeeps ==
  ASSUME DraftIInv, NEW r \in Senders, NEW d \in Drafts, Upload(r, d)
  PROVE  DraftIInv'
<1>q. PICK old : old = req[r]
  OBVIOUS
<1>0. /\ old \in RequestState /\ RequestOK(old) /\ old.pc = "idle"
      /\ failed \subseteq Drafts /\ index \subseteq Drafts /\ draft \in [Drafts -> Draft]
  BY <1>q, AtItsPlace DEF Upload, IsAt
<1>1. UNCHANGED <<counter, window, draft, failed, index>>
  BY DEF Upload
<1>2. PICK pc \in {"reused", "unreadable", "count"}, blind \in SUBSET Drafts :
        /\ req' = [req EXCEPT ![r] = [[Idle EXCEPT !.draft = d]
                                        EXCEPT !.pc = pc, !.blind = blind]]
        /\ pc = "count" /\ Alive(d) => d \in blind
  <2>1. {d} \cap AliveDrafts \in SUBSET Drafts /\ {} \in SUBSET Drafts
    OBVIOUS
  <2>2. Alive(d) => d \in {d} \cap AliveDrafts
    BY DEF AliveDrafts
  <2> QED
    BY <2>1, <2>2 DEF Upload, Reusable
<1>3. PICK q : q = [[Idle EXCEPT !.draft = d] EXCEPT !.pc = pc, !.blind = blind]
  OBVIOUS
<1>4. /\ q.pc = pc /\ q.draft = d /\ q.blind = blind /\ q.op = "upload" /\ q.seen = {}
      /\ q.charged = 0 /\ q.refunded = 0 /\ q.lost = FALSE
  BY <1>3 DEF Idle
<1>5. q \in RequestState
  BY <1>3 DEF Idle, RequestState, Operations, Running, Outcomes
<1>6. MovesTo(r, q)
  BY <1>0, <1>1, <1>2, <1>3 DEF MovesTo, Alive
<1>7. RequestOK(q)'
  BY <1>1, <1>2, <1>4 DEF RequestOK, Uploading, Alive
<1>8. StaysListed(q)
  BY <1>1 DEF StaysListed
<1>9. old.charged = 0 /\ old.refunded = 0
  BY <1>0 DEF RequestOK, Uploading
<1> QED
  BY <1>q, <1>0, <1>1, <1>4, <1>5, <1>6, <1>7, <1>8, <1>9, GoesForNothing

\* A request ends, is given up, or goes on to a place where nothing is asked of it.
LEMMA EndingKeeps ==
  ASSUME DraftIInv, NEW r \in Senders, UNCHANGED <<counter, window, draft, index>>,
         failed' \subseteq Drafts, req[r].pc \in Running,
         NEW pc \in {"record", "save"} \cup Outcomes,
         req' = [req EXCEPT ![r].pc = pc],
         pc \notin {"tooMany", "upstream"},
         pc \in {"record", "save"} => req[r].pc = "extract",
         pc \in {"unreadable", "drafted"} => req[r].pc \in {"record", "save"}
  PROVE  DraftIInv'
<1>q. PICK old : old = req[r]
  OBVIOUS
<1>0. /\ old \in RequestState /\ RequestOK(old) /\ old.pc \in Running
      /\ failed \subseteq Drafts /\ index \subseteq Drafts /\ draft \in [Drafts -> Draft]
  BY <1>q, AtItsPlace
<1>1. PICK q : q = [old EXCEPT !.pc = pc]
  OBVIOUS
<1>2. q \in RequestState
  BY <1>0, <1>1 DEF RequestState, Running
<1>3. /\ q.pc = pc /\ q.op = old.op /\ q.draft = old.draft /\ q.seen = old.seen
      /\ q.error = old.error /\ q.charged = old.charged /\ q.refunded = old.refunded
      /\ q.lost = old.lost /\ q.blind = old.blind
  BY <1>0, <1>1 DEF RequestState
<1>4. MovesTo(r, q)
  BY <1>q, <1>0, <1>1 DEF MovesTo, Alive
<1>5. RequestOK(q)'
  BY <1>q, <1>0, <1>3 DEF RequestOK, Uploading, Alive, Outcomes
<1>6. StaysListed(q)
  BY DEF StaysListed
<1>7. old.pc # "ok" /\ old.pc \notin {"tooMany", "upstream"}
  BY <1>0 DEF Running
<1>8. old.charged > 0 => (pc \in PaidStates => old.pc \in PaidStates)
  BY <1>q, <1>0 DEF PaidStates, RequestOK, Outcomes
<1> QED
  BY <1>q, <1>2, <1>3, <1>4, <1>5, <1>6, <1>7, <1>8, GoesForNothing

\* What the model has answered: a draft, a page it cannot read, or an error of ours.
LEMMA ExtractKeeps ==
  ASSUME DraftIInv, NEW r \in Senders, Extract(r)
  PROVE  DraftIInv'
<1>q. PICK old : old = req[r]
  OBVIOUS
<1>0. /\ old \in RequestState /\ RequestOK(old) /\ old.pc = "extract"
      /\ failed \subseteq Drafts /\ index \subseteq Drafts /\ draft \in [Drafts -> Draft]
  BY <1>q, AtItsPlace DEF Extract, IsAt
<1>1. UNCHANGED <<counter, window, draft, failed, index>>
  BY DEF Extract
<1>2. ASSUME NEW pc \in {"record", "save"}, req' = [req EXCEPT ![r].pc = pc]
      PROVE  DraftIInv'
  BY <1>q, <1>0, <1>1, <1>2, EndingKeeps DEF Running
<1>3. ASSUME req' = [req EXCEPT ![r].pc = "refund", ![r].error = "upstream"]
      PROVE  DraftIInv'
  <2>1. PICK q : q = [old EXCEPT !.pc = "refund", !.error = "upstream"]
    OBVIOUS
  <2>2. q \in RequestState
    BY <1>0, <2>1 DEF RequestState, Running
  <2>3. /\ q.pc = "refund" /\ q.op = old.op /\ q.draft = old.draft /\ q.error = "upstream"
        /\ q.charged = old.charged /\ q.refunded = old.refunded /\ q.lost = old.lost
    BY <1>0, <2>1 DEF RequestState
  <2>4. req' = [req EXCEPT ![r] = q]
    BY <1>q, <1>3, <2>1 DEF DraftIInv, DraftTypeOK, RequestState
  <2>5. MovesTo(r, q)
    BY <1>0, <1>1, <2>4 DEF MovesTo, Alive
  <2>6. RequestOK(q)'
    BY <1>0, <2>3 DEF RequestOK, Uploading
  <2>7. StaysListed(q)
    BY <1>1 DEF StaysListed
  <2>8. q.pc \notin PaidStates
    BY <2>3 DEF PaidStates
  <2> QED
    BY <1>q, <1>0, <1>1, <2>2, <2>3, <2>5, <2>6, <2>7, <2>8, GoesForNothing
<1> QED
  BY <1>2, <1>3 DEF Extract, Goes, RefundedErrors

\* A refund gives back what the request was charged, or is lost.
LEMMA RefundKeeps ==
  ASSUME DraftIInv, NEW r \in Senders, Refund(r)
  PROVE  DraftIInv'
<1>q. PICK old : old = req[r]
  OBVIOUS
<1>0. /\ old \in RequestState /\ RequestOK(old) /\ old.pc = "refund"
      /\ failed \subseteq Drafts /\ index \subseteq Drafts /\ draft \in [Drafts -> Draft]
      /\ window \in Nat
  BY <1>q, AtItsPlace DEF Refund, IsAt, DraftIInv, DraftTypeOK
<1>1. UNCHANGED <<window, draft, failed, index>>
  BY DEF Refund
<1>2. old.error \in {"tooMany", "upstream"}
  BY <1>0 DEF RequestOK
<1>3. ASSUME counter' = Refunded(counter),
             req' = [req EXCEPT ![r].pc = req[r].error,
                                ![r].refunded = IF counter.used > 0 THEN window ELSE 0]
      PROVE  DraftIInv'
  <2>1. PICK at : at = IF counter.used > 0 THEN window ELSE 0
    OBVIOUS
  <2>2. at \in Nat
    BY <1>0, <2>1
  <2>3. PICK q : q = [old EXCEPT !.pc = old.error, !.refunded = at]
    OBVIOUS
  <2>4. q \in RequestState
    BY <1>0, <1>2, <2>2, <2>3 DEF RequestState, Outcomes
  <2>5. q.pc = old.error
    BY <1>0, <2>3 DEF RequestState
  <2>6. req' = [req EXCEPT ![r] = q]
    BY <1>q, <1>3, <2>1, <2>3 DEF DraftIInv, DraftTypeOK, RequestState
  <2>7. MovesTo(r, q)
    BY <1>0, <1>1, <2>6 DEF MovesTo, Alive
  <2>8. RequestOK(q)'
    BY <1>2, <2>5 DEF RequestOK, Uploading
  <2>9. StaysListed(q)
    BY <1>1 DEF StaysListed
  <2>10. RequestsInv' /\ req' \in [Senders -> RequestState]
    BY <2>4, <2>7, <2>8, OthersStayOK
  <2>11. ListedWhileAlive'
    BY <1>q, <1>0, <2>4, <2>7, <2>9, ListStays
  <2>12. WindowsInv' /\ CounterAccounts' /\ BudgetKept'
    BY <1>q, <1>0, <1>1, <1>3, RefundBills
  <2>13. counter' \in Counter
    <3>1. counter \in Counter
      BY DEF DraftIInv, DraftTypeOK
    <3>2. CASE counter.used > 1
      <4>1. counter' = [counter EXCEPT !.used = counter.used - 1]
        BY <1>3, <3>2 DEF Refunded
      <4> QED
        BY <3>1, <3>2, <4>1 DEF Counter
    <3>3. CASE ~(counter.used > 1)
      BY <1>3, <3>3 DEF Refunded, NoCounter, Counter
    <3> QED
      BY <3>2, <3>3
  <2>14. DraftTypeOK'
    BY <1>0, <1>1, <2>10, <2>13 DEF DraftTypeOK
  <2> QED
    BY <2>10, <2>11, <2>12, <2>14 DEF DraftIInv
<1>4. ASSUME counter' = counter,
             req' = [req EXCEPT ![r].pc = req[r].error, ![r].lost = TRUE]
      PROVE  DraftIInv'
  <2>1. PICK q : q = [old EXCEPT !.pc = old.error, !.lost = TRUE]
    OBVIOUS
  <2>2. q \in RequestState
    BY <1>0, <1>2, <2>1 DEF RequestState, Outcomes
  <2>3. /\ q.pc = old.error /\ q.lost
        /\ q.charged = old.charged /\ q.refunded = old.refunded
    BY <1>0, <2>1 DEF RequestState
  <2>4. req' = [req EXCEPT ![r] = q]
    BY <1>q, <1>4, <2>1 DEF DraftIInv, DraftTypeOK, RequestState
  <2>5. MovesTo(r, q)
    BY <1>0, <1>1, <2>4 DEF MovesTo, Alive
  <2>6. RequestOK(q)'
    BY <1>2, <2>3 DEF RequestOK, Uploading
  <2>7. StaysListed(q)
    BY <1>1 DEF StaysListed
  <2>8. q.pc \notin PaidStates
    BY <1>2, <2>3 DEF PaidStates
  <2> QED
    BY <1>q, <1>0, <1>1, <1>4, <2>2, <2>3, <2>5, <2>6, <2>7, <2>8, GoesForNothing
<1> QED
  BY <1>3, <1>4 DEF Refund

\* A counted request is charged to the window of its count.
LEMMA CountKeeps ==
  ASSUME DraftIInv, NEW r \in Senders, Count(r)
  PROVE  DraftIInv'
<1>q. PICK old : old = req[r]
  OBVIOUS
<1>0. /\ old \in RequestState /\ RequestOK(old) /\ old.pc = "count"
      /\ failed \subseteq Drafts /\ index \subseteq Drafts /\ draft \in [Drafts -> Draft]
      /\ window \in Nat /\ counter \in Counter
  BY <1>q, AtItsPlace DEF Count, IsAt, DraftIInv, DraftTypeOK
<1>1. PICK opened : opened = IF counter.used = 0 THEN window + 1 ELSE window
  OBVIOUS
<1>2. PICK pc \in {"extract", "refund", "unavailable"} :
        req' = [req EXCEPT ![r].pc = pc, ![r].charged = opened, ![r].error = "tooMany"]
  BY <1>1 DEF Count
<1>3. opened \in Nat \ {0}
  BY <1>0, <1>1 DEF DraftIInv, WindowsInv, Counter
<1>4. PICK q : q = [old EXCEPT !.pc = pc, !.charged = opened, !.error = "tooMany"]
  OBVIOUS
<1>5. q \in RequestState
  BY <1>0, <1>3, <1>4 DEF RequestState, Running, Outcomes
<1>6. /\ q.pc = pc /\ q.op = old.op /\ q.draft = old.draft /\ q.error = "tooMany"
      /\ q.charged = opened /\ q.refunded = old.refunded /\ q.lost = old.lost
      /\ q.blind = old.blind
  BY <1>0, <1>4 DEF RequestState
<1>7. UNCHANGED <<draft, failed, index>> /\ window' = opened
      /\ counter' = [used |-> counter.used + 1, expires |-> TRUE]
  BY <1>1 DEF Count, Counted
<1>8. req' = [req EXCEPT ![r] = q]
  BY <1>q, <1>2, <1>4 DEF DraftIInv, DraftTypeOK, RequestState
<1>9. MovesTo(r, q)
  BY <1>0, <1>7, <1>8 DEF MovesTo, Alive
<1>10. RequestOK(q)'
  BY <1>0, <1>2, <1>3, <1>6, <1>7 DEF RequestOK, Uploading, Alive
<1>11. StaysListed(q)
  BY <1>7 DEF StaysListed
<1>12. RequestsInv' /\ req' \in [Senders -> RequestState]
  BY <1>5, <1>9, <1>10, OthersStayOK
<1>13. ListedWhileAlive'
  BY <1>q, <1>0, <1>5, <1>9, <1>11, ListStays
<1>14. DraftTypeOK'
  BY <1>0, <1>3, <1>7, <1>12 DEF DraftTypeOK, Counter
<1>15. WindowsInv' /\ CounterAccounts' /\ BudgetKept'
  BY <1>14, CountBills
<1> QED
  BY <1>12, <1>13, <1>14, <1>15 DEF DraftIInv

\* The draft is there and listed; who has taken it for gone is blind for it.
LEMMA SaveKeeps ==
  ASSUME DraftIInv, NEW r \in Senders, Save(r)
  PROVE  DraftIInv'
<1>q. PICK old : old = req[r]
  OBVIOUS
<1>0. /\ old \in RequestState /\ RequestOK(old) /\ old.pc = "save"
      /\ failed \subseteq Drafts /\ index \subseteq Drafts /\ draft \in [Drafts -> Draft]
      /\ req \in [Senders -> RequestState]
  BY <1>q, AtItsPlace DEF Save, IsAt, DraftIInv, DraftTypeOK
<1>1. PICK d : d = old.draft
  OBVIOUS
<1>2. d \in Drafts
  BY <1>0, <1>1 DEF RequestOK, Uploading
<1>3. /\ draft' = [draft EXCEPT ![d] = [status |-> "READY", items |-> r]]
      /\ index' = index \cup {d}
      /\ UNCHANGED <<counter, window, failed>>
  BY <1>q, <1>1 DEF Save, Indexed
<1>4. req' = [s \in Senders |->
          CASE s = r -> [req[s] EXCEPT !.pc = "drafted"]
            [] s \in TookForGone(d) \ {r} -> [req[s] EXCEPT !.blind = @ \cup {d}]
            [] OTHER -> req[s]]
  BY <1>q, <1>1 DEF Save
<1>5. ASSUME NEW s \in Senders
      PROVE  /\ req'[s] \in RequestState
             /\ req'[s].charged = req[s].charged /\ req'[s].refunded = req[s].refunded
             /\ req'[s].lost = req[s].lost /\ req'[s].op = req[s].op
             /\ req'[s].draft = req[s].draft /\ req'[s].error = req[s].error
             /\ req'[s].seen = req[s].seen
             /\ req'[s].pc = IF s = r THEN "drafted" ELSE req[s].pc
             /\ req[s].blind \subseteq req'[s].blind
             /\ s # r /\ s \in TookForGone(d) => d \in req'[s].blind
  <2>0. req[s] \in RequestState
    BY <1>0
  <2>1. CASE s = r
    <3>1. req'[s] = [req[s] EXCEPT !.pc = "drafted"]
      BY <1>4, <2>1
    <3> QED
      BY <2>0, <2>1, <3>1 DEF RequestState, Outcomes
  <2>2. CASE s # r /\ s \in TookForGone(d)
    <3>1. req'[s] = [req[s] EXCEPT !.blind = req[s].blind \cup {d}]
      BY <1>4, <2>2
    <3> QED
      BY <1>2, <2>0, <2>2, <3>1 DEF RequestState
  <2>3. CASE s # r /\ s \notin TookForGone(d)
    <3>1. req'[s] = req[s]
      BY <1>4, <2>3
    <3> QED
      BY <2>0, <2>3, <3>1
  <2> QED
    BY <2>1, <2>2, <2>3
<1>6. DraftTypeOK'
  <2>1. [status |-> "READY", items |-> r] \in Draft
    BY DEF Draft
  <2>2. draft' \in [Drafts -> Draft]
    BY <1>0, <1>3, <2>1
  <2>3. req' \in [Senders -> RequestState]
    BY <1>4, <1>5
  <2> QED
    BY <1>0, <1>2, <1>3, <2>2, <2>3 DEF DraftIInv, DraftTypeOK
<1>7. Unbilled
  <2> SUFFICES ASSUME NEW s \in Senders
               PROVE  /\ Free(s)' <=> Free(s)
                      /\ req'[s].pc \in PaidStates => req[s].pc \in PaidStates
    BY <1>3, <1>5 DEF Unbilled
  <2>1. CASE s = r
    <3>1. req[s].pc = "save" /\ req'[s].pc = "drafted"
      BY <1>q, <1>0, <1>5, <2>1
    <3> QED
      BY <3>1 DEF Free, PaidStates
  <2>2. CASE s # r
    BY <1>5, <2>2 DEF Free
  <2> QED
    BY <2>1, <2>2
<1>8. WindowsInv' /\ CounterAccounts' /\ BudgetKept'
  BY <1>7, UnbilledKeeps
<1>9. \A e \in Drafts : e # d => (Alive(e)' <=> Alive(e))
  BY <1>0, <1>3 DEF Alive
<1>10. RequestsInv'
  <2> SUFFICES ASSUME NEW s \in Senders, NEW q \in {req'[s]}
               PROVE  RequestOK(q)'
    BY DEF RequestsInv
  <2>1. PICK o : o = req[s]
    OBVIOUS
  <2>2. RequestOK(o) /\ o \in RequestState
    BY <2>1, AtItsPlace
  <2>3. /\ q.charged = o.charged /\ q.refunded = o.refunded /\ q.lost = o.lost
        /\ q.op = o.op /\ q.draft = o.draft /\ q.error = o.error /\ q.seen = o.seen
        /\ o.blind \subseteq q.blind
    BY <1>5, <2>1
  <2>4. CASE s = r
    <3>1. q.pc = "drafted"
      BY <1>5, <2>4
    <3> QED
      BY <3>1 DEF RequestOK, Uploading
  <2>5. CASE s # r
    <3>1. q.pc = o.pc
      BY <1>5, <2>1, <2>5
    <3>2. q.pc \in {"count", "extract", "save"} /\ Alive(q.draft)' => q.draft \in q.blind
      <4> SUFFICES ASSUME q.pc \in {"count", "extract", "save"}, Alive(q.draft)'
                   PROVE  q.draft \in q.blind
        OBVIOUS
      <4>1. o.draft \in Drafts
        BY <2>2, <3>1 DEF RequestOK, Uploading
      <4>2. CASE o.draft = d
        <5>1. s \in TookForGone(d)
          BY <2>1, <3>1, <4>2 DEF TookForGone
        <5> QED
          BY <1>5, <2>3, <2>5, <4>2, <5>1
      <4>3. CASE o.draft # d
        <5>1. Alive(o.draft)
          BY <1>9, <2>3, <4>1, <4>3
        <5> QED
          BY <2>2, <2>3, <3>1, <5>1 DEF RequestOK
      <4> QED
        BY <4>2, <4>3
    <3>3. q.pc = "prune" => \A e \in q.seen : Alive(e)' => e \in q.blind
      <4> SUFFICES ASSUME q.pc = "prune", NEW e \in q.seen, Alive(e)'
                   PROVE  e \in q.blind
        OBVIOUS
      <4>1. e \in Drafts /\ e \in o.seen
        BY <2>2, <2>3 DEF RequestState
      <4>2. CASE e = d
        <5>1. s \in TookForGone(d)
          BY <2>1, <3>1, <4>1, <4>2 DEF TookForGone
        <5> QED
          BY <1>5, <2>5, <4>2, <5>1
      <4>3. CASE e # d
        <5>1. Alive(e)
          BY <1>9, <4>1, <4>3
        <5> QED
          BY <2>2, <2>3, <3>1, <4>1, <5>1 DEF RequestOK
      <4> QED
        BY <4>2, <4>3
    <3> QED
      BY <2>2, <2>3, <3>1, <3>2, <3>3 DEF RequestOK
  <2> QED
    BY <2>4, <2>5
<1>11. ListedWhileAlive'
  <2> SUFFICES ASSUME NEW e \in Drafts, Alive(e)', e \notin index'
               PROVE  \E s \in Senders : req'[s].op = "list" /\ req'[s].pc = "ok"
                                         /\ e \in req'[s].blind
    BY DEF ListedWhileAlive, AliveDrafts
  <2>1. e # d /\ e \notin index
    BY <1>3
  <2>2. e \in AliveDrafts \ index
    BY <1>9, <2>1 DEF AliveDrafts
  <2>3. PICK s \in Senders : req[s].op = "list" /\ req[s].pc = "ok" /\ e \in req[s].blind
    BY <2>2 DEF DraftIInv, ListedWhileAlive
  <2>4. s # r
    BY <1>q, <1>0, <2>3
  <2> QED
    BY <1>5, <2>3, <2>4
<1> QED
  BY <1>6, <1>8, <1>10, <1>11 DEF DraftIInv

\* The requests whose ends write no draft.
LEMMA OthersEnd ==
  ASSUME DraftIInv, NEW r \in Senders,
         CountUnavailable(r) \/ RecordFailure(r) \/ SaveFails(r) \/ Crash(r)
  PROVE  DraftIInv'
<1>q. PICK old : old = req[r]
  OBVIOUS
<1>0. /\ old \in RequestState /\ RequestOK(old) /\ failed \subseteq Drafts
  BY <1>q, AtItsPlace
<1>1. PICK pc \in Outcomes :
        /\ Goes(r, pc) /\ req[r].pc \in Running
        /\ pc \in {"unavailable", "dead"}
           \/ (pc \in {"unreadable", "drafted"} /\ req[r].pc \in {"record", "save"})
  <2>1. CASE CountUnavailable(r)
    BY <2>1 DEF CountUnavailable, IsAt, Running, Outcomes
  <2>2. CASE RecordFailure(r)
    BY <2>2 DEF RecordFailure, IsAt, Running, Outcomes
  <2>3. CASE SaveFails(r)
    BY <2>3 DEF SaveFails, IsAt, Running, Outcomes
  <2>4. CASE Crash(r)
    BY <2>4 DEF Crash, Outcomes
  <2> QED
    BY <2>1, <2>2, <2>3, <2>4
<1>2. UNCHANGED <<counter, window, draft, index>>
  BY DEF CountUnavailable, RecordFailure, SaveFails, Crash
<1>3. failed' \subseteq Drafts
  <2>1. CASE RecordFailure(r)
    <3>1. old.draft \in Drafts
      BY <1>q, <1>0, <2>1 DEF RecordFailure, IsAt, RequestOK, Uploading
    <3> QED
      BY <1>q, <1>0, <2>1, <3>1 DEF RecordFailure
  <2>2. CASE failed' = failed
    BY <1>0, <2>2
  <2> QED
    BY <2>1, <2>2 DEF CountUnavailable, SaveFails, Crash
<1>4. pc \notin {"record", "save", "tooMany", "upstream"} /\ pc \in {"record", "save"} \cup Outcomes
  BY <1>1
<1>5. req' = [req EXCEPT ![r].pc = pc]
  BY <1>1 DEF Goes
<1>6. pc \in {"unreadable", "drafted"} => req[r].pc \in {"record", "save"}
  BY <1>1
<1> QED
  BY <1>1, <1>2, <1>3, <1>4, <1>5, <1>6, EndingKeeps

\* What WRITE_IF_ALIVE writes brings no draft up.
LEMMA WritesIfAlive ==
  ASSUME draft \in [Drafts -> Draft], NEW d \in Drafts, NEW row,
         Alive(d) => row \in Draft,
         draft' \in {draft, WrittenIfAlive(d, row)}
  PROVE  draft' \in [Drafts -> Draft] /\ \A e \in Drafts : Alive(e)' => Alive(e)
<1>1. CASE draft' = draft
  BY <1>1 DEF Alive
<1>2. CASE draft' = [draft EXCEPT ![d] = row] /\ Alive(d)
  BY <1>2 DEF Alive
<1> QED
  BY <1>1, <1>2 DEF WrittenIfAlive

\* A commit marks its draft, if that is there.
LEMMA MarkKeeps ==
  ASSUME DraftIInv, NEW r \in Senders, MarkCommitted(r)
  PROVE  DraftIInv'
<1>q. PICK old : old = req[r]
  OBVIOUS
<1>0. /\ old \in RequestState /\ RequestOK(old) /\ old.pc = "mark"
      /\ failed \subseteq Drafts /\ index \subseteq Drafts /\ draft \in [Drafts -> Draft]
  BY <1>q, AtItsPlace DEF MarkCommitted, IsAt
<1>1. PICK d \in Drafts : d = old.draft
  BY <1>0 DEF RequestOK
<1>2. PICK row : row = [draft[d] EXCEPT !.status = "COMMITTED"]
  OBVIOUS
<1>3. draft' \in {draft, WrittenIfAlive(d, row)}
  BY <1>q, <1>1, <1>2 DEF MarkCommitted
<1>4. Alive(d) => row \in Draft
  <2>1. draft[d] \in Draft
    BY <1>0
  <2> QED
    BY <1>2, <2>1 DEF Alive, Draft
<1>5. draft' \in [Drafts -> Draft] /\ \A e \in Drafts : Alive(e)' => Alive(e)
  BY <1>0, <1>3, <1>4, WritesIfAlive
<1>6. UNCHANGED <<counter, window, failed, index>>
  BY DEF MarkCommitted
<1>7. PICK q : q = [old EXCEPT !.pc = "ok"]
  OBVIOUS
<1>8. q \in RequestState
  BY <1>0, <1>7 DEF RequestState, Outcomes
<1>9. q.pc = "ok" /\ q.charged = old.charged /\ q.refunded = old.refunded
  BY <1>0, <1>7 DEF RequestState
<1>10. MovesTo(r, q)
  BY <1>q, <1>0, <1>5, <1>6, <1>7 DEF MovesTo, MarkCommitted, Goes
<1>11. RequestOK(q)'
  BY <1>9 DEF RequestOK, Uploading
<1>12. StaysListed(q)
  BY <1>6 DEF StaysListed
<1>13. q.pc \notin PaidStates
  BY <1>9 DEF PaidStates
<1> QED
  BY <1>q, <1>0, <1>6, <1>8, <1>9, <1>10, <1>11, <1>12, <1>13, GoesForNothing

\* An owner's request that begins, and writes a draft that is there at the most.
LEMMA BeginsKeep ==
  ASSUME DraftIInv, NEW r \in Senders, IsAt(r, "idle"), UNCHANGED <<counter, window, failed, index>>,
         draft' \in [Drafts -> Draft], \A d \in Drafts : Alive(d)' => Alive(d),
         NEW q \in RequestState, req' = [req EXCEPT ![r] = q],
         q.charged = 0, q.refunded = 0,
         q.pc \in {"ok", "missing", "mark", "read"},
         q.pc = "mark" => q.draft \in Drafts, q.pc = "read" => q.op = "list"
  PROVE  DraftIInv'
<1>q. PICK old : old = req[r]
  OBVIOUS
<1>0. /\ old \in RequestState /\ RequestOK(old) /\ old.pc = "idle"
      /\ failed \subseteq Drafts /\ index \subseteq Drafts
  BY <1>q, AtItsPlace DEF IsAt
<1>1. old.charged = 0 /\ old.refunded = 0
  BY <1>0 DEF RequestOK
<1>2. MovesTo(r, q)
  BY <1>0 DEF MovesTo
<1>3. RequestOK(q)'
  BY DEF RequestOK, Uploading
<1>4. StaysListed(q)
  BY DEF StaysListed
<1> QED
  BY <1>q, <1>0, <1>1, <1>2, <1>3, <1>4, GoesForNothing

\* An edit, a commit and a listing begin.
LEMMA OwnersBegin ==
  ASSUME DraftIInv, NEW r \in Senders,
         ReadIndex(r) \/ \E d \in Drafts : Edit(r, d) \/ CreateMenus(r, d)
  PROVE  DraftIInv'
<1>0. draft \in [Drafts -> Draft] /\ index \subseteq Drafts
  BY DEF DraftIInv, DraftTypeOK
<1>a. draft' = draft => draft' \in [Drafts -> Draft] /\ \A d \in Drafts : Alive(d)' => Alive(d)
  BY <1>0 DEF Alive
<1>1. CASE ReadIndex(r)
  <2>1. PICK q : q = [[Idle EXCEPT !.op = "list", !.seen = index]
                        EXCEPT !.pc = IF index = {} THEN "ok" ELSE "read"]
    OBVIOUS
  <2>2. req' = [req EXCEPT ![r] = q] /\ IsAt(r, "idle")
        /\ UNCHANGED <<counter, window, draft, failed, index>>
    BY <1>1, <2>1 DEF ReadIndex
  <2>3. /\ q.pc \in {"ok", "read"} /\ q.op = "list" /\ q.charged = 0 /\ q.refunded = 0
    BY <2>1 DEF Idle
  <2>4. q \in RequestState
    <3>1. [Idle EXCEPT !.op = "list", !.seen = index] \in RequestState
      BY <1>0 DEF Idle, RequestState, Operations
    <3> QED
      BY <2>1, <3>1 DEF RequestState, Running, Outcomes
  <2> QED
    BY <1>a, <2>2, <2>3, <2>4, BeginsKeep
<1>2. ASSUME NEW d \in Drafts, Edit(r, d)
      PROVE  DraftIInv'
  <2>1. PICK q : q = [Idle EXCEPT !.op = "edit", !.draft = d,
                                  !.pc = IF Alive(d) THEN "ok" ELSE "missing"]
    OBVIOUS
  <2>2. PICK row : row = [draft[d] EXCEPT !.items = r]
    OBVIOUS
  <2>3. /\ req' = [req EXCEPT ![r] = q] /\ IsAt(r, "idle")
        /\ UNCHANGED <<counter, window, failed, index>>
        /\ draft' = WrittenIfAlive(d, row)
    BY <1>2, <2>1, <2>2 DEF Edit
  <2>4. q.pc \in {"ok", "missing"} /\ q.charged = 0 /\ q.refunded = 0
    BY <2>1 DEF Idle
  <2>5. q \in RequestState
    BY <2>1 DEF Idle, RequestState, Operations, Outcomes
  <2>6. Alive(d) => row \in Draft
    <3>1. draft[d] \in Draft
      BY <1>0
    <3> QED
      BY <2>2, <3>1 DEF Alive, Draft
  <2>7. draft' \in [Drafts -> Draft] /\ \A e \in Drafts : Alive(e)' => Alive(e)
    BY <1>0, <2>3, <2>6, WritesIfAlive
  <2> QED
    BY <2>3, <2>4, <2>5, <2>7, BeginsKeep
<1>3. ASSUME NEW d \in Drafts, CreateMenus(r, d)
      PROVE  DraftIInv'
  <2>1. PICK pc \in {"mark", "missing"} :
          req' = [req EXCEPT ![r] = [[Idle EXCEPT !.op = "commit", !.draft = d]
                                       EXCEPT !.pc = pc]]
    BY <1>3 DEF CreateMenus
  <2>2. PICK q : q = [[Idle EXCEPT !.op = "commit", !.draft = d] EXCEPT !.pc = pc]
    OBVIOUS
  <2>3. IsAt(r, "idle") /\ UNCHANGED <<counter, window, draft, failed, index>>
    BY <1>3 DEF CreateMenus
  <2>4. q.pc = pc /\ q.draft = d /\ q.charged = 0 /\ q.refunded = 0
    BY <2>2 DEF Idle
  <2>5. q \in RequestState
    <3>1. [Idle EXCEPT !.op = "commit", !.draft = d] \in RequestState
      BY DEF Idle, RequestState, Operations
    <3> QED
      BY <2>2, <3>1 DEF RequestState, Running, Outcomes
  <2> QED
    BY <1>a, <2>1, <2>2, <2>3, <2>4, <2>5, BeginsKeep
<1> QED
  BY <1>1, <1>2, <1>3

\* A listing has found drafts expired, and takes off the list what it has found.
LEMMA ListingKeeps ==
  ASSUME DraftIInv, NEW r \in Senders, ReadDrafts(r) \/ Prune(r)
  PROVE  DraftIInv'
<1>q. PICK old : old = req[r]
  OBVIOUS
<1>0. /\ old \in RequestState /\ RequestOK(old)
      /\ failed \subseteq Drafts /\ index \subseteq Drafts /\ draft \in [Drafts -> Draft]
  BY <1>q, AtItsPlace
<1>1. ASSUME ReadDrafts(r)
      PROVE  DraftIInv'
  <2>1. old.pc = "read" /\ UNCHANGED <<counter, window, draft, failed, index>>
    BY <1>q, <1>1 DEF ReadDrafts, IsAt
  <2>2. PICK expired : expired = old.seen \ AliveDrafts
    OBVIOUS
  <2>3. PICK pc \in {"ok", "prune"} : pc = IF expired = {} THEN "ok" ELSE "prune"
    OBVIOUS
  <2>4. PICK q : q = [old EXCEPT !.seen = expired, !.pc = pc]
    OBVIOUS
  <2>5. req' = [req EXCEPT ![r] = q]
    BY <1>q, <1>1, <2>2, <2>3, <2>4 DEF ReadDrafts, ToPrune, DraftIInv, DraftTypeOK, RequestState
  <2>6. q \in RequestState
    BY <1>0, <2>2, <2>4 DEF RequestState, Running, Outcomes
  <2>7. /\ q.pc = pc /\ q.op = old.op /\ q.seen = expired
        /\ q.charged = old.charged /\ q.refunded = old.refunded
    BY <1>0, <2>4 DEF RequestState
  <2>8. \A d \in expired : ~Alive(d)'
    BY <1>0, <2>1, <2>2 DEF AliveDrafts, Alive, RequestState
  <2>9. RequestOK(q)'
    BY <1>0, <2>1, <2>7, <2>8 DEF RequestOK, Uploading
  <2>10. MovesTo(r, q)
    BY <1>0, <2>1, <2>5 DEF MovesTo, Alive
  <2>11. StaysListed(q)
    BY <2>1 DEF StaysListed
  <2>12. q.pc \notin PaidStates
    BY <2>7 DEF PaidStates
  <2> QED
    BY <1>q, <2>1, <2>6, <2>7, <2>9, <2>10, <2>11, <2>12, GoesForNothing
<1>2. ASSUME Prune(r)
      PROVE  DraftIInv'
  <2>1. /\ old.pc = "prune" /\ UNCHANGED <<counter, window, draft, failed>>
        /\ index' = index \ old.seen
    BY <1>q, <1>2 DEF Prune, IsAt
  <2>2. PICK q : q = [old EXCEPT !.pc = "ok", !.seen = {}]
    OBVIOUS
  <2>3. req' = [req EXCEPT ![r] = q]
    BY <1>q, <1>2, <2>2 DEF Prune, DraftIInv, DraftTypeOK, RequestState
  <2>4. q \in RequestState
    BY <1>0, <2>2 DEF RequestState, Outcomes
  <2>5. /\ q.pc = "ok" /\ q.op = old.op /\ q.blind = old.blind
        /\ q.charged = old.charged /\ q.refunded = old.refunded
    BY <1>0, <2>2 DEF RequestState
  <2>6. RequestOK(q)'
    BY <2>5 DEF RequestOK, Uploading
  <2>7. MovesTo(r, q)
    BY <1>0, <2>1, <2>3 DEF MovesTo, Alive
  <2>8. StaysListed(q)
    BY <1>0, <2>1, <2>5 DEF StaysListed, RequestOK, Alive
  <2>9. q.pc \notin PaidStates
    BY <2>5 DEF PaidStates
  <2> QED
    BY <1>q, <2>1, <2>4, <2>5, <2>6, <2>7, <2>8, <2>9, GoesForNothing
<1> QED
  BY <1>1, <1>2

\* Keys expire under the requests.
LEMMA ExpiryKeeps ==
  ASSUME DraftIInv,
         \/ ExpireCounter \/ ExpireIndex \/ UNCHANGED draftVars
         \/ \E d \in Drafts : ExpireDraft(d) \/ ExpireFailure(d)
  PROVE  DraftIInv'
<1>0. /\ req' = req /\ window' = window
  BY DEF ExpireCounter, ExpireIndex, ExpireDraft, ExpireFailure, draftVars
<1>1. draft' \in [Drafts -> Draft] /\ \A d \in Drafts : Alive(d)' => Alive(d)
  <2>0. draft \in [Drafts -> Draft]
    BY DEF DraftIInv, DraftTypeOK
  <2>1. CASE draft' = draft
    BY <2>0, <2>1 DEF Alive
  <2>2. ASSUME NEW d \in Drafts, ExpireDraft(d)
        PROVE  draft' \in [Drafts -> Draft] /\ \A e \in Drafts : Alive(e)' => Alive(e)
    BY <2>0, <2>2 DEF ExpireDraft, NoDraft, Draft, Alive
  <2> QED
    BY <2>1, <2>2 DEF ExpireCounter, ExpireIndex, ExpireFailure, draftVars
<1>2. RequestsInv'
  <2> SUFFICES ASSUME NEW s \in Senders, NEW o \in {req[s]}
               PROVE  RequestOK(o)'
    BY <1>0 DEF RequestsInv
  <2>1. o \in RequestState /\ RequestOK(o)
    BY AtItsPlace
  <2>2. o.seen \subseteq Drafts
    BY <2>1 DEF RequestState
  <2>3. o.pc \in {"count", "extract", "save"} => o.draft \in Drafts
    BY <2>1 DEF RequestOK, Uploading
  <2> QED
    BY <1>1, <2>1, <2>2, <2>3 DEF RequestOK
<1>3. counter' = counter \/ (counter' = NoCounter /\ NoCounter.used = 0 /\ NoCounter \in Counter)
  BY DEF ExpireCounter, ExpireIndex, ExpireDraft, ExpireFailure, draftVars, NoCounter, Counter
<1>4. /\ failed' \subseteq Drafts /\ index' \subseteq Drafts
      /\ index' = index \/ (AliveDrafts = {} /\ draft' = draft)
  BY DEF DraftIInv, DraftTypeOK, ExpireCounter, ExpireIndex, ExpireDraft, ExpireFailure, draftVars
<1>5. DraftTypeOK'
  BY <1>0, <1>1, <1>3, <1>4 DEF DraftIInv, DraftTypeOK
<1>6. WindowsInv'
  BY <1>0, <1>3 DEF DraftIInv, WindowsInv
<1>7. /\ \A w : ChargedIn(w)' = ChargedIn(w) /\ LateRefunds(w)' = LateRefunds(w)
      /\ \A w : CallsPaidBy(w)' = CallsPaidBy(w)
      /\ \A s \in Senders : Free(s)' <=> Free(s)
  BY <1>0 DEF ChargedIn, LateRefunds, CallsPaidBy, Free
<1>8. BudgetKept'
  <2> SUFFICES ASSUME NEW w \in 1 .. window
               PROVE  Cardinality(CallsPaidBy(w)') <= RateLimit + Cardinality(LateRefunds(w)')
    BY <1>0 DEF BudgetKept
  <2>1. Cardinality(CallsPaidBy(w)) <= RateLimit + Cardinality(LateRefunds(w))
    BY DEF DraftIInv, BudgetKept
  <2> QED
    BY <1>7, <2>1
<1>9. CounterAccounts'
  <2>1. CASE counter' = counter
    BY <1>0, <2>1 DEF DraftIInv, CounterAccounts, ChargedIn, LateRefunds, Free
  <2>2. CASE counter'.used = 0
    BY <2>2 DEF CounterAccounts
  <2> QED
    BY <1>3, <2>1, <2>2
<1>10. ListedWhileAlive'
  <2> SUFFICES ASSUME NEW d \in Drafts, Alive(d)', d \notin index'
               PROVE  \E s \in Senders : req[s].op = "list" /\ req[s].pc = "ok" /\ d \in req[s].blind
    BY <1>0 DEF ListedWhileAlive, AliveDrafts
  <2>1. Alive(d) /\ d \in AliveDrafts
    BY <1>1 DEF AliveDrafts
  <2>2. index' = index
    BY <1>4, <2>1
  <2> QED
    BY <2>1, <2>2 DEF DraftIInv, ListedWhileAlive
<1> QED
  BY <1>2, <1>5, <1>6, <1>8, <1>9, <1>10 DEF DraftIInv

-----------------------------------------------------------------------------
\* The invariant, and what follows from it.

\* Nothing is there, and nobody has asked for anything.
LEMMA DraftStarts == DraftInit => DraftIInv
<1> SUFFICES ASSUME DraftInit
             PROVE  DraftIInv
  OBVIOUS
<1>1. \A r \in Senders : req[r] = Idle
  BY DEF DraftInit
<1>2. /\ counter.used = 0 /\ counter \in Counter /\ window = 0 /\ index = {} /\ failed = {}
      /\ draft = [d \in Drafts |-> NoDraft]
  BY DEF DraftInit, NoCounter, Counter
<1>3. Idle \in RequestState
  BY DEF Idle, RequestState, Operations
<1>4. DraftTypeOK
  <2>1. req \in [Senders -> RequestState]
    BY <1>3 DEF DraftInit
  <2>2. draft \in [Drafts -> Draft]
    BY <1>2 DEF Draft, NoDraft
  <2> QED
    BY <1>2, <2>1, <2>2 DEF DraftTypeOK
<1>5. WindowsInv
  BY <1>1, <1>2 DEF WindowsInv, Idle
<1>6. RequestsInv
  BY <1>1 DEF RequestsInv, RequestOK, Uploading, Idle
<1>7. CounterAccounts /\ BudgetKept
  BY <1>2 DEF CounterAccounts, BudgetKept
<1>8. ListedWhileAlive
  BY <1>2 DEF ListedWhileAlive, AliveDrafts, Alive, NoDraft
<1> QED
  BY <1>4, <1>5, <1>6, <1>7, <1>8 DEF DraftIInv

\* Every step keeps the invariant.
THEOREM DraftSteps ==
  DraftIInv /\ [DraftNext]_draftVars => DraftIInv'
<1> SUFFICES ASSUME DraftIInv, [DraftNext]_draftVars
             PROVE  DraftIInv'
  OBVIOUS
<1>1. ASSUME NEW r \in Senders, NEW d \in Drafts, Upload(r, d) \/ Edit(r, d) \/ CreateMenus(r, d)
      PROVE  DraftIInv'
  BY <1>1, UploadKeeps, OwnersBegin
<1>2. ASSUME NEW r \in Senders, ReadIndex(r) \/ Step(r) \/ Crash(r)
      PROVE  DraftIInv'
  BY <1>2, OwnersBegin, CountKeeps, OthersEnd, ExtractKeeps, RefundKeeps, SaveKeeps,
     MarkKeeps, ListingKeeps DEF Step
<1>3. CASE \/ ExpireCounter \/ ExpireIndex \/ UNCHANGED draftVars
           \/ \E d \in Drafts : ExpireDraft(d) \/ ExpireFailure(d)
  BY <1>3, ExpiryKeeps
<1> QED
  BY <1>1, <1>2, <1>3 DEF DraftNext

\* Every behaviour of the drafts keeps the invariant.
THEOREM DraftInvariant == DraftSpec => []DraftIInv
<1> QED
  BY DraftStarts, DraftSteps, PTL DEF DraftSpec

\* The counter of a window is what the owner was told of the uploads it counted,
\* less the refunds that came late to it (assertWithinRateLimit, refundRateLimit),
\* for any number of uploads, crashes, expiries and lost replies.
THEOREM CounterIsHonest == DraftSpec => []CounterAccounts
<1>1. DraftIInv => CounterAccounts
  BY DEF DraftIInv
<1> QED
  BY <1>1, DraftInvariant, PTL

\* A window pays for the limit at the most, and one call more for each late refund.
THEOREM BudgetHolds == DraftSpec => []BudgetKept
<1>1. DraftIInv => BudgetKept
  BY DEF DraftIInv
<1> QED
  BY <1>1, DraftInvariant, PTL

\* A draft that can be opened is on the list, unless a listing that had found it
\* expired has pruned it since (list).
THEOREM DraftsAreListed == DraftSpec => []ListedWhileAlive
<1>1. DraftIInv => ListedWhileAlive
  BY DEF DraftIInv
<1> QED
  BY <1>1, DraftInvariant, PTL

\* What a step may do to a draft that is there.
EditedFor(d) ==
  LET by == draft'[d].items IN
  (/\ draft'[d].status = "READY"
   /\ by # draft[d].items \/ draft[d].status = "COMMITTED"
   /\ req'[by].op = "upload")
  => d \in req[by].blind /\ req[by].charged > 0

\* Only a recognition replaces it by another, and one that was blind and paid for.
THEOREM EditsAreReplacedBlindly == DraftSpec => EditsSurvive
<1>1. ASSUME DraftIInv, [DraftNext]_draftVars, NEW d \in AliveDrafts
      PROVE  EditedFor(d)
  <2>0. /\ draft \in [Drafts -> Draft] /\ d \in Drafts /\ Alive(d)
        /\ req \in [Senders -> RequestState]
    BY <1>1 DEF DraftIInv, DraftTypeOK, AliveDrafts
  <2>1. CASE draft'[d] = draft[d]
    BY <2>1 DEF EditedFor
  <2>2. CASE draft'[d].status # "READY"
    BY <2>2 DEF EditedFor
  <2>3. ASSUME NEW r \in Senders, Save(r), draft'[d] # draft[d]
        PROVE  EditedFor(d)
    <3>q. PICK q : q = req[r]
      OBVIOUS
    <3>1. RequestOK(q) /\ q.pc = "save"
      BY <1>1, <2>3, <3>q, AtItsPlace DEF Save, IsAt
    <3>2. draft' = [draft EXCEPT ![q.draft] = [status |-> "READY", items |-> r]]
      BY <2>3, <3>q DEF Save
    <3>3. q.draft = d /\ draft'[d].items = r
      BY <2>0, <2>3, <3>2
    <3>4. d \in q.blind /\ q.charged > 0
      BY <2>0, <3>1, <3>3 DEF RequestOK
    <3> QED
      BY <3>q, <3>3, <3>4 DEF EditedFor
  <2>4. ASSUME NEW r \in Senders, NEW e \in Drafts, Edit(r, e), draft'[d] # draft[d]
        PROVE  EditedFor(d)
    <3>1. draft' = [draft EXCEPT ![e] = [draft[e] EXCEPT !.items = r]]
      BY <2>4 DEF Edit, WrittenIfAlive
    <3>2. e = d /\ draft'[d] = [draft[d] EXCEPT !.items = r]
      BY <2>0, <2>4, <3>1
    <3>3. draft[d] \in [status : {"READY", "COMMITTED"}, items : Senders]
      BY <2>0 DEF Alive, Draft
    <3>4. draft'[d].items = r
      BY <3>2, <3>3
    <3>5. req'[r].op = "edit"
      BY <2>0, <2>4 DEF Edit, Idle
    <3> QED
      BY <3>4, <3>5 DEF EditedFor
  <2>5. ASSUME NEW r \in Senders, MarkCommitted(r), draft'[d] # draft[d]
        PROVE  EditedFor(d)
    <3>q. PICK q : q = req[r]
      OBVIOUS
    <3>1. draft' = [draft EXCEPT ![q.draft] = [draft[q.draft] EXCEPT !.status = "COMMITTED"]]
      BY <2>5, <3>q DEF MarkCommitted, WrittenIfAlive
    <3>2. draft'[d] = [draft[d] EXCEPT !.status = "COMMITTED"]
      BY <2>0, <2>5, <3>1
    <3>3. draft[d] \in [status : {"READY", "COMMITTED"}, items : Senders]
      BY <2>0 DEF Alive, Draft
    <3>4. draft'[d].status = "COMMITTED"
      BY <3>2, <3>3
    <3> QED
      BY <2>2, <3>4
  <2>6. ASSUME NEW e \in Drafts, ExpireDraft(e), draft'[d] # draft[d]
        PROVE  EditedFor(d)
    <3>1. draft'[d] = NoDraft
      BY <2>0, <2>6 DEF ExpireDraft
    <3> QED
      BY <2>2, <3>1 DEF NoDraft
  <2>7. CASE draft' = draft
    BY <2>1, <2>7
  <2> QED
    BY <1>1, <2>1, <2>3, <2>4, <2>5, <2>6, <2>7 DEF DraftNext, Step, Upload, CreateMenus,
       ReadIndex, Crash, Count, CountUnavailable, Extract, RecordFailure, Refund, SaveFails,
       ReadDrafts, Prune, ExpireCounter, ExpireFailure, ExpireIndex, draftVars
<1>2. ASSUME DraftIInv, [DraftNext]_draftVars
      PROVE  \A d \in AliveDrafts : EditedFor(d)
  BY <1>1, <1>2
<1> QED
  BY <1>2, DraftInvariant, PTL DEF DraftSpec, EditsSurvive, EditedFor

-----------------------------------------------------------------------------
(***************************************************************************)
(* What a draft holds: DraftItems                                          *)
(***************************************************************************)

CategoryRow == [id : Ids \cup Names, name : Names]

\* A non-empty set of places of a list has a last one, and Max finds it.
LEMMA LastPlace ==
  ASSUME NEW n \in Nat, NEW I \in SUBSET (1..n), I # {}
  PROVE  Max(I) \in I /\ \A i \in I : i <= Max(I)
<1> DEFINE f == [i \in I |-> i]
<1>1. IsFiniteSet(I)
  <2>1. IsFiniteSet(1..n)
    BY FS_Interval
  <2> QED
    BY <2>1, FS_Subset
<1>2. f \in [I -> Nat]
  OBVIOUS
<1>3. PICK x \in I : \A y \in I : f[y] <= f[x]
  BY <1>1, <1>2, LastExists
<1>4. x \in I /\ \A y \in I : x >= y
  BY <1>3
<1>5. /\ Max(I) \in I
      /\ \A y \in I : Max(I) >= y
  BY <1>4 DEF Max
<1> QED
  BY <1>5

\* The map by name: of several categories with one key the last.
LEMMA ByNameFinds ==
  ASSUME NEW store, store.categories \in Seq(CategoryRow), NEW name, NEW k, k = ByName(store, name)
  PROVE  /\ k \in 0..Len(store.categories)
         /\ k # 0 => SameName(store.categories[k].name, name)
         /\ k # 0 => \A j \in 1..Len(store.categories) :
                       SameName(store.categories[j].name, name) => j <= k
         /\ k = 0 => \A j \in 1..Len(store.categories) :
                       ~SameName(store.categories[j].name, name)
<1> DEFINE I == {j \in 1..Len(store.categories) : SameName(store.categories[j].name, name)}
<1>1. k = IF I # {} THEN Max(I) ELSE 0
  BY DEF ByName, SelectLastInSeq
<1>2. Len(store.categories) \in Nat
  OBVIOUS
<1>3. I # {} => Max(I) \in I /\ \A i \in I : i <= Max(I)
  BY <1>2, LastPlace
<1> QED
  BY <1>1, <1>2, <1>3, SMTT(60)

\* The map by publicId.
LEMMA ByIdFinds ==
  ASSUME NEW store, store.categories \in Seq(CategoryRow), NEW id, NEW k, k = ById(store, id)
  PROVE  /\ k \in 0..Len(store.categories)
         /\ k # 0 => store.categories[k].id = id
         /\ k = 0 => \A j \in 1..Len(store.categories) : store.categories[j].id # id
<1> DEFINE I == {j \in 1..Len(store.categories) : store.categories[j].id = id}
<1>1. k = IF I # {} THEN Max(I) ELSE 0
  BY DEF ById, SelectLastInSeq
<1>2. Len(store.categories) \in Nat
  OBVIOUS
<1>3. I # {} => Max(I) \in I /\ \A i \in I : i <= Max(I)
  BY <1>2, LastPlace
<1> QED
  BY <1>1, <1>2, <1>3

-----------------------------------------------------------------------------
\* The categories that an item can have, and those that are as the store is.
Category ==
  {Unknown} \cup {Existing(c) : c \in CategoryRow} \cup {New(n) : n \in Names}
Settled(store, category) ==
  \/ category = Unknown
  \/ \E j \in 1..Len(store.categories) : category = Existing(store.categories[j])
  \/ \E n \in Names : category = New(n) /\ ByName(store, n) = 0

\* What the assumption says of a store.
LEMMA StoreFacts ==
  ASSUME NEW store \in Stores
  PROVE  /\ store.categories \in Seq(CategoryRow)
         /\ store.categories \in Seq([id : Ids, name : Names])
         /\ Len(store.categories) \in Nat
         /\ \A j \in 1..Len(store.categories) :
              store.categories[j] \in [id : Ids, name : Names]
         /\ \A i, j \in 1..Len(store.categories) :
              store.categories[i].id = store.categories[j].id => i = j
<1>1. /\ store.categories \in Seq([id : Ids, name : Names])
      /\ \A i, j \in DOMAIN store.categories :
           store.categories[i].id = store.categories[j].id => i = j
  BY StoresAssumption
<1>2. [id : Ids, name : Names] \subseteq CategoryRow
  BY DEF CategoryRow
<1>3. /\ DOMAIN store.categories = 1..Len(store.categories)
      /\ Len(store.categories) \in Nat
      /\ \A j \in 1..Len(store.categories) :
           store.categories[j] \in [id : Ids, name : Names]
      /\ store.categories \in Seq(CategoryRow)
  <2> DEFINE T == [id : Ids, name : Names]
  <2>1. store.categories \in Seq(T) /\ T \subseteq CategoryRow
    BY <1>1, <1>2
  <2>2. ASSUME NEW s, s \in Seq(T)
        PROVE  /\ DOMAIN s = 1..Len(s) /\ Len(s) \in Nat
               /\ \A j \in 1..Len(s) : s[j] \in T
               /\ s \in Seq(CategoryRow)
    <3> HIDE DEF T
    <3> QED
      BY <2>1, <2>2
  <2> QED
    BY <2>1, <2>2
<1> QED
  BY <1>1, <1>3

\* The kinds exclude one another.
LEMMA Kinds ==
  /\ Unknown.kind = "unknown" /\ Unknown.id = Nothing /\ Unknown.name = Nothing
  /\ \A c : /\ Existing(c).kind = "existing" /\ Existing(c).id = c.id
            /\ Existing(c).name = c.name
  /\ \A n : New(n).kind = "new" /\ New(n).id = Nothing /\ New(n).name = n
BY DEF Unknown, Existing, New

\* What the map by name finds is as the store is, in any way that it is settled.
LEMMA NamedSettles ==
  ASSUME NEW store \in Stores, NEW name \in Names, NEW otherwise,
         otherwise \in {Unknown, New(name)}
  PROVE  Settled(store, NamedOr(store, name, otherwise))
<1>0. PICK k : k = ByName(store, name)
  OBVIOUS
<1>1. k \in 0..Len(store.categories) /\ Len(store.categories) \in Nat
  BY <1>0, StoreFacts, ByNameFinds
<1>2. NamedOr(store, name, otherwise) =
        IF k = 0 THEN otherwise ELSE Existing(store.categories[k])
  BY <1>0 DEF NamedOr
<1>3. CASE k = 0
  BY <1>0, <1>2, <1>3 DEF Settled
<1>4. CASE k # 0
  BY <1>1, <1>2, <1>4 DEF Settled
<1> QED
  BY <1>3, <1>4

\* resolveCategory gives an item a category of one of the kinds.
LEMMA ReadIsCategory ==
  ASSUME NEW store \in Stores, NEW name \in Names \cup {Nothing}
  PROVE  ReadCategory(store, name) \in Category
<1>1. CASE name = Nothing
  BY <1>1 DEF ReadCategory, Category
<1>2. CASE name # Nothing
  <2>1. PICK other : /\ other = IF name \in TooLong THEN Unknown ELSE New(name)
    OBVIOUS
  <2>2. Settled(store, NamedOr(store, name, other)) /\ name \in Names
    BY <1>2, <2>1, NamedSettles
  <2>3. \A j \in 1..Len(store.categories) : store.categories[j] \in CategoryRow
    BY StoreFacts DEF CategoryRow
  <2>4. NamedOr(store, name, other) \in Category
    BY <2>2, <2>3 DEF Settled, Category
  <2> QED
    BY <1>2, <2>1, <2>4 DEF ReadCategory
<1> QED
  BY <1>1, <1>2

\* resolveStoredCategory settles it for the store as it is.
LEMMA StoredSettles ==
  ASSUME NEW store \in Stores, NEW category \in Category
  PROVE  Settled(store, StoredCategory(store, category))
<1>0. PICK k : k = ById(store, category.id)
  OBVIOUS
<1>1. k \in 0..Len(store.categories) /\ Len(store.categories) \in Nat
  BY <1>0, StoreFacts, ByIdFinds
<1>2. CASE category = Unknown
  BY <1>2, Kinds DEF StoredCategory, Settled
<1>3. CASE category.kind = "existing" /\ k # 0
  BY <1>0, <1>1, <1>3 DEF StoredCategory, Settled
<1>4. ASSUME NEW c \in CategoryRow, category = Existing(c), k = 0
      PROVE  Settled(store, StoredCategory(store, category))
  <2>1. c.name \in Names
    BY DEF CategoryRow
  <2>2. StoredCategory(store, category) = NamedOr(store, c.name, Unknown)
    BY <1>0, <1>4, Kinds DEF StoredCategory
  <2> QED
    BY <2>1, <2>2, NamedSettles
<1>5. ASSUME NEW n \in Names, category = New(n)
      PROVE  Settled(store, StoredCategory(store, category))
  <2>1. StoredCategory(store, category) = NamedOr(store, n, New(n))
    BY <1>5, Kinds DEF StoredCategory
  <2> QED
    BY <2>1, NamedSettles
<1> QED
  BY <1>2, <1>3, <1>4, <1>5, Kinds DEF Category

-----------------------------------------------------------------------------
\* What is shown: items whose categories are settled for the store as it is,
\* and whose open issues are those of the store as it is.
LEMMA DraftedItems ==
  ASSUME NEW raw \in Extractions, NEW then \in Stores
  PROVE  /\ Kept(raw) \subseteq 1..Len(raw) /\ Len(raw) \in Nat
         /\ DOMAIN Drafted(raw, then) = Kept(raw)
         /\ \A i \in Kept(raw) :
              /\ Drafted(raw, then)[i].name \in Names
              /\ Drafted(raw, then)[i].price \in {"whole", Nothing}
              /\ Drafted(raw, then)[i].category \in Category
<1> DEFINE Raw == [name : Names \cup {Nothing}, category : Names \cup {Nothing},
                   price : {"whole", "fraction", "outOfRange", "none"}]
<1>1. raw \in Seq(Raw)
  BY ExtractionsAssumption
<1>2. Len(raw) \in Nat /\ DOMAIN raw = 1..Len(raw) /\ \A i \in 1..Len(raw) : raw[i] \in Raw
  <2> HIDE DEF Raw
  <2> QED
    BY <1>1
<1>3. Kept(raw) \subseteq 1..Len(raw) /\ \A i \in Kept(raw) : raw[i].name # Nothing
  BY <1>2 DEF Kept
<1>4. /\ DOMAIN Drafted(raw, then) = Kept(raw)
      /\ \A i \in Kept(raw) :
           /\ Drafted(raw, then)[i].name = Cut[raw[i].name]
           /\ Drafted(raw, then)[i].price = ReadPrice(raw[i].price)
           /\ Drafted(raw, then)[i].category = ReadCategory(then, raw[i].category)
  BY DEF Drafted
<1>5. ASSUME NEW i \in Kept(raw)
      PROVE  /\ raw[i].name \in Names /\ raw[i].category \in Names \cup {Nothing}
             /\ Cut[raw[i].name] \in Names
  BY <1>2, <1>3, NameAssumption
<1>6. \A p : ReadPrice(p) \in {"whole", Nothing}
  BY DEF ReadPrice
<1> QED
  BY <1>2, <1>3, <1>4, <1>5, <1>6, ReadIsCategory

\* recomputeMenuDraftIssues settles every category and finds every open issue
\* anew, and leaves the rest of an item.
LEMMA ShownItems ==
  ASSUME NEW raw \in Extractions, NEW then \in Stores, NEW now \in Stores,
         NEW shown, shown = Shown(raw, then, now), NEW D, D = Kept(raw)
  PROVE  /\ DOMAIN shown = D /\ D \subseteq 1..Len(raw) /\ Len(raw) \in Nat
         /\ \A i \in D :
              /\ shown[i] = [name |-> shown[i].name, price |-> shown[i].price,
                             category |-> shown[i].category, issues |-> shown[i].issues]
              /\ shown[i].name \in Names /\ shown[i].price \in {"whole", Nothing}
              /\ Settled(now, shown[i].category)
              /\ shown[i].issues \cap STATEFUL_ISSUES =
                   UnknownCategory(shown[i].category) \cup MissingPrice(shown[i].price)
                     \cup DuplicateName(now, NamesOf(shown), i)
<1> DEFINE items == Drafted(raw, then)
<1>1. /\ D \subseteq 1..Len(raw) /\ Len(raw) \in Nat
      /\ DOMAIN items = D
      /\ \A i \in D : /\ items[i].name \in Names
                      /\ items[i].price \in {"whole", Nothing}
                      /\ items[i].category \in Category
  BY DraftedItems
<1>2. \A i \in D : /\ items[i] = [name |-> items[i].name, price |-> items[i].price,
                                  category |-> items[i].category,
                                  issues |-> items[i].issues]
  BY DEF Drafted
<1> HIDE DEF items
<1>3. /\ DOMAIN shown = D
      /\ \A i \in D :
           shown[i] = [name |-> items[i].name, price |-> items[i].price,
                       category |-> StoredCategory(now, items[i].category),
                       issues |-> (items[i].issues \ STATEFUL_ISSUES)
                         \cup UnknownCategory(StoredCategory(now, items[i].category))
                         \cup MissingPrice(items[i].price)
                         \cup DuplicateName(now, NamesOf(items), i)]
  <2>1. shown = Recomputed(items, now)
    BY DEF Shown, items
  <2> QED
    BY <1>1, <1>2, <2>1 DEF Recomputed
<1>4. NamesOf(shown) = NamesOf(items)
  BY <1>1, <1>3 DEF NamesOf
<1>5. ASSUME NEW i \in D
      PROVE  /\ shown[i].name = items[i].name /\ shown[i].price = items[i].price
             /\ shown[i].category = StoredCategory(now, items[i].category)
             /\ shown[i].issues = (items[i].issues \ STATEFUL_ISSUES)
                   \cup UnknownCategory(shown[i].category)
                   \cup MissingPrice(shown[i].price)
                   \cup DuplicateName(now, NamesOf(shown), i)
             /\ shown[i] = [name |-> shown[i].name, price |-> shown[i].price,
                            category |-> shown[i].category, issues |-> shown[i].issues]
  BY <1>3, <1>4
<1>6. \A i \in D : Settled(now, shown[i].category)
  BY <1>1, <1>5, StoredSettles, ZenonT(60)
<1>7. ASSUME NEW c, NEW p, NEW names, NEW i, NEW rest
      PROVE  ((rest \ STATEFUL_ISSUES) \cup UnknownCategory(c) \cup MissingPrice(p)
                \cup DuplicateName(now, names, i)) \cap STATEFUL_ISSUES =
             UnknownCategory(c) \cup MissingPrice(p) \cup DuplicateName(now, names, i)
  BY DEF STATEFUL_ISSUES, UnknownCategory, MissingPrice, DuplicateName
<1>8. ASSUME NEW i \in D
      PROVE  shown[i].issues \cap STATEFUL_ISSUES =
               UnknownCategory(shown[i].category) \cup MissingPrice(shown[i].price)
                 \cup DuplicateName(now, NamesOf(shown), i)
  <2>1. ((items[i].issues \ STATEFUL_ISSUES) \cup UnknownCategory(shown[i].category)
            \cup MissingPrice(shown[i].price)
            \cup DuplicateName(now, NamesOf(shown), i)) \cap STATEFUL_ISSUES =
          UnknownCategory(shown[i].category) \cup MissingPrice(shown[i].price)
            \cup DuplicateName(now, NamesOf(shown), i)
    BY <1>7
  <2> QED
    BY <1>5, <2>1
<1> QED
  BY <1>1, <1>3, <1>5, <1>6, <1>8

\* What the owner's screen sends back of an item.
LEMMA EchoItems ==
  ASSUME NEW shown
  PROVE  /\ DOMAIN Echo(shown) = DOMAIN shown
         /\ NamesOf(Echo(shown)) = NamesOf(shown)
         /\ \A i \in DOMAIN shown :
              /\ Echo(shown)[i].name = shown[i].name
              /\ Echo(shown)[i].price = shown[i].price
              /\ Echo(shown)[i].categoryId = shown[i].category.id
              /\ Echo(shown)[i].categoryName =
                   IF shown[i].category.kind = "new" THEN shown[i].category.name ELSE Nothing
BY DEF Echo, NamesOf

\* A settled category has an id that is there, or names none.
LEMMA SettledIds ==
  ASSUME NEW store \in Stores, NEW c, Settled(store, c)
  PROVE  /\ c.kind = "existing" => c.id \in Ids /\ c.id # Nothing
         /\ c.kind # "existing" => c.id = Nothing
         /\ c.id # Nothing => ById(store, c.id) # 0
<1>1. CASE c = Unknown
  BY <1>1, Kinds
<1>2. ASSUME NEW n \in Names, c = New(n) PROVE c.id = Nothing /\ c.kind = "new"
  BY <1>2, Kinds
<1>3. ASSUME NEW j \in 1..Len(store.categories), c = Existing(store.categories[j])
      PROVE  c.kind = "existing" /\ c.id \in Ids /\ c.id # Nothing /\ ById(store, c.id) # 0
  <2>1. c.kind = "existing" /\ c.id = store.categories[j].id /\ c.id \in Ids
    BY <1>3, Kinds, StoreFacts
  <2>2. c.id # Nothing
    BY <2>1, NameAssumption
  <2>3. store.categories \in Seq(CategoryRow)
    BY StoreFacts
  <2>4. ById(store, c.id) # 0
    BY <2>1, <2>3, ByIdFinds
  <2> QED
    BY <2>1, <2>2, <2>4
<1> QED
  BY <1>1, <1>2, <1>3 DEF Settled

\* resolveEditedCategory finds a settled category as it is.
LEMMA EditedKeeps ==
  ASSUME NEW store \in Stores, NEW c, Settled(store, c), NEW item,
         item.categoryId = c.id,
         item.categoryName = IF c.kind = "new" THEN c.name ELSE Nothing
  PROVE  EditedCategory(store, item) = c
<1>1. CASE c = Unknown
  BY <1>1, Kinds DEF EditedCategory
<1>2. ASSUME NEW n \in Names, c = New(n), ByName(store, n) = 0
      PROVE  EditedCategory(store, item) = c
  <2>1. item.categoryId = Nothing /\ item.categoryName = n /\ n # Nothing
    BY <1>2, Kinds, NameAssumption
  <2>2. NamedOr(store, n, New(n)) = New(n)
    BY <1>2 DEF NamedOr
  <2> QED
    BY <1>2, <2>1, <2>2 DEF EditedCategory
<1>3. ASSUME NEW j \in 1..Len(store.categories), c = Existing(store.categories[j])
      PROVE  EditedCategory(store, item) = c
  <2>1. c.id = store.categories[j].id /\ c.id # Nothing /\ ById(store, c.id) # 0
    BY <1>3, Kinds, SettledIds
  <2>2. PICK k : k = ById(store, c.id)
    OBVIOUS
  <2>3. store.categories \in Seq(CategoryRow) /\ Len(store.categories) \in Nat
    BY StoreFacts
  <2>4. /\ k \in 0..Len(store.categories)
        /\ k # 0 => store.categories[k].id = c.id
    BY <2>2, <2>3, ByIdFinds
  <2>5. k \in 1..Len(store.categories) /\ store.categories[k].id = store.categories[j].id
    BY <2>1, <2>2, <2>3, <2>4
  <2>6. k = j
    BY <2>5, StoreFacts
  <2> QED
    BY <1>3, <2>1, <2>2, <2>6 DEF EditedCategory
<1> QED
  BY <1>1, <1>2, <1>3 DEF Settled

\* Saving keeps what is shown, in every store.
LEMMA SavingKeeps == SavingKeepsShown
<1> SUFFICES ASSUME NEW raw \in Extractions, NEW then \in Stores, NEW now \in Stores,
                    NEW shown, shown = Shown(raw, then, now)
             PROVE  /\ ~Refused(Echo(shown), now)
                    /\ Revised(Echo(shown), now) =
                         [i \in DOMAIN shown |->
                            [shown[i] EXCEPT !.issues = @ \cap STATEFUL_ISSUES]]
  BY DEF SavingKeepsShown
<1> DEFINE D == DOMAIN shown
           payload == Echo(shown)
<1>1. \A i \in D :
        /\ shown[i] = [name |-> shown[i].name, price |-> shown[i].price,
                       category |-> shown[i].category, issues |-> shown[i].issues]
        /\ Settled(now, shown[i].category)
        /\ shown[i].issues \cap STATEFUL_ISSUES =
             UnknownCategory(shown[i].category) \cup MissingPrice(shown[i].price)
               \cup DuplicateName(now, NamesOf(shown), i)
  <2>1. PICK E : E = Kept(raw)
    OBVIOUS
  <2>2. /\ DOMAIN shown = E
        /\ \A i \in E :
             /\ shown[i] = [name |-> shown[i].name, price |-> shown[i].price,
                            category |-> shown[i].category, issues |-> shown[i].issues]
             /\ Settled(now, shown[i].category)
             /\ shown[i].issues \cap STATEFUL_ISSUES =
                  UnknownCategory(shown[i].category) \cup MissingPrice(shown[i].price)
                    \cup DuplicateName(now, NamesOf(shown), i)
    <3> HIDE DEF payload
    <3> QED
      BY <2>1, ShownItems
  <2> QED
    BY <2>2
<1>2. /\ DOMAIN payload = D /\ NamesOf(payload) = NamesOf(shown)
      /\ \A i \in D : /\ payload[i].name = shown[i].name
                      /\ payload[i].price = shown[i].price
                      /\ payload[i].categoryId = shown[i].category.id
                      /\ payload[i].categoryName =
                           IF shown[i].category.kind = "new" THEN shown[i].category.name
                           ELSE Nothing
  BY EchoItems
<1> HIDE DEF payload
<1>3. \A i \in D : EditedCategory(now, payload[i]) = shown[i].category
  BY <1>1, <1>2, EditedKeeps
<1>4. ~Refused(payload, now)
  BY <1>1, <1>2, SettledIds DEF Refused
<1>5. ASSUME NEW i \in D
      PROVE  Revised(payload, now)[i] =
               [shown[i] EXCEPT !.issues = @ \cap STATEFUL_ISSUES]
  <2>1. Revised(payload, now)[i] =
          [name |-> shown[i].name, price |-> shown[i].price,
           category |-> shown[i].category,
           issues |-> UnknownCategory(shown[i].category) \cup MissingPrice(shown[i].price)
                        \cup DuplicateName(now, NamesOf(shown), i)]
    BY <1>2, <1>3 DEF Revised
  <2>2. [shown[i] EXCEPT !.issues = @ \cap STATEFUL_ISSUES] =
          [name |-> shown[i].name, price |-> shown[i].price,
           category |-> shown[i].category, issues |-> shown[i].issues \cap STATEFUL_ISSUES]
    <3>1. ASSUME NEW a, NEW b, NEW c, NEW d, NEW q,
                 q = [name |-> a, price |-> b, category |-> c, issues |-> d]
          PROVE  [q EXCEPT !.issues = @ \cap STATEFUL_ISSUES] =
                   [name |-> a, price |-> b, category |-> c, issues |-> d \cap STATEFUL_ISSUES]
      BY <3>1
    <3> QED
      BY <1>1, <3>1
  <2> QED
    BY <1>1, <2>1, <2>2
<1>6. Revised(payload, now) =
        [i \in D |-> [shown[i] EXCEPT !.issues = @ \cap STATEFUL_ISSUES]]
  <2>1. Revised(payload, now) = [i \in D |-> Revised(payload, now)[i]]
    BY <1>2 DEF Revised
  <2> QED
    BY <1>5, <2>1
<1> QED
  BY <1>4, <1>6 DEF payload

-----------------------------------------------------------------------------
\* f lists the members of S, each of them once.
ListedBy(f, m, S) ==
  /\ m \in Nat /\ f \in [1..m -> S]
  /\ \A j, k \in 1..m : f[j] = f[k] => j = k
  /\ \A i \in S : \E k \in 1..m : f[k] = i

\* SetToSeq lists the members of a finite set.
LEMMA ListsAll ==
  ASSUME NEW S, IsFiniteSet(S)
  PROVE  ListedBy(SetToSeq(S), Cardinality(S), S)
<1> SUFFICES ASSUME NEW f, f = SetToSeq(S), NEW m, m = Cardinality(S)
             PROVE  ListedBy(f, m, S)
  OBVIOUS
<1>1. m \in Nat /\ ExistsBijection(1..m, S)
  BY FS_CardinalityType
<1>2. \E g \in [1..m -> S] : IsInjective(g)
  BY <1>1 DEF ExistsBijection, Bijection, Injection
<1>3. f \in [1..m -> S] /\ IsInjective(f)
  BY <1>2 DEF SetToSeq
<1>4. f \in Injection(1..m, S)
  BY <1>3 DEF Injection
<1>5. Cardinality(1..m) = m
  BY <1>1, FS_Interval
<1>6. f \in Surjection(1..m, S)
  BY <1>4, <1>5, FS_Injection
<1> QED
  BY <1>1, <1>3, <1>6 DEF IsInjective, Surjection, ListedBy

\* The store has one category more for each item of F, in the order of f.
Grown(after, now, payload, F, m, f) ==
  LET n == Len(now.categories) IN
  /\ Len(after.categories) = n + m
  /\ \A j \in 1..n : after.categories[j] = now.categories[j]
  /\ \A k \in 1..m : /\ after.categories[n + k].id = payload[f[k]].categoryName
                     /\ after.categories[n + k].name = payload[f[k]].categoryName
  /\ \A j, k \in 1..m : f[j] = f[k] => j = k
  /\ \A i \in F : \E k \in 1..m : f[k] = i

Grew(after, now, payload, F) ==
  \E m \in Nat : \E f \in [1..m -> F] : Grown(after, now, payload, F, m, f)

\* What resolveBulkCategories leaves: the categories there were, and one for
\* every item whose name is the first of its kind.
LEMMA AfterCommit ==
  ASSUME NEW now \in Stores, NEW payload, IsFiniteSet(DOMAIN payload),
         \A i \in DOMAIN payload : payload[i].categoryName \in Names \cup {Nothing},
         NEW after, after = StoreAfter(payload, now),
         NEW F, F = {i \in DOMAIN payload : FirstOfItsName(payload, now, i)},
         NEW n, n = Len(now.categories)
  PROVE  /\ n \in Nat
         /\ after.categories \in Seq(CategoryRow)
         /\ Grew(after, now, payload, F)
<1>1. IsFiniteSet(F)
  BY FS_Subset
<1>2. PICK m, f : m = Cardinality(F) /\ f = SetToSeq(F)
  OBVIOUS
<1>3. /\ m \in Nat /\ f \in [1..m -> F]
      /\ \A j, k \in 1..m : f[j] = f[k] => j = k
      /\ \A i \in F : \E k \in 1..m : f[k] = i
  <2>1. ListedBy(f, m, F)
    BY <1>1, <1>2, ListsAll
  <2> QED
    BY <2>1 DEF ListedBy
<1> DEFINE new == [k \in 1..m |-> [id |-> payload[f[k]].categoryName,
                                   name |-> payload[f[k]].categoryName]]
<1>4. after.categories = now.categories \o new
  <2>1. CategoriesAfter(payload, now) =
          now.categories \o [k \in DOMAIN f |-> [id |-> payload[f[k]].categoryName,
                                                 name |-> payload[f[k]].categoryName]]
    BY <1>2 DEF CategoriesAfter
  <2>2. DOMAIN f = 1..m
    BY <1>3
  <2> QED
    BY <2>1, <2>2 DEF StoreAfter
<1>5. \A k \in 1..m : payload[f[k]].categoryName \in Names
  BY <1>3 DEF FirstOfItsName
<1>6. new \in Seq(CategoryRow) /\ Len(new) = m
  <2>1. \A k \in 1..m : new[k] \in CategoryRow
    BY <1>5 DEF CategoryRow
  <2>2. new \in [1..m -> CategoryRow]
    BY <2>1
  <2> QED
    BY <1>3, <2>2
<1>7. now.categories \in Seq(CategoryRow) /\ n \in Nat
  BY StoreFacts
<1>8. /\ \A k \in 1..m : /\ new[k].id = payload[f[k]].categoryName
                         /\ new[k].name = payload[f[k]].categoryName
  OBVIOUS
<1> HIDE DEF new
<1>9. /\ after.categories \in Seq(CategoryRow)
      /\ Len(after.categories) = n + m
      /\ \A j \in 1..n : after.categories[j] = now.categories[j]
      /\ \A k \in 1..m : after.categories[n + k] = new[k]
  <2>1. PICK R, s, t : R = CategoryRow /\ s = now.categories /\ t = new
    OBVIOUS
  <2>2. s \in Seq(R) /\ t \in Seq(R) /\ Len(s) = n /\ Len(t) = m
    BY <1>6, <1>7, <2>1
  <2>3. /\ s \o t \in Seq(R) /\ Len(s \o t) = n + m
        /\ \A j \in 1..n : (s \o t)[j] = s[j]
        /\ \A k \in 1..m : (s \o t)[n + k] = t[k]
    BY <2>2, SMTT(60)
  <2> QED
    BY <1>4, <2>1, <2>3
<1>10. Grown(after, now, payload, F, m, f)
  BY <1>3, <1>8, <1>9 DEF Grown
<1> QED
  BY <1>3, <1>7, <1>9, <1>10 DEF Grew

\* An item whose category is new has a first one of its name before it.
LEMMA FirstIsThere ==
  ASSUME NEW payload, NEW l \in Nat, DOMAIN payload \subseteq 1..l, NEW now,
         \A i \in DOMAIN payload : payload[i].categoryName \in Names \cup {Nothing},
         \A i \in DOMAIN payload :
            payload[i].categoryName # Nothing => ByName(now, payload[i].categoryName) = 0,
         NEW i \in DOMAIN payload, payload[i].categoryName # Nothing
  PROVE  \E h \in DOMAIN payload :
           /\ FirstOfItsName(payload, now, h)
           /\ SameName(payload[h].categoryName, payload[i].categoryName)
<1> DEFINE I == {h \in DOMAIN payload :
                   /\ payload[h].categoryName # Nothing
                   /\ SameName(payload[h].categoryName, payload[i].categoryName)}
           f == [h \in I |-> l - h]
<1>1. I \subseteq 1..l /\ i \in I
  BY DEF SameName
<1>2. IsFiniteSet(I)
  <2>1. IsFiniteSet(1..l)
    BY FS_Interval
  <2> QED
    BY <1>1, <2>1, FS_Subset
<1>3. f \in [I -> Nat]
  BY <1>1
<1>4. PICK h \in I : \A g \in I : f[g] <= f[h]
  <2> HIDE DEF I, f
  <2> QED
    BY <1>1, <1>2, <1>3, LastExists
<1>5. ASSUME NEW g \in I PROVE ~(g < h)
  <2>1. f[g] = l - g /\ f[h] = l - h
    OBVIOUS
  <2>2. g \in Int /\ h \in Int
    BY <1>1
  <2>3. l - g <= l - h
    BY <1>4, <2>1
  <2> QED
    BY <2>2, <2>3
<1>6. FirstOfItsName(payload, now, h)
  BY <1>5 DEF FirstOfItsName, SameName
<1> QED
  BY <1>6

\* What is recomputed of an item.
LEMMA AgainItems ==
  ASSUME NEW shown, NEW store, NEW again, again = Recomputed(shown, store),
         NEW i \in DOMAIN shown,
         shown[i] = [name |-> shown[i].name, price |-> shown[i].price,
                     category |-> shown[i].category, issues |-> shown[i].issues]
  PROVE  /\ again[i].category = StoredCategory(store, shown[i].category)
         /\ DuplicateName(store, NamesOf(shown), i) \subseteq again[i].issues
<1>1. PICK a, p, c, s : /\ a = shown[i].name /\ p = shown[i].price
                        /\ c = shown[i].category /\ s = shown[i].issues
  OBVIOUS
<1>2. shown[i] = [name |-> a, price |-> p, category |-> c, issues |-> s]
  BY <1>1
<1>3. again[i] = [name |-> a, price |-> p, category |-> StoredCategory(store, c),
                  issues |-> (s \ STATEFUL_ISSUES)
                    \cup UnknownCategory(StoredCategory(store, c)) \cup MissingPrice(p)
                    \cup DuplicateName(store, NamesOf(shown), i)]
  <2>1. again[i] =
          [shown[i] EXCEPT
             !.category = StoredCategory(store, shown[i].category),
             !.issues = (shown[i].issues \ STATEFUL_ISSUES)
                \cup UnknownCategory(StoredCategory(store, shown[i].category))
                \cup MissingPrice(shown[i].price)
                \cup DuplicateName(store, NamesOf(shown), i)]
    BY DEF Recomputed
  <2> QED
    BY <1>1, <1>2, <2>1
<1> QED
  BY <1>1, <1>3

\* Committing keeps what is shown, in every store.
LEMMA CommitKeeps == CommitKeepsShown
<1> SUFFICES ASSUME NEW raw \in Extractions, NEW then \in Stores, NEW now \in Stores,
                    NEW shown, shown = Shown(raw, then, now),
                    NEW payload, payload = Echo(shown),
                    NEW after, after = StoreAfter(payload, now),
                    NEW again, again = Recomputed(shown, after),
                    \A i \in DOMAIN shown :
                      shown[i].issues \cap {"PRICE_MISSING", "CATEGORY_UNKNOWN"} = {}
             PROVE  /\ ~Refused(payload, now)
                    /\ \A i \in DOMAIN shown :
                         /\ shown[i].price # Nothing
                         /\ shown[i].category.kind = "existing" =>
                              Assigned(payload, now, i) = shown[i].category.id
                         /\ again[i].category.kind = "existing"
                         /\ again[i].category.id = Assigned(payload, now, i)
                         /\ "DUPLICATE_NAME" \in again[i].issues
                    /\ \A j \in DOMAIN after.categories :
                         j > Len(now.categories) =>
                           ByName(after, after.categories[j].name) = j
  BY DEF CommitKeepsShown
<1>1. PICK D : D = Kept(raw)
  OBVIOUS
<1>2. PICK l : l = Len(raw)
  OBVIOUS
<1>3. /\ DOMAIN shown = D /\ D \subseteq 1..l /\ l \in Nat
      /\ \A i \in D :
           /\ shown[i] = [name |-> shown[i].name, price |-> shown[i].price,
                          category |-> shown[i].category, issues |-> shown[i].issues]
           /\ shown[i].name \in Names
           /\ Settled(now, shown[i].category)
           /\ shown[i].issues \cap STATEFUL_ISSUES =
                UnknownCategory(shown[i].category) \cup MissingPrice(shown[i].price)
                  \cup DuplicateName(now, NamesOf(shown), i)
  BY <1>1, <1>2, ShownItems
<1>4. /\ DOMAIN payload = D /\ NamesOf(payload) = NamesOf(shown)
      /\ \A i \in D : /\ payload[i].categoryId = shown[i].category.id
                      /\ payload[i].categoryName =
                           IF shown[i].category.kind = "new" THEN shown[i].category.name
                           ELSE Nothing
  BY <1>3, EchoItems
<1>5. ~Refused(payload, now)
  <2>1. \A i \in D : shown[i].category.id # Nothing => ById(now, shown[i].category.id) # 0
    <3> TAKE i \in D
    <3>1. Settled(now, shown[i].category)
      BY <1>3
    <3> QED
      BY <3>1, SettledIds
  <2> QED
    BY <1>4, <2>1 DEF Refused
<1>6. ASSUME NEW i \in D
      PROVE  shown[i].price # Nothing /\ shown[i].category # Unknown
  <2>1. "PRICE_MISSING" \notin shown[i].issues /\ "CATEGORY_UNKNOWN" \notin shown[i].issues
    BY <1>3
  <2>2. /\ "PRICE_MISSING" \notin MissingPrice(shown[i].price)
        /\ "CATEGORY_UNKNOWN" \notin UnknownCategory(shown[i].category)
    BY <1>3, <2>1
  <2> QED
    BY <2>2 DEF MissingPrice, UnknownCategory
\* What the items name.
<1>7. \A i \in D :
        \/ /\ shown[i].category.kind = "existing" /\ payload[i].categoryName = Nothing
           /\ payload[i].categoryId = shown[i].category.id
           /\ payload[i].categoryId \in Ids /\ payload[i].categoryId # Nothing
           /\ \E j \in 1..Len(now.categories) :
                /\ shown[i].category = Existing(now.categories[j])
                /\ payload[i].categoryId = now.categories[j].id
        \/ \E name \in Names :
           /\ shown[i].category = New(name) /\ ByName(now, name) = 0
           /\ shown[i].category.kind = "new"
           /\ payload[i].categoryName = name /\ payload[i].categoryId = Nothing
  <2> SUFFICES ASSUME NEW i \in D
               PROVE  \/ /\ shown[i].category.kind = "existing"
                         /\ payload[i].categoryName = Nothing
                         /\ payload[i].categoryId = shown[i].category.id
                         /\ payload[i].categoryId \in Ids /\ payload[i].categoryId # Nothing
                         /\ \E j \in 1..Len(now.categories) :
                              /\ shown[i].category = Existing(now.categories[j])
                              /\ payload[i].categoryId = now.categories[j].id
                      \/ \E name \in Names :
                         /\ shown[i].category = New(name) /\ ByName(now, name) = 0
                         /\ shown[i].category.kind = "new"
                         /\ payload[i].categoryName = name /\ payload[i].categoryId = Nothing
    OBVIOUS
  <2>1. Settled(now, shown[i].category) /\ shown[i].category # Unknown
    BY <1>3, <1>6
  <2>2. ASSUME NEW j \in 1..Len(now.categories),
               shown[i].category = Existing(now.categories[j])
        PROVE  /\ shown[i].category.kind = "existing" /\ payload[i].categoryName = Nothing
               /\ payload[i].categoryId = shown[i].category.id
               /\ payload[i].categoryId \in Ids /\ payload[i].categoryId # Nothing
               /\ payload[i].categoryId = now.categories[j].id
    BY <1>4, <2>1, <2>2, Kinds, SettledIds
  <2>3. ASSUME NEW name \in Names, shown[i].category = New(name)
        PROVE  /\ shown[i].category.kind = "new"
               /\ payload[i].categoryName = name /\ payload[i].categoryId = Nothing
    BY <1>4, <2>3, Kinds
  <2> QED
    BY <2>1, <2>2, <2>3 DEF Settled
<1>8. \A i \in D :
        /\ payload[i].categoryName \in Names \cup {Nothing}
        /\ payload[i].categoryName # Nothing => ByName(now, payload[i].categoryName) = 0
  BY <1>7, NameAssumption
\* The categories afterwards.
<1>9. PICK F : F = {i \in DOMAIN payload : FirstOfItsName(payload, now, i)}
  OBVIOUS
<1>10. PICK n : n = Len(now.categories)
  OBVIOUS
<1>11. IsFiniteSet(DOMAIN payload)
  <2>1. IsFiniteSet(1..l)
    BY <1>3, FS_Interval
  <2> QED
    BY <1>3, <1>4, <2>1, FS_Subset
<1>12. n \in Nat /\ after.categories \in Seq(CategoryRow)
  BY <1>4, <1>8, <1>9, <1>10, <1>11, AfterCommit
<1>13a. PICK m \in Nat : \E f \in [1..m -> F] : Grown(after, now, payload, F, m, f)
  <2>1. Grew(after, now, payload, F)
    BY <1>4, <1>8, <1>9, <1>10, <1>11, AfterCommit
  <2> QED
    BY <2>1 DEF Grew
<1>13b. PICK f \in [1..m -> F] : Grown(after, now, payload, F, m, f)
  BY <1>13a
<1>13. /\ Len(after.categories) = n + m
       /\ \A j \in 1..n : after.categories[j] = now.categories[j]
       /\ \A k \in 1..m : /\ after.categories[n + k].id = payload[f[k]].categoryName
                          /\ after.categories[n + k].name = payload[f[k]].categoryName
       /\ \A j, k \in 1..m : f[j] = f[k] => j = k
       /\ \A i \in F : \E k \in 1..m : f[k] = i
  BY <1>10, <1>13b DEF Grown

<1>14. ASSUME NEW i \in D
       PROVE  /\ shown[i].category.kind = "existing" =>
                   Assigned(payload, now, i) = shown[i].category.id
              /\ again[i].category.kind = "existing"
              /\ again[i].category.id = Assigned(payload, now, i)
  <2>0. again[i].category = StoredCategory(after, shown[i].category)
    BY <1>3, AgainItems
  <2>1. CASE shown[i].category.kind = "existing"
    <3>1. PICK j \in 1..n : /\ shown[i].category = Existing(now.categories[j])
                            /\ payload[i].categoryId = now.categories[j].id
      BY <1>7, <1>10, <2>1, Kinds
    <3>2. payload[i].categoryId # Nothing /\ payload[i].categoryId = shown[i].category.id
      BY <1>7, <2>1, Kinds
    <3>3. Assigned(payload, now, i) = shown[i].category.id
      BY <3>2 DEF Assigned
    <3>4. PICK k : k = ById(after, shown[i].category.id)
      OBVIOUS
    <3>5. j \in 1..Len(after.categories) /\ after.categories[j].id = shown[i].category.id
      <4>1. after.categories[j] = now.categories[j]
        BY <1>13
      <4>2. j \in 1..(n + m)
        BY <1>12
      <4>3. payload[i].categoryId = now.categories[j].id
        BY <3>1
      <4> QED
        BY <1>13, <3>2, <4>1, <4>2, <4>3
    <3>6. k # 0 /\ after.categories[k].id = shown[i].category.id
      BY <1>12, <3>4, <3>5, ByIdFinds
    <3>7. again[i].category = Existing(after.categories[k])
      BY <2>0, <2>1, <3>4, <3>6 DEF StoredCategory
    <3> QED
      BY <3>3, <3>6, <3>7, Kinds
  <2>2. CASE shown[i].category.kind # "existing"
    <3>1. PICK name \in Names :
            /\ shown[i].category = New(name) /\ ByName(now, name) = 0
            /\ shown[i].category.kind = "new"
            /\ payload[i].categoryName = name /\ payload[i].categoryId = Nothing
      BY <1>7, <2>2
    <3>2. name # Nothing
      BY NameAssumption
    <3>3. PICK h \in DOMAIN payload :
            /\ FirstOfItsName(payload, now, h)
            /\ SameName(payload[h].categoryName, payload[i].categoryName)
      BY <1>3, <1>4, <1>8, <3>1, <3>2, FirstIsThere, ZenonT(60)
    <3>4. PICK p \in 1..m : f[p] = h
      BY <1>9, <1>13, <3>3
    <3>5. PICK k : k = ByName(after, name)
      OBVIOUS
    <3>6. n + p \in 1..Len(after.categories) /\ SameName(after.categories[n + p].name, name)
      BY <1>12, <1>13, <3>1, <3>3, <3>4
    <3>7. k # 0
      BY <1>12, <3>5, <3>6, ByNameFinds
    <3>8. StoredCategory(after, shown[i].category) = Existing(after.categories[k])
      BY <3>1, <3>5, <3>7, Kinds DEF StoredCategory, NamedOr
    <3>9. Assigned(payload, now, i) = after.categories[k].id
      BY <3>1, <3>5 DEF Assigned
    <3> QED
      BY <2>0, <2>2, <3>8, <3>9, Kinds
  <2> QED
    BY <2>1, <2>2
<1>15. ASSUME NEW i \in D PROVE "DUPLICATE_NAME" \in again[i].issues
  <2>1. NamesOf(shown)[i] \in after.menus
    <3>1. ToSet(NamesOf(payload)) \subseteq after.menus
      BY DEF StoreAfter
    <3>2. NamesOf(shown)[i] \in ToSet(NamesOf(shown))
      BY <1>3 DEF NamesOf, ToSet
    <3> QED
      BY <1>4, <3>1, <3>2
  <2>2. Duplicate(after, NamesOf(shown), i)
    BY <2>1 DEF Duplicate, SameName
  <2>3. "DUPLICATE_NAME" \in DuplicateName(after, NamesOf(shown), i)
    BY <2>2 DEF DuplicateName
  <2>4. DuplicateName(after, NamesOf(shown), i) \subseteq again[i].issues
    BY <1>3, AgainItems
  <2> QED
    BY <2>3, <2>4
<1>16. ASSUME NEW j \in DOMAIN after.categories, j > n
       PROVE  ByName(after, after.categories[j].name) = j
  <2>0. j \in 1..(n + m)
    BY <1>12, <1>13
  <2>1. PICK p \in 1..m : j = n + p
    <3>1. j - n \in 1..m /\ j = n + (j - n)
      BY <1>12, <1>16, <2>0
    <3> QED
      BY <3>1
  <2>2. PICK name : name = payload[f[p]].categoryName
    OBVIOUS
  <2>3. /\ f[p] \in D /\ FirstOfItsName(payload, now, f[p])
        /\ after.categories[j].name = name /\ name # Nothing /\ ByName(now, name) = 0
    BY <1>4, <1>9, <1>13, <2>1, <2>2 DEF FirstOfItsName
  <2>4. PICK k : k = ByName(after, name)
    OBVIOUS
  <2>5. /\ k \in 0..(n + m)
        /\ k # 0 => SameName(after.categories[k].name, name)
        /\ k = 0 => ~SameName(after.categories[j].name, name)
    BY <1>12, <1>13, <2>0, <2>4, ByNameFinds
  <2>6. k # 0
    BY <2>3, <2>5 DEF SameName
  <2>7. ~(k \in 1..n)
    <3> SUFFICES ASSUME k \in 1..n PROVE FALSE
      OBVIOUS
    <3>1. SameName(now.categories[k].name, name)
      BY <1>13, <2>5, <2>6
    <3>2. now.categories \in Seq(CategoryRow)
      BY StoreFacts
    <3> QED
      BY <1>10, <2>3, <3>1, <3>2, ByNameFinds
  <2>8. PICK q \in 1..m : k = n + q
    <3>1. n \in Nat /\ m \in Nat /\ k \in 0..(n + m)
      BY <1>12, <2>5
    <3>2. k - n \in 1..m /\ k = n + (k - n)
      BY <2>6, <2>7, <3>1
    <3> QED
      BY <3>2
  <2>9. /\ f[q] \in D /\ FirstOfItsName(payload, now, f[q])
        /\ SameName(payload[f[q]].categoryName, payload[f[p]].categoryName)
    BY <1>4, <1>9, <1>13, <2>2, <2>5, <2>6, <2>8
  <2>10. f[q] = f[p]
    <3>1. ~(f[q] < f[p])
      BY <1>4, <2>3, <2>9 DEF FirstOfItsName
    <3>2. ~(f[p] < f[q])
      BY <1>4, <2>3, <2>9 DEF FirstOfItsName, SameName
    <3>3. f[p] \in Int /\ f[q] \in Int
      <4>1. D \subseteq Int
        <5>1. D \subseteq 1..l /\ l \in Nat
          BY <1>3
        <5> QED
          BY <5>1
      <4> QED
        BY <2>3, <2>9, <4>1
    <3> QED
      BY <3>1, <3>2, <3>3
  <2> QED
    BY <1>13, <2>1, <2>3, <2>4, <2>8, <2>10
<1> QED
  BY <1>3, <1>5, <1>6, <1>10, <1>14, <1>15, <1>16

\* Saving what is shown keeps it, whatever was read and whatever has become of
\* the store since (recomputeMenuDraftIssues, reviseMenuDraftItems).
THEOREM DraftsAreSavedAsShown == DraftSpec => []SavedAsShown
<1>1. SavedAsShown
  BY SavingKeeps DEF SavedAsShown
<1> QED
  BY <1>1, PTL

\* Committing what is shown puts every item where it was shown, and creates
\* each category once (recomputeMenuDraftIssues, resolveBulkCategories).
THEOREM DraftsAreCommittedAsShown == DraftSpec => []CommittedAsShown
<1>1. CommittedAsShown
  BY CommitKeeps DEF CommittedAsShown
<1> QED
  BY <1>1, PTL
=============================================================================

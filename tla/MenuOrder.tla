------------------------------ MODULE MenuOrder ------------------------------
(***************************************************************************)
(* The display order of one store's catalogue: categories in the store,    *)
(* menus in a category, options in a menu, choices in an option.  Each of  *)
(* these lists is ordered by sortOrder and then by id.                     *)
(*                                                                         *)
(* A reorder replaces the order of a whole list in one transaction, under  *)
(* a named lock of the store (GET_LOCK).  The lock belongs to the database *)
(* connection: it is re-entrant, neither a rollback nor the return of the  *)
(* connection to the pool releases it, and it is released before the       *)
(* transaction commits.  Rows are written by their public ids, wherever    *)
(* they are by then.  Creations, moves and deletions do not take the lock. *)
(*                                                                         *)
(* Time passes in ticks, which only the transactions of reorders count.    *)
(* A request is sent once; there is any number of them.                    *)
(***************************************************************************)
EXTENDS Integers, FiniteSets

CONSTANTS
    Categories, Menus, Options, ChoiceRows,   \* rows, by their ids
    Catalogues,   \* the catalogues to begin with
    Requests,
    Conns,        \* connections of the pool
    LockTimeout,  \* LOCK_TIMEOUT_SECONDS
    WorkBudget    \* WORK_BUDGET_MS

Store == 0
STEP == 10   \* SORT_ORDER_STEP

Rows == Categories \cup Menus \cup Options \cup ChoiceRows

Lists == {Store} \cup Categories \cup Menus \cup Options

\* The rows that a list is made of.
Members(l) ==
    CASE l = Store -> Categories
      [] l \in Categories -> Menus
      [] l \in Menus -> Options
      [] l \in Options -> ChoiceRows

Row == [list : Lists, sortOrder : Nat,
        state : {"absent", "live", "deleted", "gone"}]

ASSUME CatalogueAssumption ==
    /\ Rows \subseteq Nat \ {Store}
    /\ IsFiniteSet(Rows)
    /\ Categories \cap (Menus \cup Options \cup ChoiceRows) = {}
    /\ Menus \cap (Options \cup ChoiceRows) = {}
    /\ Options \cap ChoiceRows = {}
    /\ \A cat \in Catalogues :
          /\ cat \in [Rows -> Row]
          /\ \A x \in Rows : cat[x].state = "live" =>
                /\ x \in Members(cat[x].list)
                /\ cat[x].list # Store => cat[cat[x].list].state = "live"
          /\ \A x \in Rows : cat[x].state # "deleted"
    /\ LockTimeout \in Nat
    /\ WorkBudget \in Nat

VARIABLES
    rows,      \* the committed rows
    held,      \* how often each connection has got the lock
    reqs,
    kept,      \* history: <<l, x, y>>, x was last put before y in list l
    overtaken  \* history: creations and moves whose list has been written since
               \* they read its last sortOrder

vars == <<rows, held, reqs, kept, overtaken>>

-----------------------------------------------------------------------------
\* Mutated forms of definitions below.
AnyTime(c) == TRUE
SameAsLast(l) ==
    CHOOSE n \in {0} \cup {rows[x].sortOrder : x \in Rows} :
        \A x \in Rows : rows[x].list = l /\ rows[x].state = "live"
                            => rows[x].sortOrder <= n
WorkOnly == WorkBudget
NoneLive(c) == \A x \in Rows : rows[x].list = c => rows[x].state # "live"

-----------------------------------------------------------------------------
Exists(x) == rows[x].state \in {"live", "deleted"}

IsThere(l) == l # Store => Exists(l)

\* The options and choices of a soft-deleted menu are out of reach.
Reachable(l) ==
    /\ l \in Menus => rows[l].state = "live"
    /\ l \in Options => rows[rows[l].list].state = "live"

\* A soft-deleted menu has no place in the order.
Live(l) == {x \in Members(l) : rows[x].list = l /\ rows[x].state = "live"}

NextSortOrder(l) ==
    STEP + CHOOSE n \in {0} \cup {rows[x].sortOrder : x \in Live(l)} :
               \A x \in Live(l) : rows[x].sortOrder <= n

\* The orders of a set: sequences of its elements, each once.
Orders(S) ==
    {o \in [1 .. Cardinality(S) -> S] :
        \A i, j \in DOMAIN o : o[i] = o[j] => i = j}

Named(q) == {q.order[i] : i \in DOMAIN q.order}

PositionOf(q, x) == CHOOSE i \in DOMAIN q.order : q.order[i] = x

Reordering(q) == q.pc \in {"waiting", "locked", "checked", "renumbered", "released"}

\* It has got the lock and has not given it back.
Holding(q) == q.pc \in {"locked", "checked", "renumbered"}

\* It has written its rows and has not committed.
Pending(q) == q.pc \in {"renumbered", "released"}

RowFree(x) == \A q \in Requests : Pending(reqs[q]) => x \notin Named(reqs[q])

LockFree(c) == \A d \in Conns \ {c} : held[d] = 0

TxTimeout == LockTimeout + WorkBudget   \* REORDER_TX_TIMEOUT_MS

Age(q) == q.waited + q.worked

-----------------------------------------------------------------------------
Ready == [pc |-> "ready"]
Done == [pc |-> "done"]

Init ==
    /\ rows \in Catalogues
    /\ held = [c \in Conns |-> 0]
    /\ reqs = [r \in Requests |-> Ready]
    /\ kept = {}
    /\ overtaken = {}

Becomes(r, q) == reqs' = [reqs EXCEPT ![r] = q]

\* The reorder q at another point, after so much waiting and working.
At(q, pc, waited, worked) ==
    [pc |-> pc, list |-> q.list, order |-> q.order, conn |-> q.conn,
     waited |-> waited, worked |-> worked]

Moves(r, pc) == Becomes(r, At(reqs[r], pc, reqs[r].waited, reqs[r].worked))

\* A client sends an order of the list that it has been shown; the transaction
\* takes a connection.  Whatever else it sends fails the same check.
SendsOrder(r, l) ==
    /\ reqs[r].pc = "ready"
    /\ \E c \in Conns, o \in Orders(Live(l)) :
        /\ Live(l) # {} /\ Reachable(l)
        /\ \A q \in Requests : Reordering(reqs[q]) => reqs[q].conn # c
        /\ Becomes(r, [pc |-> "waiting", list |-> l, order |-> o, conn |-> c,
                       waited |-> 0, worked |-> 0])
    /\ UNCHANGED <<rows, held, kept, overtaken>>

ReorderCategories(r) == SendsOrder(r, Store)
ReorderMenus(r) == \E c \in Categories : SendsOrder(r, c)
ReorderOptions(r) == \E m \in Menus : SendsOrder(r, m)
ReorderChoices(r) == \E o \in Options : SendsOrder(r, o)

\* GET_LOCK, at once for the connection that has the lock already.
AcquireLock(r) ==
    LET c == reqs[r].conn
    IN  /\ reqs[r].pc = "waiting"
        /\ LockFree(c)
        /\ held' = [held EXCEPT ![c] = held[c] + 1]
        /\ Moves(r, "locked")
        /\ UNCHANGED <<rows, kept, overtaken>>

\* REORDER_IN_PROGRESS
LockTimesOut(r) ==
    /\ reqs[r].pc = "waiting"
    /\ ~LockFree(reqs[r].conn)
    /\ reqs[r].waited >= LockTimeout
    /\ Becomes(r, Done)
    /\ UNCHANGED <<rows, held, kept, overtaken>>

Release(r) == held' = [held EXCEPT ![reqs[r].conn] = held[reqs[r].conn] - 1]

\* The first read of the transaction: the rows that the list has now must be
\* those named, else the lock is released and the transaction rolled back.
CheckSet(r) ==
    LET q == reqs[r]
    IN  /\ q.pc = "locked"
        /\ \/ /\ IsThere(q.list) /\ Reachable(q.list)
              /\ Named(q) = Live(q.list)
              /\ Moves(r, "checked")
              /\ UNCHANGED held
           \/ /\ ~(IsThere(q.list) /\ Reachable(q.list) /\ Named(q) = Live(q.list))
              /\ Becomes(r, Done)
              /\ Release(r)
        /\ UNCHANGED <<rows, kept, overtaken>>

\* The update waits for rows that another reorder has written.
Renumber(r) ==
    /\ reqs[r].pc = "checked"
    /\ \A x \in Named(reqs[r]) : RowFree(x)
    /\ Moves(r, "renumbered")
    /\ UNCHANGED <<rows, held, kept, overtaken>>

ReleaseLock(r) ==
    /\ reqs[r].pc = "renumbered"
    /\ Release(r)
    /\ Moves(r, "released")
    /\ UNCHANGED <<rows, kept, overtaken>>

\* Of the placements that are still under way, those that have read the last
\* sortOrder of these lists.
Overtakes(ended, lists) ==
    overtaken' = (overtaken \ ended)
        \cup {q \in Requests \ ended :
                 reqs[q].pc = "placing" /\ reqs[q].list \in lists}

\* What was asked for last: this order of the rows still in the list.
Commit(r) ==
    LET q == reqs[r]
        hit == {x \in Named(q) : Exists(x)}
        here == {x \in hit : rows[x].list = q.list}
    IN  /\ q.pc = "released"
        /\ rows' = [x \in Rows |->
               IF x \in hit
               THEN [rows[x] EXCEPT !.sortOrder = STEP * PositionOf(q, x)]
               ELSE rows[x]]
        /\ kept' = {k \in kept : k[1] # q.list}
               \cup {k \in {q.list} \X here \X here :
                        PositionOf(q, k[2]) < PositionOf(q, k[3])}
        /\ Overtakes({}, {q.list} \cup {rows[x].list : x \in hit})
        /\ Becomes(r, Done)
        /\ UNCHANGED held

\* The budget of the transaction runs out: it is rolled back, the release fails
\* on the closed transaction, and the connection goes back to the pool.
Overrun(r) ==
    /\ Reordering(reqs[r])
    /\ Age(reqs[r]) >= TxTimeout
    /\ Becomes(r, Done)
    /\ UNCHANGED <<rows, held, kept, overtaken>>

\* A connection ends, in use or idle; only then MySQL cleans up its lock.
ConnectionEnds(c) ==
    /\ held[c] > 0
    /\ held' = [held EXCEPT ![c] = 0]
    /\ reqs' = [q \in Requests |->
                   IF Reordering(reqs[q]) /\ reqs[q].conn = c THEN Done ELSE reqs[q]]
    /\ UNCHANGED <<rows, kept, overtaken>>

Tick ==
    /\ \E r \in Requests : Reordering(reqs[r])
    /\ \A r \in Requests : Reordering(reqs[r]) =>
          /\ Age(reqs[r]) < TxTimeout
          /\ reqs[r].pc = "waiting" => reqs[r].waited < LockTimeout
    /\ reqs' = [r \in Requests |->
          IF ~Reordering(reqs[r]) THEN reqs[r]
          ELSE IF reqs[r].pc = "waiting"
               THEN At(reqs[r], "waiting", reqs[r].waited + 1, reqs[r].worked)
               ELSE At(reqs[r], reqs[r].pc, reqs[r].waited, reqs[r].worked + 1)]
    /\ UNCHANGED <<rows, held, kept, overtaken>>

-----------------------------------------------------------------------------
\* Creations and moves read the last sortOrder of the list, then write.

ReadsNext(r, l, moved) ==
    /\ reqs[r].pc = "ready"
    /\ IsThere(l) /\ Reachable(l)
    /\ Becomes(r, [pc |-> "placing", list |-> l, next |-> NextSortOrder(l),
                   moved |-> moved])
    /\ UNCHANGED <<rows, held, kept, overtaken>>

CreateCategory(r) == ReadsNext(r, Store, {})
CreateMenu(r) == \E c \in Categories : ReadsNext(r, c, {})
CreateOption(r) == \E m \in Menus : ReadsNext(r, m, {})
CreateChoice(r) == \E o \in Options : ReadsNext(r, o, {})

\* A menu that stays in its category keeps its place.
ResolveCategoryMove(r) ==
    \E x \in Menus, c \in Categories :
        Exists(x) /\ rows[x].list # c /\ ReadsNext(r, c, {x})

\* x is in the list anew: what was said of its place before is over.
Placed(r, x, row) ==
    /\ rows' = [rows EXCEPT ![x] = row]
    /\ kept' = {k \in kept : x \notin {k[2], k[3]}}
    /\ Overtakes({r}, {row.list, rows[x].list})

Ends(r) == Becomes(r, Done) /\ UNCHANGED held

\* The foreign key refuses a row of a list that is gone.
Insert(r) ==
    LET q == reqs[r]
        free == {x \in Members(q.list) : rows[x].state = "absent"}
    IN  /\ q.pc = "placing" /\ q.moved = {}
        /\ \/ /\ IsThere(q.list)
              /\ \E x \in free :
                    /\ \A y \in free : x <= y
                    /\ Placed(r, x, [list |-> q.list, sortOrder |-> q.next,
                                     state |-> "live"])
           \/ ~IsThere(q.list) /\ UNCHANGED <<rows, kept, overtaken>>
        /\ Ends(r)

\* The moved row as partialUpdateMenu writes it.
MovedTo(q, x) == [rows[x] EXCEPT !.list = q.list, !.sortOrder = q.next]

MoveMenu(r) ==
    LET q == reqs[r]
    IN  /\ q.pc = "placing"
        /\ \E x \in q.moved :
              /\ RowFree(x)
              /\ \/ IsThere(q.list) /\ Placed(r, x, MovedTo(q, x))
                 \/ ~IsThere(q.list) /\ UNCHANGED <<rows, kept, overtaken>>
        /\ Ends(r)

-----------------------------------------------------------------------------
\* Deletions.  A soft-deleted menu keeps its sortOrder, and has it when it is
\* restored.

SoftDeleteMenu(r) ==
    /\ reqs[r].pc = "ready"
    /\ \E x \in Menus :
        /\ rows[x].state = "live" /\ RowFree(x)
        /\ rows' = [rows EXCEPT ![x].state = "deleted"]
    /\ UNCHANGED <<kept, overtaken>>
    /\ Ends(r)

RestoreMenu(r) ==
    /\ reqs[r].pc = "ready"
    /\ \E x \in Menus :
        /\ rows[x].state = "deleted" /\ RowFree(x)
        /\ rows' = [rows EXCEPT ![x].state = "live"]
        /\ Overtakes({}, {rows[x].list})
    /\ UNCHANGED kept
    /\ Ends(r)

IsEmpty(c) == \A x \in Members(c) : Exists(x) => rows[x].list # c

\* A category with menus, soft-deleted ones too, is not deleted.
CountMenus(r) ==
    /\ reqs[r].pc = "ready"
    /\ \E c \in Categories :
        /\ Exists(c) /\ IsEmpty(c)
        /\ Becomes(r, [pc |-> "counted", row |-> c])
    /\ UNCHANGED <<rows, held, kept, overtaken>>

Gone(S) ==
    /\ rows' = [x \in Rows |->
                   IF x \in S THEN [rows[x] EXCEPT !.state = "gone"] ELSE rows[x]]
    /\ kept' = {k \in kept : k[2] \notin S /\ k[3] \notin S}

DeleteCategory(r) ==
    LET c == reqs[r].row
    IN  /\ reqs[r].pc = "counted"
        /\ RowFree(c)
        /\ \/ Exists(c) /\ IsEmpty(c) /\ Gone({c})
           \/ ~(Exists(c) /\ IsEmpty(c)) /\ UNCHANGED <<rows, kept>>
        /\ UNCHANGED overtaken
        /\ Ends(r)

\* An option goes with its choices.
DeleteOption(r) ==
    /\ reqs[r].pc = "ready"
    /\ \E x \in Options :
        LET gone == {x} \cup {y \in ChoiceRows : Exists(y) /\ rows[y].list = x}
        IN  /\ Exists(x) /\ Reachable(x)
            /\ \A y \in gone : RowFree(y)
            /\ Gone(gone)
    /\ UNCHANGED overtaken
    /\ Ends(r)

DeleteChoice(r) ==
    /\ reqs[r].pc = "ready"
    /\ \E x \in ChoiceRows :
        Exists(x) /\ Reachable(rows[x].list) /\ RowFree(x) /\ Gone({x})
    /\ UNCHANGED overtaken
    /\ Ends(r)

-----------------------------------------------------------------------------
Reorder(r) ==
    \/ ReorderCategories(r) \/ ReorderMenus(r)
    \/ ReorderOptions(r) \/ ReorderChoices(r)
    \/ AcquireLock(r) \/ LockTimesOut(r) \/ CheckSet(r) \/ Renumber(r)
    \/ ReleaseLock(r) \/ Commit(r) \/ Overrun(r)

Place(r) ==
    \/ CreateCategory(r) \/ CreateMenu(r) \/ CreateOption(r) \/ CreateChoice(r)
    \/ ResolveCategoryMove(r)
    \/ Insert(r) \/ MoveMenu(r)

Delete(r) ==
    \/ SoftDeleteMenu(r) \/ RestoreMenu(r)
    \/ CountMenus(r) \/ DeleteCategory(r)
    \/ DeleteOption(r) \/ DeleteChoice(r)

Next ==
    \/ \E r \in Requests : Reorder(r) \/ Place(r) \/ Delete(r)
    \/ \E c \in Conns : ConnectionEnds(c)
    \/ Tick

Spec == Init /\ [][Next]_vars

-----------------------------------------------------------------------------
IsRequest(q) ==
    /\ q.pc \in {"ready", "done", "placing", "counted"} \/ Reordering(q)
    /\ Reordering(q) =>
         /\ q.list \in Lists /\ q.conn \in Conns
         /\ DOMAIN q.order \subseteq Nat
         /\ Named(q) \subseteq Members(q.list)
         /\ \A i, j \in DOMAIN q.order : q.order[i] = q.order[j] => i = j
         /\ q.waited \in 0 .. LockTimeout
         /\ q.worked \in 0 .. TxTimeout
    /\ q.pc = "placing" =>
         /\ q.list \in Lists /\ q.next \in Nat
         /\ q.moved \subseteq Menus
         /\ q.moved # {} => q.list \in Categories
    /\ q.pc = "counted" => q.row \in Categories

\* The types, and that every row is in a list of its kind that is there.
TypeOK ==
    /\ rows \in [Rows -> Row]
    /\ \A x \in Rows : Exists(x) => x \in Members(rows[x].list) /\ IsThere(rows[x].list)
    /\ held \in [Conns -> Nat]
    /\ DOMAIN reqs = Requests
    /\ \A r \in Requests : IsRequest(reqs[r])
    /\ kept \subseteq Lists \X Rows \X Rows
    /\ overtaken \subseteq Requests

\* renumberSortOrder writes rows by their ids alone.  Still the last order that
\* was committed for a list stands, for all of its rows that have not been
\* placed anew since: no other reorder, of this list or of one that a menu has
\* left meanwhile, mixes with it.
OrderKept == \A k \in kept : rows[k[2]].sortOrder < rows[k[3]].sortOrder

\* A created or moved row is the last of its list (nextSortOrder), unless the
\* list was written between the read of its last sortOrder and the write.
AppendedLast ==
    [][\A r \in Requests \ overtaken, x \in Rows :
          reqs[r].pc = "placing" /\ reqs'[r].pc = "done" /\ rows'[x] # rows[x] =>
              \A y \in Rows \ {x} :
                  rows'[y].list = reqs[r].list /\ rows'[y].state = "live" =>
                      rows'[y].sortOrder < rows'[x].sortOrder]_vars

\* How often a connection has the lock that no request of it will release.
LeftOn(c) ==
    IF \E r \in Requests : Holding(reqs[r]) /\ reqs[r].conn = c
    THEN held[c] - 1
    ELSE held[c]

\* REORDER_TX_TIMEOUT_MS: a lock is left on an idle connection only by a
\* transaction that has worked for all of its WorkBudget, however long it had
\* waited for the lock before.
LockLeftOnlyByOverrun ==
    [][\A c \in Conns : LeftOn(c)' > LeftOn(c) =>
          \E r \in Requests :
              /\ Holding(reqs[r]) /\ reqs[r].conn = c
              /\ reqs[r].worked >= WorkBudget]_vars

=============================================================================

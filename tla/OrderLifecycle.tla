--------------------------- MODULE OrderLifecycle ---------------------------
(***************************************************************************)
(* The life of an order after it has been placed: the status changes of    *)
(* orders.service.ts (updateOrderWithValidation: read, validate, compare-  *)
(* and-set, one retry) and the item changes of orderItem.service.ts        *)
(* (create and update without a transaction, delete under a row lock that  *)
(* is taken only after the validation).                                    *)
(*                                                                         *)
(* The orders belong to one table session, whose status other handlers     *)
(* change at any time (payment, close, reactivate).  A request is a small  *)
(* state machine with one action per database round trip; everything that  *)
(* a handler does between two awaits is in one action.                     *)
(***************************************************************************)
EXTENDS Naturals

CONSTANTS
  Orders,        \* order rows
  Items,         \* ids of order_item rows, those still to be inserted included
  Requests,      \* HTTP requests
  Quantities,    \* quantities a payload may carry
  Null           \* a column that is NULL, a request without a target

ASSUME NullAssumption == Null \notin Requests \cup Orders \cup Items

VARIABLES
  orders,   \* [Orders -> order row]
  items,    \* [Items -> order_item row]
  session,  \* status of the table session the orders belong to
  rowLock,  \* [Orders -> the request whose transaction holds the row FOR UPDATE]
  req       \* [Requests -> state of the request]

vars == <<orders, items, session, rowLock, req>>

-----------------------------------------------------------------------------
Progress == {"PENDING", "ACCEPTED", "PREPARING", "COMPLETED"}
OrderStatus == Progress \cup {"CANCELLED"}
SessionStatus == {"WAITING_ORDER", "ACTIVE", "CLOSED"}
NoStatus == "-"    \* a PATCH that carries only a memo

(* ORDER_STATUS_RANK.  CANCELLED has no rank in the code; it can be entered  *)
(* from every other status and left for none, which is what rank 4 says.     *)
Rank == [s \in OrderStatus |->
           CASE s = "PENDING" -> 0 [] s = "ACCEPTED" -> 1
             [] s = "PREPARING" -> 2 [] s = "COMPLETED" -> 3 [] OTHER -> 4]

Stamps == Requests \cup {Null}   \* "the moment request r wrote it", or NULL
OrderRow == [status : OrderStatus, acceptedAt : Stamps, completedAt : Stamps]
ItemRow == [state : {"unborn", "live", "gone"},
            order : Orders \cup {Null}, quantity : Quantities]

Operations == {"status", "addItem", "editItem", "deleteItem"}
Phases == {"idle", "read", "write", "lock", "delete", "commit",
           "ok", "rejected", "conflict"}
RequestState ==
  [pc : Phases, op : Operations, order : Orders \cup {Null},
   item : Items \cup {Null}, next : OrderStatus \cup {NoStatus},
   snap : OrderRow,       \* the order row as last read
   first : OrderStatus,   \* its status at the first read
   attempt : 0..1,
   last : BOOLEAN]        \* deleteOrderItem: no other row counted

FreshOrder == [status |-> "PENDING", acceptedAt |-> Null, completedAt |-> Null]

RowsOf(o) == {i \in Items : items[i].state = "live" /\ items[i].order = o}

-----------------------------------------------------------------------------
(* validateOrderSessionToWrite: only the statuses are looked at, the expiry  *)
(* of the session is not.                                                    *)
Writable(o) ==
  /\ orders[o].status # "CANCELLED"
  /\ session \in {"ACTIVE", "WAITING_ORDER"}

(* validateOrderStatusTransition *)
IsForward(current, next) ==
  /\ current # "CANCELLED"
  /\ next = "CANCELLED" \/ Rank[next] > Rank[current]

(* Mutated forms of the definitions below, for the mutation runs.            *)
StampAgain(row, snap, next, r) ==
  [row EXCEPT !.status = next,
              !.acceptedAt = IF next \in {"ACCEPTED", "PREPARING", "COMPLETED"}
                               THEN r ELSE @,
              !.completedAt = IF next = "COMPLETED" THEN r ELSE @]
AnyStatusMatches(r) == TRUE
RetryNever(r) == FALSE
RowNeverLocked(o) == TRUE

(* buildOrderStatusTimestamps: the columns an update to status next writes   *)
(* into the row, computed from the row as it was read.                       *)
Stamped(row, snap, next, r) ==
  [row EXCEPT !.status = next,
              !.acceptedAt = IF next \in {"ACCEPTED", "PREPARING", "COMPLETED"}
                               THEN IF snap.acceptedAt = Null
                                      THEN r ELSE snap.acceptedAt
                               ELSE @,
              !.completedAt = IF next = "COMPLETED" THEN r ELSE @]

(* UPDATE ... WHERE id = ? AND status = <the status read> *)
StatusMatches(r) == orders[req[r].order].status = req[r].snap.status

(* catch P2025: one retry *)
MayRetry(r) == req[r].attempt < 1

(* The row is not held by another transaction (SELECT ... FOR UPDATE). An    *)
(* UPDATE of the row waits for it, and so does the foreign key check of an   *)
(* INSERT into order_item.                                                   *)
OrderUnlocked(o) == rowLock[o] = Null

-----------------------------------------------------------------------------
Idle ==
  [pc |-> "idle", op |-> "status", order |-> Null, item |-> Null,
   next |-> NoStatus, snap |-> FreshOrder, first |-> "PENDING",
   attempt |-> 0, last |-> FALSE]

(* Orders that hold items already.  (An owner may also create an order with  *)
(* an empty orderItems array: order.schema.ts sets no minimum. Such an order *)
(* has nothing to delete, and is left out.)                                  *)
Init ==
  /\ orders = [o \in Orders |-> FreshOrder]
  /\ items \in [Items -> [state : {"unborn", "live"},
                          order : Orders \cup {Null}, quantity : Quantities]]
  /\ \A i \in Items : items[i].state = "live" <=> items[i].order # Null
  /\ \A o \in Orders : RowsOf(o) # {}
  /\ session = "ACTIVE"
  /\ rowLock = [o \in Orders |-> Null]
  /\ req = [r \in Requests |-> Idle]

Goto(r, pc) == req' = [req EXCEPT ![r].pc = pc]

(* An answered request keeps nothing. *)
Answer(r, pc) == req' = [req EXCEPT ![r] = [Idle EXCEPT !.pc = pc]]

(* PATCH/DELETE of an order by the owner, or the customer's own cancel       *)
StartStatus(r) ==
  /\ req[r].pc = "idle"
  /\ \E o \in Orders, next \in OrderStatus \cup {NoStatus} :
       req' = [req EXCEPT ![r] = [Idle EXCEPT !.pc = "read", !.op = "status",
                                              !.order = o, !.next = next]]
  /\ UNCHANGED <<orders, items, session, rowLock>>

StartAddItem(r) ==
  /\ req[r].pc = "idle"
  /\ \E o \in Orders :
       req' = [req EXCEPT ![r] = [Idle EXCEPT !.pc = "read", !.op = "addItem",
                                              !.order = o]]
  /\ UNCHANGED <<orders, items, session, rowLock>>

(* The client sends an item id it has seen. *)
StartItem(r) ==
  /\ req[r].pc = "idle"
  /\ \E op \in {"editItem", "deleteItem"}, i \in Items :
       /\ items[i].state # "unborn"
       /\ req' = [req EXCEPT ![r] = [Idle EXCEPT !.pc = "read", !.op = op,
                                                 !.item = i]]
  /\ UNCHANGED <<orders, items, session, rowLock>>

-----------------------------------------------------------------------------
(* updateOrderWithValidation, first half: findFirst and the validations.     *)
ReadForStatus(r) ==
  LET o == req[r].order IN
  /\ req[r].pc = "read" /\ req[r].op = "status"
  /\ IF Writable(o) /\ (req[r].next # NoStatus
                          => IsForward(orders[o].status, req[r].next))
       THEN req' = [req EXCEPT ![r].pc = "write", ![r].snap = orders[o],
                               ![r].first = IF req[r].attempt = 0
                                              THEN orders[o].status ELSE @]
       ELSE Answer(r, "rejected")
  /\ UNCHANGED <<orders, items, session, rowLock>>

(* The update found its row: status and timestamps are written together.     *)
CasSucceeds(r) ==
  LET o == req[r].order IN
  /\ req[r].pc = "write" /\ req[r].op = "status"
  /\ OrderUnlocked(o) /\ StatusMatches(r)
  /\ orders' = IF req[r].next = NoStatus THEN orders
               ELSE [orders EXCEPT ![o] =
                       Stamped(@, req[r].snap, req[r].next, r)]
  /\ Answer(r, "ok")
  /\ UNCHANGED <<items, session, rowLock>>

(* Mutated form of CasFails: the retry skips the validations.                *)
RetryUnvalidated(r) ==
  /\ req[r].pc = "write" /\ req[r].op = "status"
  /\ OrderUnlocked(req[r].order) /\ ~StatusMatches(r)
  /\ req' = IF MayRetry(r)
              THEN [req EXCEPT ![r].snap = orders[req[r].order], ![r].attempt = 1]
              ELSE [req EXCEPT ![r].pc = "conflict"]
  /\ UNCHANGED <<orders, items, session, rowLock>>

(* The row has moved on (P2025): read and validate once more, then give up.  *)
CasFails(r) ==
  /\ req[r].pc = "write" /\ req[r].op = "status"
  /\ OrderUnlocked(req[r].order) /\ ~StatusMatches(r)
  /\ req' = IF MayRetry(r)
              THEN [req EXCEPT ![r].pc = "read", ![r].attempt = @ + 1]
              ELSE [req EXCEPT ![r].pc = "conflict"]
  /\ UNCHANGED <<orders, items, session, rowLock>>

-----------------------------------------------------------------------------
(* createOrderItem: the order and its session are read and validated ...     *)
ReadForAdd(r) ==
  /\ req[r].pc = "read" /\ req[r].op = "addItem"
  /\ IF Writable(req[r].order) THEN Goto(r, "write") ELSE Answer(r, "rejected")
  /\ UNCHANGED <<orders, items, session, rowLock>>

(* ... the menu is read and validated, and the row is inserted without a     *)
(* second look at the order.                                                 *)
InsertItem(r) ==
  /\ req[r].pc = "write" /\ req[r].op = "addItem"
  /\ OrderUnlocked(req[r].order)
  /\ \E i \in Items, q \in Quantities :
       /\ items[i].state = "unborn"
       /\ items' = [items EXCEPT ![i] = [state |-> "live", quantity |-> q,
                                         order |-> req[r].order]]
  /\ Answer(r, "ok")
  /\ UNCHANGED <<orders, session, rowLock>>

(* createOrderItem between the two: the menu is gone, or not available.      *)
MenuRefused(r) ==
  /\ req[r].pc = "write" /\ req[r].op \in {"addItem", "editItem"}
  /\ Answer(r, "rejected")
  /\ UNCHANGED <<orders, items, session, rowLock>>

(* partialUpdateOrderItem and deleteOrderItem find the order through the     *)
(* item; a missing item is a 404.                                            *)
ReadForItem(r) ==
  LET i == req[r].item
      o == items[i].order IN
  /\ req[r].pc = "read" /\ req[r].op \in {"editItem", "deleteItem"}
  /\ IF items[i].state = "live" /\ Writable(o)
       THEN req' = [req EXCEPT ![r].order = o,
                               ![r].pc = IF req[r].op = "editItem"
                                           THEN "write" ELSE "lock"]
       ELSE Answer(r, "rejected")
  /\ UNCHANGED <<orders, items, session, rowLock>>

(* Some transaction has deleted or counted the rows of o with locking reads. *)
RowsLocked(o) == rowLock[o] # Null /\ req[rowLock[o]].pc = "commit"

(* The update matches the item's id alone; a row deleted since is P2025.     *)
EditItem(r) ==
  LET i == req[r].item IN
  /\ req[r].pc = "write" /\ req[r].op = "editItem"
  /\ ~RowsLocked(req[r].order)
  /\ IF items[i].state = "live"
       THEN /\ \E q \in Quantities :
                 items' = [items EXCEPT ![i].quantity = q]
            /\ Answer(r, "ok")
       ELSE /\ Answer(r, "rejected")
            /\ UNCHANGED items
  /\ UNCHANGED <<orders, session, rowLock>>

-----------------------------------------------------------------------------
(* deleteOrderItem, after the validation: withOrderLock                      *)
LockOrder(r) ==
  LET o == req[r].order IN
  /\ req[r].pc = "lock" /\ OrderUnlocked(o)
  /\ rowLock' = [rowLock EXCEPT ![o] = r]
  /\ Goto(r, "delete")
  /\ UNCHANGED <<orders, items, session>>

(* tx.orderItem.delete and the locking COUNT of the rows left.  A row that *)
(* another transaction has deleted since is P2025: rollback.                 *)
DeleteAndCount(r) ==
  LET o == req[r].order
      i == req[r].item IN
  /\ req[r].pc = "delete"
  /\ IF items[i].state = "live"
       THEN /\ req' = [req EXCEPT ![r].pc = "commit",
                                  ![r].last = RowsOf(o) \ {i} = {}]
            /\ UNCHANGED rowLock
       ELSE /\ Answer(r, "rejected")
            /\ rowLock' = [rowLock EXCEPT ![o] = Null]
  /\ UNCHANGED <<orders, items, session>>

(* Mutated form of CommitDelete: the row stays locked.                       *)
CommitKeepingLock(r) ==
  LET o == req[r].order IN
  /\ req[r].pc = "commit"
  /\ items' = [items EXCEPT ![req[r].item].state = "gone"]
  /\ orders' = IF req[r].last
                 THEN [orders EXCEPT ![o].status = "CANCELLED"] ELSE orders
  /\ Answer(r, "ok")
  /\ UNCHANGED <<session, rowLock>>

(* The last item takes the order with it, whatever the order's status is by  *)
(* now; commit makes both visible and frees the row.                         *)
CommitDelete(r) ==
  LET o == req[r].order IN
  /\ req[r].pc = "commit"
  /\ items' = [items EXCEPT ![req[r].item].state = "gone"]
  /\ orders' = IF req[r].last
                 THEN [orders EXCEPT ![o].status = "CANCELLED"] ELSE orders
  /\ rowLock' = [rowLock EXCEPT ![o] = Null]
  /\ Answer(r, "ok")
  /\ UNCHANGED session

(* The transaction is rolled back (deadlock victim, transaction timeout,     *)
(* lost connection).                                                         *)
AbortDelete(r) ==
  /\ req[r].pc \in {"lock", "delete", "commit"}
  /\ rowLock' = [o \in Orders |-> IF rowLock[o] = r THEN Null ELSE rowLock[o]]
  /\ Answer(r, "rejected")
  /\ UNCHANGED <<orders, items, session>>

-----------------------------------------------------------------------------
(* Other handlers on the session: payment or close, and the owner's          *)
(* REACTIVATE / ACTIVE (session-core.service.ts).                            *)
CloseSession ==
  /\ session # "CLOSED"
  /\ session' = "CLOSED"
  /\ UNCHANGED <<orders, items, rowLock, req>>

ReactivateSession ==
  /\ session = "CLOSED"
  /\ session' = "ACTIVE"
  /\ UNCHANGED <<orders, items, rowLock, req>>

Step(r) ==
  \/ ReadForStatus(r) \/ CasSucceeds(r) \/ CasFails(r)
  \/ ReadForAdd(r) \/ InsertItem(r) \/ MenuRefused(r)
  \/ ReadForItem(r) \/ EditItem(r)
  \/ LockOrder(r) \/ DeleteAndCount(r) \/ CommitDelete(r) \/ AbortDelete(r)

Start(r) == StartStatus(r) \/ StartAddItem(r) \/ StartItem(r)

Next ==
  \/ \E r \in Requests : Start(r) \/ Step(r)
  \/ CloseSession \/ ReactivateSession

Spec == Init /\ [][Next]_vars

(* A handler that has started runs to its end: the event loop and the        *)
(* database serve every request, and row locks are granted in the order they *)
(* are asked for.  Clients and owners owe nothing.                           *)
FairSpec == Spec /\ \A r \in Requests : WF_vars(Step(r))

-----------------------------------------------------------------------------
TypeOK ==
  /\ orders \in [Orders -> OrderRow]
  /\ items \in [Items -> ItemRow]
  /\ session \in SessionStatus
  /\ rowLock \in [Orders -> Requests \cup {Null}]
  /\ req \in [Requests -> RequestState]

(* The timestamps a row of a given status has: an order that is accepted or   *)
(* further has acceptedAt, a completed one has completedAt, and completedAt  *)
(* is only found on a completed order, or one cancelled after completion.    *)
StampsOf(row) ==
  /\ row.status = "PENDING" => row.acceptedAt = Null
  /\ row.status \in {"ACCEPTED", "PREPARING", "COMPLETED"} => row.acceptedAt # Null
  /\ row.status = "COMPLETED" => row.completedAt # Null
  /\ row.completedAt # Null => /\ row.status \in {"COMPLETED", "CANCELLED"}
                               /\ row.acceptedAt # Null

(* The timestamps tell the same story as the status, although                *)
(* updateOrderWithValidation computes them from a row read earlier: an       *)
(* update that went through on a stale read would break it.                  *)
StampsMatchStatus == \A o \in Orders : StampsOf(orders[o])

(* An order whose items have all been deleted is CANCELLED, however many     *)
(* deletions, insertions and status changes ran at the same time.            *)
EmptiedOrderIsCancelled ==
  \A o \in Orders : RowsOf(o) = {} => orders[o].status = "CANCELLED"

(* A status update that ends in P2025 has been overtaken twice: the order    *)
(* moved on between its first read and its second, and again after that.     *)
GaveUpAfterTwoOvertakes ==
  \A r \in Requests : req[r].pc = "conflict" =>
    /\ Rank[req[r].first] < Rank[req[r].snap.status]
    /\ Rank[req[r].snap.status] < Rank[orders[req[r].order].status]

(* No step takes an order backwards, and none leaves CANCELLED, although     *)
(* every update is validated against a row read earlier.                     *)
StatusForwardOnly ==
  [][\A o \in Orders : orders'[o].status = orders[o].status
                       \/ IsForward(orders[o].status, orders'[o].status)]_vars

(* acceptedAt and completedAt are written once and never again: a later      *)
(* status change keeps the moment the order was first accepted.              *)
StampedOnce ==
  [][\A o \in Orders :
       /\ orders[o].acceptedAt # Null => orders'[o].acceptedAt = orders[o].acceptedAt
       /\ orders[o].completedAt # Null => orders'[o].completedAt = orders[o].completedAt]_vars

(* Every request that has started is answered: no request waits for a row    *)
(* lock for ever.                                                            *)
EveryRequestAnswered ==
  \A r \in Requests :
    req[r].pc = "read" ~> req[r].pc \in {"ok", "rejected", "conflict"}
=============================================================================

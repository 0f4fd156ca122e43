------------------------------ MODULE Checkout ------------------------------
(***************************************************************************)
(* The shared cart of a table and the customer's order, as the requests of *)
(* several devices run them: carts.service.ts (every change of the cart    *)
(* reads it, computes and writes it back under a Redis lock) and           *)
(* createOrderByCustomer of orders.service.ts (the cart is read without    *)
(* the lock, ordered under an idempotency key made of its version, and     *)
(* then the ordered quantities are taken off under the lock).              *)
(*                                                                         *)
(* One action per round trip to Redis or the database.  The lock around    *)
(* the creation of the order (withIdempotencyLock) is best effort: a       *)
(* request that does not get it goes on without it, so that it excludes    *)
(* no interleaving, and the model has none.                                *)
(***************************************************************************)
EXTENDS Integers, FiniteSets

CONSTANTS
  Requests,     \* HTTP requests of the devices at the table
  Lines, Fingerprints, MaxVersion, Null,   \* see OrderIntake
  MaxQuantity   \* bound: the largest quantity that updateItem is asked for

ASSUME NullAssumption == Null \notin Requests \cup Lines \cup Fingerprints
ASSUME MaxQuantityAssumption == MaxQuantity \in Nat \ {0}

(* Every request writes the cart at most once, so that no write ever runs    *)
(* into the bound on versions.                                               *)
ASSUME VersionsSuffice ==
  IsFiniteSet(Requests) /\ MaxVersion \in Nat /\ MaxVersion > Cardinality(Requests)

VARIABLES
  lines,        \* the cart in Redis: [Lines -> line]
  version,      \* its updatedAt, 0 when there is no cart
  clock,        \* the last updatedAt given: two writes never share a moment
  alive,        \* the table session has not expired
  cartLock,     \* the request that holds the Redis lock of the cart
  claimed,      \* the versions with a cart:deducted:<key> record
  orders,       \* [Versions -> the lines of the order with that key, or Null]
  req,          \* [Requests -> state of the request]
  settlements,  \* history: how often an order was taken off the cart
  put           \* history: how many of a line the devices have put in the cart

vars == <<lines, version, clock, alive, cartLock, claimed, orders, req,
          settlements, put>>

(* The cart, the orders and how often each was taken off the cart are the     *)
(* abstract ones; locks, versions, requests and sessions are hidden.         *)
Intake == INSTANCE OrderIntake
            WITH lines <- lines, orders <- orders, settlements <- settlements

-----------------------------------------------------------------------------
Versions == Intake!Versions
Cart == Intake!Cart
NoLine == Intake!NoLine
EmptyCart == Intake!EmptyCart

ASSUME NullIsNoCart == Null \notin Cart

Operations == {"add", "update", "remove", "clear", "order"}
Answers == {"ok", "rejected", "unavailable"}
Phases == {"idle", "preRead", "fetch", "lookUp", "create", "acquire", "claim",
           "read", "write", "release", "crashed"} \cup Answers
RequestState ==
  [pc : Phases, op : Operations,
   line : Lines \cup {Null},
   fingerprint : Fingerprints \cup {Null},   \* options asked for, or as they are
   quantity : 0..MaxQuantity,                \* quantity asked for, 0: as it is
   cart : Cart,                              \* the cart as last read
   version : 0..MaxVersion,                  \* of the cart being ordered
   ordered : Cart,
   answer : Answers]                         \* to give once the lock is released

Idle ==
  [pc |-> "idle", op |-> "clear", line |-> Null, fingerprint |-> Null,
   quantity |-> 0, cart |-> EmptyCart, version |-> 0, ordered |-> EmptyCart,
   answer |-> "ok"]

Present(cart, l) == cart[l].quantity > 0
LineOf(f, q) == [fingerprint |-> f, quantity |-> q]
Twins(cart, l, f) == {k \in Lines \ {l} : Present(cart, k) /\ cart[k].fingerprint = f}

-----------------------------------------------------------------------------
(* Mutated forms of the definitions below.                                   *)
LockAlwaysFree == TRUE
NeverDeducted(r) == FALSE

(* redlock.acquire succeeds when nobody holds the key.                       *)
CartLockFree == cartLock = Null

(* SET cart:deducted:<key> NX finds a record.                                *)
Deducted(r) == req[r].version \in claimed

(* A device that adds names a menu with options; one that updates or removes *)
(* names a line that is or was in the cart.                                  *)
Init ==
  /\ \E l \in Lines, f \in Fingerprints :
       /\ lines = [EmptyCart EXCEPT ![l] = LineOf(f, 1)]
       /\ put = [k \in Lines |-> IF k = l THEN 1 ELSE 0]
  /\ version = 1 /\ clock = 1
  /\ alive = TRUE
  /\ cartLock = Null
  /\ claimed = {}
  /\ orders = [v \in Versions |-> Null]
  /\ req = [r \in Requests |-> Idle]
  /\ settlements = [v \in Versions |-> 0]

Running(r) == req[r].pc \notin {"idle", "crashed"} \cup Answers

Goto(r, pc) == req' = [req EXCEPT ![r].pc = pc]

(* A request that is over keeps what it was about and nothing else.          *)
Answer(r, a) ==
  req' = [req EXCEPT ![r] = [Idle EXCEPT !.pc = a, !.op = req[r].op,
                                         !.version = req[r].version]]

(* Bound: every addition in flight finds an unused id among Lines.           *)
StartAdd(r) ==
  /\ req[r].pc = "idle" /\ alive
  /\ Cardinality({s \in Requests : req[s].op = "add" /\ Running(s)})
       < Cardinality({l \in Lines : put[l] = 0})
  /\ \E f \in Fingerprints :
       req' = [req EXCEPT ![r] = [Idle EXCEPT !.pc = "acquire", !.op = "add",
                                              !.fingerprint = f, !.quantity = 1]]
  /\ UNCHANGED <<lines, version, clock, alive, cartLock, claimed, orders,
                 settlements, put>>

(* New options, or a new quantity (CreateCartItem and UpdateCartItem take    *)
(* both; one at a time is enough here).                                      *)
StartUpdate(r) ==
  /\ req[r].pc = "idle" /\ alive
  /\ \E l \in Lines, f \in Fingerprints \cup {Null}, q \in 0..MaxQuantity :
       /\ put[l] > 0
       /\ (f = Null) # (q = 0)
       /\ req' = [req EXCEPT ![r] = [Idle EXCEPT !.pc = "preRead", !.op = "update",
                                       !.line = l, !.fingerprint = f, !.quantity = q]]
  /\ UNCHANGED <<lines, version, clock, alive, cartLock, claimed, orders,
                 settlements, put>>

StartRemove(r) ==
  /\ req[r].pc = "idle" /\ alive
  /\ \E l \in Lines :
       /\ put[l] > 0
       /\ req' = [req EXCEPT ![r] = [Idle EXCEPT !.pc = "acquire", !.op = "remove",
                                                 !.line = l]]
  /\ UNCHANGED <<lines, version, clock, alive, cartLock, claimed, orders,
                 settlements, put>>

StartClear(r) ==
  /\ req[r].pc = "idle" /\ alive
  /\ req' = [req EXCEPT ![r] = [Idle EXCEPT !.pc = "acquire", !.op = "clear"]]
  /\ UNCHANGED <<lines, version, clock, alive, cartLock, claimed, orders,
                 settlements, put>>

StartOrder(r) ==
  /\ req[r].pc = "idle" /\ alive
  /\ req' = [req EXCEPT ![r] = [Idle EXCEPT !.pc = "fetch", !.op = "order"]]
  /\ UNCHANGED <<lines, version, clock, alive, cartLock, claimed, orders,
                 settlements, put>>

-----------------------------------------------------------------------------
(* updateItem looks for the line before it asks for the lock.                *)
PreRead(r) ==
  /\ req[r].pc = "preRead"
  /\ IF Present(lines, req[r].line) THEN Goto(r, "acquire") ELSE Answer(r, "rejected")
  /\ UNCHANGED <<lines, version, clock, alive, cartLock, claimed, orders,
                 settlements, put>>

(* createOrderByCustomer: getCart, without the lock.  *)
FetchCart(r) ==
  /\ req[r].pc = "fetch"
  /\ IF lines = EmptyCart
       THEN Answer(r, "rejected")
       ELSE req' = [req EXCEPT ![r].pc = "lookUp", ![r].version = version,
                               ![r].ordered = lines]
  /\ UNCHANGED <<lines, version, clock, alive, cartLock, claimed, orders,
                 settlements, put>>

(* Mutated form of LookUp: a duplicate answers without looking at the cart.  *)
DuplicateIsDone(r) ==
  /\ req[r].pc = "lookUp"
  /\ IF orders[req[r].version] # Null
       THEN Answer(r, "ok") ELSE Goto(r, "create")
  /\ UNCHANGED <<lines, version, clock, alive, cartLock, claimed, orders,
                 settlements, put>>

(* findOrderByIdempotencyKey: an order with this key is taken as the answer, *)
(* and the cart is looked after all the same.                                *)
LookUp(r) ==
  /\ req[r].pc = "lookUp"
  /\ Goto(r, IF orders[req[r].version] # Null THEN "acquire" ELSE "create")
  /\ UNCHANGED <<lines, version, clock, alive, cartLock, claimed, orders,
                 settlements, put>>

(* createOrderCore: the insert, or, when the unique key refuses it, the      *)
(* order that is there already.                                              *)
CreateOrder(r) ==
  LET v == req[r].version IN
  /\ req[r].pc = "create" /\ alive
  /\ orders' = IF orders[v] = Null
                 THEN [orders EXCEPT ![v] = req[r].ordered] ELSE orders
  /\ Goto(r, "acquire")
  /\ UNCHANGED <<lines, version, clock, alive, cartLock, claimed, settlements, put>>

(* The transaction is rolled back: session expired, store closed, menu or    *)
(* options no longer valid, no free order number.  addItem validates the     *)
(* menu before it asks for the lock.                                         *)
Refuse(r) ==
  /\ \/ req[r].pc = "create"
     \/ req[r].pc = "acquire" /\ req[r].op = "add"
  /\ Answer(r, "rejected")
  /\ UNCHANGED <<lines, version, clock, alive, cartLock, claimed, orders,
                 settlements, put>>

-----------------------------------------------------------------------------
(* withCartLock *)
Acquire(r) ==
  /\ req[r].pc = "acquire" /\ CartLockFree
  /\ cartLock' = r
  /\ Goto(r, CASE req[r].op = "order" -> "claim"
               [] req[r].op = "clear" -> "write"
               [] OTHER -> "read")
  /\ UNCHANGED <<lines, version, clock, alive, claimed, orders, settlements, put>>

(* CART_LOCK_FAILED, also for a request whose order is committed by now.     *)
LockFails(r) ==
  /\ req[r].pc = "acquire" /\ cartLock # Null
  /\ Answer(r, "unavailable")
  /\ UNCHANGED <<lines, version, clock, alive, cartLock, claimed, orders,
                 settlements, put>>

(* claimDeduction: no record is kept for a session that has expired.         *)
Claim(r) ==
  /\ req[r].pc = "claim"
  /\ IF alive /\ Deducted(r)
       THEN /\ req' = [req EXCEPT ![r].pc = "release", ![r].answer = "ok"]
            /\ UNCHANGED claimed
       ELSE /\ Goto(r, "read")
            /\ claimed' = IF alive THEN claimed \cup {req[r].version} ELSE claimed
  /\ UNCHANGED <<lines, version, clock, alive, cartLock, orders, settlements, put>>

(* readCart under the lock; a line that is gone is CART_ITEM_NOT_FOUND.      *)
ReadCart(r) ==
  /\ req[r].pc = "read"
  /\ req' = IF /\ req[r].op \in {"update", "remove"}
               /\ ~Present(lines, req[r].line)
              THEN [req EXCEPT ![r].pc = "release", ![r].answer = "rejected"]
              ELSE [req EXCEPT ![r].pc = "write", ![r].cart = lines]
  /\ UNCHANGED <<lines, version, clock, alive, cartLock, claimed, orders,
                 settlements, put>>

(* updateItem validates the options between its read and its write.          *)
RefuseOptions(r) ==
  /\ req[r].pc = "write" /\ req[r].op = "update"
  /\ req' = [req EXCEPT ![r].pc = "release", ![r].answer = "rejected"]
  /\ UNCHANGED <<lines, version, clock, alive, cartLock, claimed, orders,
                 settlements, put>>

(* The carts r may write: one for every operation, but for the id that       *)
(* addItem makes up.                                                         *)
Added(r) ==
  LET cart == req[r].cart
      f == req[r].fingerprint
      same == Twins(cart, Null, f) IN
  IF same # {}
    THEN {[cart EXCEPT ![l].quantity = @ + req[r].quantity] : l \in same}
    ELSE {[cart EXCEPT ![l] = LineOf(f, req[r].quantity)] :
            l \in {k \in Lines : put[k] = 0}}

Updated(r) ==
  LET cart == req[r].cart
      l == req[r].line
      f == IF req[r].fingerprint = Null THEN cart[l].fingerprint ELSE req[r].fingerprint
      q == IF req[r].quantity = 0 THEN cart[l].quantity ELSE req[r].quantity
      same == Twins(cart, l, f) IN
  IF same # {}
    THEN {[cart EXCEPT ![k].quantity = @ + q, ![l] = NoLine] : k \in same}
    ELSE {[cart EXCEPT ![l] = LineOf(f, q)]}

NewCarts(r) ==
  CASE req[r].op = "add" -> Added(r)
    [] req[r].op = "update" -> Updated(r)
    [] req[r].op = "remove" -> {[req[r].cart EXCEPT ![req[r].line] = NoLine]}
    [] req[r].op = "clear" -> {EmptyCart}
    [] req[r].op = "order" -> {Intake!LinesLeft(req[r].cart, req[r].ordered)}

(* clearCart, and a deduction that leaves nothing: DEL.                      *)
Deletes(r, cart) ==
  req[r].op = "clear" \/ (req[r].op = "order" /\ cart = EmptyCart)

(* writeCart refuses when the session has expired, and so gives the request  *)
(* SESSION_EXPIRED.                                                          *)
WriteCart(r) ==
  /\ req[r].pc = "write"
  /\ \E cart \in NewCarts(r) :
       IF Deletes(r, cart)
         THEN /\ lines' = EmptyCart /\ version' = 0
              /\ req' = [req EXCEPT ![r].pc = "release", ![r].answer = "ok"]
              /\ UNCHANGED <<clock, put>>
       ELSE IF alive
         THEN /\ clock' = clock + 1
              /\ lines' = cart /\ version' = clock'
              /\ put' = IF req[r].op = "order" THEN put
                        ELSE [l \in Lines |->
                                IF cart[l].quantity > req[r].cart[l].quantity
                                  THEN put[l] + cart[l].quantity - req[r].cart[l].quantity
                                  ELSE put[l]]
              /\ req' = [req EXCEPT ![r].pc = "release", ![r].answer = "ok"]
       ELSE /\ req' = [req EXCEPT ![r].pc = "release", ![r].answer = "rejected"]
            /\ UNCHANGED <<lines, version, clock, put>>
  /\ settlements' = IF req[r].op = "order" /\ alive
                      THEN [settlements EXCEPT ![req[r].version] = @ + 1]
                      ELSE settlements
  /\ UNCHANGED <<alive, cartLock, claimed, orders>>

(* finally: lock.release()  *)
Release(r) ==
  /\ req[r].pc = "release"
  /\ cartLock' = Null
  /\ Answer(r, req[r].answer)
  /\ UNCHANGED <<lines, version, clock, alive, claimed, orders, settlements, put>>

-----------------------------------------------------------------------------
(* The server goes down with the request.  *)
Crash(r) ==
  /\ Running(r)
  /\ req' = [req EXCEPT ![r] = [Idle EXCEPT !.pc = "crashed", !.op = req[r].op,
                                            !.version = req[r].version]]
  /\ UNCHANGED <<lines, version, clock, alive, cartLock, claimed, orders,
                 settlements, put>>

(* The lock has a time to live of three seconds.  That a request that is     *)
(* still running outlives it is left out: see the README.                    *)
LockExpires ==
  /\ cartLock # Null /\ req[cartLock].pc = "crashed"
  /\ cartLock' = Null
  /\ UNCHANGED <<lines, version, clock, alive, claimed, orders, req,
                 settlements, put>>

(* The session expires, and the cart, whose key lives no longer, with it.    *)
SessionExpires ==
  /\ alive
  /\ alive' = FALSE
  /\ lines' = EmptyCart /\ version' = 0
  /\ UNCHANGED <<clock, cartLock, claimed, orders, req, settlements, put>>

Step(r) ==
  \/ PreRead(r) \/ FetchCart(r) \/ LookUp(r) \/ CreateOrder(r) \/ Refuse(r)
  \/ Acquire(r) \/ LockFails(r) \/ Claim(r) \/ ReadCart(r) \/ RefuseOptions(r)
  \/ WriteCart(r) \/ Release(r)

Start(r) ==
  \/ StartAdd(r) \/ StartUpdate(r) \/ StartRemove(r) \/ StartClear(r) \/ StartOrder(r)

Next ==
  \/ \E r \in Requests : Start(r) \/ Step(r) \/ Crash(r)
  \/ LockExpires \/ SessionExpires

Spec == Init /\ [][Next]_vars

-----------------------------------------------------------------------------
TypeOK ==
  /\ lines \in Cart
  /\ version \in 0..MaxVersion /\ clock \in 1..MaxVersion
  /\ alive \in BOOLEAN
  /\ cartLock \in Requests \cup {Null}
  /\ claimed \subseteq Versions
  /\ orders \in [Versions -> Cart \cup {Null}]
  /\ req \in [Requests -> RequestState]
  /\ settlements \in [Versions -> Nat]
  /\ put \in [Lines -> Nat]

(* No device's change is lost: whatever a request is about to write back was *)
(* computed from the cart as it is now.                                      *)
NoLostUpdate ==
  \A r \in Requests :
    req[r].pc = "write" /\ req[r].op # "clear" /\ alive => req[r].cart = lines

(* A customer who is told that the order is placed finds its quantities      *)
(* gone from the cart, also when another request placed the order and died.  *)
(* The one exception is a server that died between its claim of the          *)
(* deduction and the deduction.                                              *)
SuccessMeansSettled ==
  \A r \in Requests : req[r].pc = "ok" /\ req[r].op = "order" /\ alive =>
    \/ settlements[req[r].version] = 1
    \/ \E s \in Requests : /\ req[s].pc = "crashed" /\ req[s].op = "order"
                           /\ req[s].version = req[r].version
                           /\ req[r].version \in claimed

(* The checkout implements OrderIntake: at most one order per version of the *)
(* cart, taken off the cart at most once, after it was placed, and from the  *)
(* cart as it is at that moment, however requests are doubled or die.        *)
RefinesIntake == Intake!Spec

(* One cart is not ordered several times by orders that come in at the same  *)
(* time (schema.prisma on idempotencyKey): what the devices put in the cart  *)
(* is ordered at most once.                                                  *)
OrderedQuantity(l) ==
  LET upTo[v \in 0..MaxVersion] ==
        IF v = 0 THEN 0
        ELSE upTo[v - 1] + (IF orders[v] = Null THEN 0 ELSE orders[v][l].quantity)
  IN upTo[MaxVersion]

NothingOrderedTwice == \A l \in Lines : OrderedQuantity(l) <= put[l]
=============================================================================

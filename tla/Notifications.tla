--------------------------- MODULE Notifications ---------------------------
(***************************************************************************)
(* What keeps the screens of a table and of its store up to date.  A       *)
(* handler commits a change of the table's cart or orders first and then   *)
(* tells the rooms of the namespace /events about it, except the socket    *)
(* that the request names, whose device has the answer.  Customers are in  *)
(* the room of their table from the connection on, consoles subscribe to   *)
(* the room of the store.                                                  *)
(*                                                                         *)
(* An event carries no data, and a device reads again when it is told: at  *)
(* an event, at the answer to a request of its own, and when it has come   *)
(* into a room.  The devices are not in the repository.  A server may die  *)
(* between the commit and the event; events of a broken socket are lost.   *)
(***************************************************************************)
EXTENDS Integers, FiniteSets

CONSTANTS
    Customers,  \* devices at one table, with its session
    Consoles,   \* devices of the store's owner
    Calls,      \* HTTP requests, each sent once
    Keys,       \* idempotency keys: states of the cart to order
    MaxPending, \* bound of the subscriptions under way on a socket
    None

Devices == Customers \cup Consoles

ASSUME NotificationsAssumption ==
    /\ Customers \cap Consoles = {}
    /\ MaxPending \in Nat
    /\ None \notin Calls \cup Keys

VARIABLES
    alive,      \* the session is ACTIVE or WAITING_ORDER and not expired
    applied,    \* changes committed: <<request, document>>
    creator,    \* [Keys -> the request that created the order]
    claimed,    \* keys with a record cart:deducted
    sock,       \* [Devices -> state of the socket]
    joined,     \* devices in their room
    wanted,     \* consoles that have subscribed last, not unsubscribed
    pending,    \* [Consoles -> subscriptions that await ownsStore]
    overtaken,  \* history: consoles that unsubscribed with one under way
    told,       \* devices that are about to read
    seen,       \* [Devices -> changes it has read]
    reqs

data == <<alive, applied, creator, claimed>>
sockets == <<sock, joined, wanted, pending, overtaken>>
notifyVars == <<data, sockets, told, seen, reqs>>

-----------------------------------------------------------------------------
\* Mutated forms of definitions below.
TableOnly == Customers
StaysInRoom(d) ==
    /\ sock[d] = "on"
    /\ wanted' = wanted \ {d}
    /\ UNCHANGED <<data, sock, joined, pending, overtaken, told, seen, reqs>>

-----------------------------------------------------------------------------
\* realtimeRoom.table, and both rooms.
CartAudience == Customers
OrderAudience == Customers \cup Consoles

Interest(doc) == IF doc = "cart" THEN Customers ELSE Customers \cup Consoles

New == [pc |-> "new", device |-> None, socket |-> FALSE,
        doc |-> "cart", key |-> None]

NotifyInit ==
    /\ alive = TRUE
    /\ applied = {} /\ claimed = {}
    /\ creator = [k \in Keys |-> None]
    /\ sock = [d \in Devices |-> "off"]
    /\ joined = {} /\ wanted = {} /\ overtaken = {} /\ told = {}
    /\ pending = [d \in Consoles |-> 0]
    /\ seen = [d \in Devices |-> {}]
    /\ reqs = [r \in Calls |-> New]

(***************************************************************************)
(* Sockets                                                                 *)
(***************************************************************************)
\* The access token is valid (the consoles have one), or the customer's
\* session is found.
Authenticated(d) == d \in Customers => alive

\* The handshake is let pass and the socket connects.
HandleConnection(d) ==
    /\ sock[d] = "off"
    /\ Authenticated(d)
    /\ sock' = [sock EXCEPT ![d] = "on"]
    /\ IF d \in Customers
       THEN joined' = joined \cup {d} /\ told' = told \cup {d}
       ELSE UNCHANGED <<joined, told>>
    /\ UNCHANGED <<data, wanted, pending, overtaken, seen, reqs>>

\* It waits for ownsStore; messages that come later do not wait for it.
SubscribeAdmin(d) ==
    /\ sock[d] = "on" /\ pending[d] < MaxPending
    /\ wanted' = wanted \cup {d}
    /\ pending' = [pending EXCEPT ![d] = @ + 1]
    /\ UNCHANGED <<data, sock, joined, overtaken, told, seen, reqs>>

JoinAdmins(d) ==
    /\ pending[d] > 0
    /\ pending' = [pending EXCEPT ![d] = @ - 1]
    /\ joined' = joined \cup {d}
    /\ told' = told \cup {d}
    /\ UNCHANGED <<data, sock, wanted, overtaken, seen, reqs>>

\* What a device outside its room shows does not matter: it reads before it
\* counts again.
Leaves(d) ==
    /\ joined' = joined \ {d} /\ told' = told \ {d}
    /\ seen' = [seen EXCEPT ![d] = {}]

UnsubscribeAdmin(d) ==
    /\ sock[d] = "on"
    /\ Leaves(d)
    /\ wanted' = wanted \ {d}
    /\ overtaken' = IF pending[d] > 0 THEN overtaken \cup {d}
                                      ELSE overtaken \ {d}
    /\ UNCHANGED <<data, sock, pending, told, seen, reqs>>

\* A new socket will have another name than the one the requests give.
Disconnect(d) ==
    /\ sock[d] # "off"
    /\ sock' = [sock EXCEPT ![d] = "off"]
    /\ Leaves(d) /\ wanted' = wanted \ {d}
    /\ overtaken' = overtaken \ {d}
    /\ pending' = [c \in Consoles |-> IF c = d THEN 0 ELSE pending[c]]
    /\ reqs' = [r \in Calls |->
           IF reqs[r].device = d THEN [reqs[r] EXCEPT !.socket = FALSE]
                                 ELSE reqs[r]]
    /\ UNCHANGED data

(***************************************************************************)
(* The handlers: a change, the event, the answer.  The header socket-id    *)
(* names the socket that the device has when it sends the request: the     *)
(* field "socket" says that there was one, and still is.                   *)
(***************************************************************************)
Arrives(r, d, doc, key, pc) ==
    /\ reqs[r].pc = "new"
    /\ reqs' = [reqs EXCEPT ![r] =
           [pc |-> pc, device |-> d, doc |-> doc, key |-> key,
            socket |-> sock[d] = "on"]]
    /\ UNCHANGED <<alive, sockets, told, seen>>

Commits(r, doc) ==
    applied' = applied \cup {<<r, doc>>} /\ UNCHANGED <<creator, claimed>>

\* addItem, updateItem, removeItem and clearCart
ChangeCart(r, d) ==
    /\ d \in Customers /\ alive
    /\ Commits(r, "cart")
    /\ Arrives(r, d, "cart", None, "settled")

CancelOwnOrder(r, d) ==
    /\ d \in Customers /\ alive
    /\ Commits(r, "orders")
    /\ Arrives(r, d, "orders", None, "settled")

\* An owner changes or cancels an order.
ChangeOrder(r, d) ==
    /\ d \in Consoles
    /\ Commits(r, "orders")
    /\ Arrives(r, d, "orders", None, "settled")

CreateOrder(r, d) ==
    /\ d \in Consoles
    /\ Commits(r, "orders")
    /\ Arrives(r, d, "orders", None, "settled")

\* An item is changed or removed; the order may be cancelled with the last.
ChangeItem(r, d) ==
    /\ d \in Consoles
    /\ Commits(r, "orders")
    /\ Arrives(r, d, "orders", None, "settled")

\* This handler emits nothing.
AddOrderItem(r, d) ==
    /\ d \in Consoles
    /\ Commits(r, "orders")
    /\ Arrives(r, d, "orders", None, "silent")

\* createOrderByCustomer: the order is there, the cart is not settled yet.
PlaceOrder(r, d, k) ==
    /\ d \in Customers /\ alive
    /\ creator[k] = None
    /\ creator' = [creator EXCEPT ![k] = r]
    /\ applied' = applied \cup {<<r, "orders">>}
    /\ UNCHANGED claimed
    /\ Arrives(r, d, "orders", k, "placed")

FindOrder(r, d, k) ==
    /\ d \in Customers /\ alive
    /\ creator[k] # None
    /\ UNCHANGED <<applied, creator, claimed>>
    /\ Arrives(r, d, "orders", k, "placed")

Goes(r, pc) == reqs' = [reqs EXCEPT ![r].pc = pc]

Ends(r, pc) == reqs' = [reqs EXCEPT ![r] = [New EXCEPT !.pc = pc, !.key = reqs[r].key]]

\* removeOrderedItems, for the first that claims the key.
RemoveOrderedItems(r) ==
    LET k == reqs[r].key
    IN  /\ reqs[r].pc = "placed"
        /\ applied' = IF k \in claimed THEN applied
                      ELSE applied \cup {<<r, "cart">>}
        /\ claimed' = claimed \cup {k}
        /\ Goes(r, IF creator[k] = r THEN "settled" ELSE "answer")
        /\ UNCHANGED <<alive, creator, sockets, told, seen>>

Broadcast(r, audience) ==
    told' = told \cup {d \in joined \cap audience :
                          d # reqs[r].device \/ ~reqs[r].socket}

Emit(r) ==
    /\ reqs[r].pc = "settled"
    /\ Broadcast(r, IF reqs[r].doc = "cart" THEN CartAudience ELSE OrderAudience)
    /\ reqs' = [reqs EXCEPT ![r].pc = "answer", ![r].socket = FALSE]
    /\ UNCHANGED <<data, sockets, seen>>

Respond(r) ==
    /\ reqs[r].pc \in {"answer", "silent"}
    /\ told' = told \cup (joined \cap {reqs[r].device})
    /\ Ends(r, IF reqs[r].pc = "answer" THEN "done" ELSE "unsaid")
    /\ UNCHANGED <<data, sockets, seen>>

\* The server dies before it has emitted, or the cart's lock is not to be
\* had; or the answer is lost.
Fails(r) ==
    /\ \/ /\ reqs[r].pc \in {"placed", "settled", "silent"}
          /\ Ends(r, "unsaid")
       \/ /\ reqs[r].pc = "answer"
          /\ Goes(r, "lost")
    /\ UNCHANGED <<data, sockets, told, seen>>

(***************************************************************************)
(* Devices and the session                                                 *)
(***************************************************************************)
Read(d) ==
    /\ d \in told
    /\ d \in Customers => alive
    /\ told' = told \ {d}
    /\ seen' = [seen EXCEPT ![d] = {c \in applied : d \in Interest(c[2])}]
    /\ UNCHANGED <<data, sockets, reqs>>

EndSession ==
    /\ alive
    /\ alive' = FALSE
    /\ UNCHANGED <<applied, creator, claimed, sockets, told, seen, reqs>>

NotifyNext ==
    \/ \E d \in Devices :
          HandleConnection(d) \/ Disconnect(d) \/ Read(d)
    \/ \E d \in Consoles :
          SubscribeAdmin(d) \/ JoinAdmins(d) \/ UnsubscribeAdmin(d)
    \/ \E r \in Calls, d \in Devices :
          \/ ChangeCart(r, d) \/ CancelOwnOrder(r, d)
          \/ ChangeOrder(r, d) \/ CreateOrder(r, d)
          \/ ChangeItem(r, d) \/ AddOrderItem(r, d)
          \/ \E k \in Keys : PlaceOrder(r, d, k) \/ FindOrder(r, d, k)
    \/ \E r \in Calls :
          RemoveOrderedItems(r) \/ Emit(r) \/ Respond(r) \/ Fails(r)
    \/ EndSession

NotifySpec == NotifyInit /\ [][NotifyNext]_notifyVars

-----------------------------------------------------------------------------
States == {"new", "placed", "settled", "silent", "answer", "done", "lost",
           "unsaid"}

NotifyTypeOK ==
    /\ alive \in BOOLEAN
    /\ applied \subseteq Calls \X {"cart", "orders"}
    /\ creator \in [Keys -> Calls \cup {None}] /\ claimed \subseteq Keys
    /\ sock \in [Devices -> {"off", "on"}]
    /\ joined \subseteq Devices /\ told \subseteq Devices
    /\ wanted \subseteq Consoles /\ overtaken \subseteq Consoles
    /\ pending \in [Consoles -> Nat]
    /\ seen \in [Devices -> SUBSET (Calls \X {"cart", "orders"})]
    /\ reqs \in [Calls -> [pc : States, device : Devices \cup {None},
                              doc : {"cart", "orders"},
                              key : Keys \cup {None}, socket : BOOLEAN]]

\* The request whose event is to tell of a change: a customer's order that is
\* found there leaves that to the request that created it.
Announcer(r) ==
    IF reqs[r].key = None THEN r ELSE creator[reqs[r].key]

\* Whoever is in its room and shows something old is about to read, unless
\* the event is still to come or never will (its request has failed after the
\* commit, or added an item), or the device made the change itself and its
\* answer is to come or lost.  A retry that finds the order, a double tap
\* that settles the cart in the first one's place, a reconnection between
\* the request and the event: none of them leaves a screen behind.
EveryoneIsTold ==
    \A d \in joined, c \in applied :
        LET a == Announcer(c[1])
        IN  \/ d \notin Interest(c[2])
            \/ c \in seen[d]
            \/ d \in told
            \/ reqs[a].pc \in {"placed", "settled", "silent", "unsaid"}
            \/ reqs[a].device = d /\ reqs[a].pc \in {"answer", "lost"}

\* With no subscription under way a console that wants the store's events is
\* in its room, and one that does not is not, unless an unsubscription was
\* handled while a subscription before it was waiting for the database.
RoomsAsWanted ==
    \A d \in Consoles : sock[d] = "on" /\ pending[d] = 0 =>
        /\ d \in wanted => d \in joined
        /\ d \in joined => d \in wanted \/ d \in overtaken
=============================================================================

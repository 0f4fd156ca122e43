------------------------ MODULE OrderLifecycleProofs ------------------------
(***************************************************************************)
(* Proofs about OrderLifecycle, for every number of orders, items and      *)
(* concurrent requests.                                                    *)
(***************************************************************************)
EXTENDS OrderLifecycle, TLAPS

(* Every request record is idle or was made by one of the actions.  *)
LEMMA IdleType == Idle \in RequestState
BY DEF Idle, RequestState, FreshOrder, OrderRow, Phases, Operations, NoStatus,
       OrderStatus, Progress, Stamps

(* The rank orders the statuses strictly, and a forward step climbs it.  *)
LEMMA RankFacts ==
  /\ \A s \in OrderStatus : Rank[s] \in 0..4
  /\ \A s, t \in OrderStatus : Rank[s] = Rank[t] => s = t
  /\ \A s, t \in OrderStatus : IsForward(s, t) => Rank[s] < Rank[t]
BY DEF Rank, OrderStatus, Progress, IsForward

(* The row an update writes is a row.  *)
LEMMA StampedType ==
  ASSUME NEW row \in OrderRow, NEW snap \in OrderRow, NEW next \in OrderStatus,
         NEW r \in Requests
  PROVE  /\ Stamped(row, snap, next, r) \in OrderRow
         /\ Stamped(row, snap, next, r).status = next
BY DEF Stamped, OrderRow, Stamps

-----------------------------------------------------------------------------
(* Requests refer to rows of the right kind.  *)
Targets ==
  /\ \A i \in Items : items[i].state = "live" => items[i].order \in Orders
  /\ \A r \in Requests :
      /\ req[r].pc \in {"read", "write"} /\ req[r].op \in {"status", "addItem"}
           => req[r].order \in Orders
      /\ req[r].pc \in {"read", "write"} /\ req[r].op \in {"editItem", "deleteItem"}
           => req[r].item \in Items
      /\ req[r].pc = "conflict" => req[r].order \in Orders
      /\ req[r].pc \in {"lock", "delete", "commit"}
           => /\ req[r].order \in Orders /\ req[r].item \in Items
              /\ items[req[r].item].state # "unborn"
              /\ items[req[r].item].order = req[r].order

(* TypeOK alone is not inductive: a request must also aim at existing rows.  *)
Typed == TypeOK /\ Targets

\* The types hold at the start.
LEMMA TypedInit == Init => Typed
<1> SUFFICES ASSUME Init PROVE Typed
  OBVIOUS
<1>1. orders \in [Orders -> OrderRow]
  BY DEF Init, FreshOrder, OrderRow, OrderStatus, Progress, Stamps
<1>2. items \in [Items -> ItemRow]
  BY DEF Init, ItemRow
<1>3. req \in [Requests -> RequestState]
  BY IdleType DEF Init
<1>4. Targets
  BY DEF Init, Idle, Targets
<1> QED
  BY <1>1, <1>2, <1>3, <1>4 DEF Init, Typed, TypeOK, SessionStatus

\* Every step keeps the types.
LEMMA TypedStep == Typed /\ [Next]_vars => Typed'
<1> SUFFICES ASSUME Typed, [Next]_vars PROVE Typed'
  OBVIOUS
<1> USE DEF Typed, TypeOK
<1>idle. \A r \in Requests, pc \in Phases :
           /\ [Idle EXCEPT !.pc = pc] \in RequestState
           /\ [Idle EXCEPT !.pc = pc].pc = pc
  BY IdleType DEF RequestState, Idle
<1>goto. ASSUME NEW r \in Requests, NEW pc \in Phases, Goto(r, pc)
         PROVE  req' \in [Requests -> RequestState]
  BY <1>goto DEF Goto, RequestState
<1>answer. ASSUME NEW r \in Requests, NEW pc \in {"ok", "rejected"},
                  Answer(r, pc), items' = items
           PROVE  /\ req' \in [Requests -> RequestState]
                  /\ Targets'
  <2>1. pc \in Phases
    BY DEF Phases
  <2>2. req' \in [Requests -> RequestState]
    BY <1>answer, <1>idle, <2>1 DEF Answer
  <2>3. \A s \in Requests : s # r => req'[s] = req[s]
    BY <1>answer DEF Answer
  <2>4. req'[r].pc = pc
    BY <1>answer, <1>idle, <2>1 DEF Answer
  <2> QED
    BY <1>answer, <2>2, <2>3, <2>4 DEF Targets
<1>moves. ASSUME NEW r \in Requests, NEW q \in RequestState,
                 req' = [req EXCEPT ![r] = q], items' = items,
                 q.pc \in {"read", "write"} /\ q.op \in {"status", "addItem"}
                   => q.order \in Orders,
                 q.pc \in {"read", "write"} /\ q.op \in {"editItem", "deleteItem"}
                   => q.item \in Items,
                 q.pc = "conflict" => q.order \in Orders,
                 q.pc \in {"lock", "delete", "commit"}
                   => /\ q.order \in Orders /\ q.item \in Items
                      /\ items[q.item].state # "unborn"
                      /\ items[q.item].order = q.order
          PROVE  /\ req' \in [Requests -> RequestState]
                 /\ Targets'
  BY <1>moves DEF Targets
<1>1. CASE UNCHANGED vars
  BY <1>1 DEF vars, Targets
<1>2. CASE CloseSession \/ ReactivateSession
  BY <1>2 DEF CloseSession, ReactivateSession, Targets, SessionStatus
<1>3. ASSUME NEW r \in Requests, StartStatus(r) PROVE Typed'
  <2>1. PICK o \in Orders, next \in OrderStatus \cup {NoStatus} :
          req' = [req EXCEPT ![r] = [Idle EXCEPT !.pc = "read", !.op = "status",
                                                 !.order = o, !.next = next]]
    BY <1>3 DEF StartStatus
  <2> DEFINE q == [Idle EXCEPT !.pc = "read", !.op = "status", !.order = o, !.next = next]
  <2>2. /\ q \in RequestState /\ q.pc = "read" /\ q.op = "status" /\ q.order = o
    BY IdleType DEF RequestState, Idle, Phases, Operations
  <2> QED
    BY <1>3, <1>moves, <2>1, <2>2 DEF StartStatus
<1>4. ASSUME NEW r \in Requests, StartAddItem(r) PROVE Typed'
  <2>1. PICK o \in Orders :
          req' = [req EXCEPT ![r] = [Idle EXCEPT !.pc = "read", !.op = "addItem",
                                                 !.order = o]]
    BY <1>4 DEF StartAddItem
  <2> DEFINE q == [Idle EXCEPT !.pc = "read", !.op = "addItem", !.order = o]
  <2>2. /\ q \in RequestState /\ q.pc = "read" /\ q.op = "addItem" /\ q.order = o
    BY IdleType DEF RequestState, Idle, Phases, Operations
  <2> QED
    BY <1>4, <1>moves, <2>1, <2>2 DEF StartAddItem
<1>5. ASSUME NEW r \in Requests, StartItem(r) PROVE Typed'
  <2>1. PICK op \in {"editItem", "deleteItem"}, i \in Items :
          req' = [req EXCEPT ![r] = [Idle EXCEPT !.pc = "read", !.op = op, !.item = i]]
    BY <1>5 DEF StartItem
  <2> DEFINE q == [Idle EXCEPT !.pc = "read", !.op = op, !.item = i]
  <2>2. /\ q \in RequestState /\ q.pc = "read" /\ q.op = op /\ q.item = i
    BY IdleType DEF RequestState, Idle, Phases, Operations
  <2> QED
    BY <1>5, <1>moves, <2>1, <2>2 DEF StartItem
<1>6. ASSUME NEW r \in Requests, ReadForStatus(r) PROVE Typed'
  <2>1. req[r].order \in Orders
    BY <1>6 DEF ReadForStatus, Targets
  <2>2. CASE Answer(r, "rejected")
    BY <1>6, <1>answer, <2>2 DEF ReadForStatus
  <2>3. CASE ~Answer(r, "rejected")
    <3> DEFINE q == [req[r] EXCEPT !.pc = "write", !.snap = orders[req[r].order],
                       !.first = IF req[r].attempt = 0
                                   THEN orders[req[r].order].status ELSE @]
    <3>1. req' = [req EXCEPT ![r] = q]
      BY <1>6, <2>3 DEF ReadForStatus
    <3>2. q \in RequestState /\ q.pc = "write" /\ q.op = "status"
            /\ q.order = req[r].order
      BY <1>6, <2>1, ZenonT(60) DEF ReadForStatus, RequestState, Phases, OrderRow
    <3> QED
      BY <1>6, <1>moves, <2>1, <3>1, <3>2 DEF ReadForStatus
  <2> QED
    BY <2>2, <2>3
<1>7. ASSUME NEW r \in Requests, CasSucceeds(r) PROVE Typed'
  <2>1. orders' \in [Orders -> OrderRow]
    <3>1. req[r].order \in Orders /\ req[r].snap \in OrderRow
      BY <1>7 DEF CasSucceeds, Targets, RequestState
    <3>2. CASE req[r].next = NoStatus
      BY <1>7, <3>2 DEF CasSucceeds
    <3>3. CASE req[r].next # NoStatus
      <4>1. req[r].next \in OrderStatus
        BY <3>3 DEF RequestState
      <4> QED
        BY <1>7, <3>1, <3>3, <4>1, StampedType DEF CasSucceeds
    <3> QED
      BY <3>2, <3>3
  <2> QED
    BY <1>7, <1>answer, <2>1 DEF CasSucceeds
<1>8. ASSUME NEW r \in Requests, CasFails(r) PROVE Typed'
  <2>1. req[r].order \in Orders
    BY <1>8 DEF CasFails, Targets
  <2>2. CASE MayRetry(r)
    <3> DEFINE q == [req[r] EXCEPT !.pc = "read", !.attempt = @ + 1]
    <3>1. q \in RequestState /\ q.pc = "read" /\ q.op = "status" /\ q.order = req[r].order
      BY <1>8, <2>2 DEF CasFails, MayRetry, RequestState, Phases
    <3> QED
      BY <1>8, <1>moves, <2>1, <2>2, <3>1 DEF CasFails
  <2>3. CASE ~MayRetry(r)
    <3> DEFINE q == [req[r] EXCEPT !.pc = "conflict"]
    <3>1. q \in RequestState /\ q.pc = "conflict" /\ q.order = req[r].order
      BY DEF RequestState, Phases
    <3> QED
      BY <1>8, <1>moves, <2>1, <2>3, <3>1 DEF CasFails
  <2> QED
    BY <2>2, <2>3
<1>9. ASSUME NEW r \in Requests, ReadForAdd(r) PROVE Typed'
  <2>1. CASE Answer(r, "rejected")
    BY <1>9, <1>answer, <2>1 DEF ReadForAdd
  <2>2. CASE Goto(r, "write")
    <3> DEFINE q == [req[r] EXCEPT !.pc = "write"]
    <3>1. /\ q \in RequestState /\ q.pc = "write" /\ q.op = "addItem"
          /\ q.order = req[r].order /\ q.order \in Orders
      BY <1>9 DEF ReadForAdd, RequestState, Phases, Targets
    <3> QED
      BY <1>9, <1>moves, <2>2, <3>1 DEF ReadForAdd, Goto
  <2> QED
    BY <1>9, <2>1, <2>2 DEF ReadForAdd
<1>10. ASSUME NEW r \in Requests, InsertItem(r) PROVE Typed'
  <2>1. PICK i \in Items, n \in Quantities :
          /\ items[i].state = "unborn"
          /\ items' = [items EXCEPT ![i] = [state |-> "live", quantity |-> n,
                                            order |-> req[r].order]]
    BY <1>10 DEF InsertItem
  <2>2. req[r].order \in Orders
    BY <1>10 DEF InsertItem, Targets
  <2>3. items' \in [Items -> ItemRow]
    BY <2>1, <2>2 DEF ItemRow
  <2>4. req' \in [Requests -> RequestState]
    BY <1>10, <1>idle DEF InsertItem, Answer, Phases
  <2>5. Targets'
    <3>1. \A j \in Items : /\ items[j].state # "unborn" => items'[j] = items[j]
                           /\ items'[j].state = "live" => items'[j].order \in Orders
      <4>1. \A j \in Items \ {i} : items'[j] = items[j]
        BY <2>1
      <4>2. items'[i].state = "live" /\ items'[i].order = req[r].order
        BY <2>1
      <4> QED
        BY <2>1, <2>2, <4>1, <4>2 DEF Targets
    <3>2. \A s \in Requests : s # r => req'[s] = req[s]
      BY <1>10 DEF InsertItem, Answer
    <3>3. req'[r].pc = "ok"
      BY <1>10, <1>idle DEF InsertItem, Answer, Phases
    <3>4. \A j \in Items : items'[j].state = "live" => items'[j].order \in Orders
      BY <3>1 DEF Targets
    <3>5. ASSUME NEW s \in Requests, s # r
          PROVE  req'[s].pc \in {"lock", "delete", "commit"}
                   => /\ req'[s].order \in Orders /\ req'[s].item \in Items
                      /\ items'[req'[s].item].state # "unborn"
                      /\ items'[req'[s].item].order = req'[s].order
      BY <3>1, <3>2, <3>5 DEF Targets
    <3> QED
      BY <3>2, <3>3, <3>4, <3>5 DEF Targets
  <2> QED
    BY <1>10, <2>3, <2>4, <2>5 DEF InsertItem
<1>11. ASSUME NEW r \in Requests, MenuRefused(r) PROVE Typed'
  BY <1>11, <1>answer DEF MenuRefused
<1>12. ASSUME NEW r \in Requests, ReadForItem(r) PROVE Typed'
  <2>1. CASE Answer(r, "rejected")
    BY <1>12, <1>answer, <2>1 DEF ReadForItem
  <2>2. CASE ~Answer(r, "rejected")
    <3> DEFINE o == items[req[r].item].order
               q == [req[r] EXCEPT !.order = o,
                                   !.pc = IF req[r].op = "editItem"
                                            THEN "write" ELSE "lock"]
    <3>1. /\ req' = [req EXCEPT ![r] = q] /\ req[r].item \in Items
          /\ items[req[r].item].state = "live"
          /\ req[r].op \in {"editItem", "deleteItem"}
          /\ UNCHANGED <<orders, items, session, rowLock>>
      BY <1>12, <2>2 DEF ReadForItem, Targets
    <3>2. o \in Orders \cup {Null}
      BY <3>1 DEF ItemRow
    <3>3. o \in Orders
      BY <3>1 DEF Targets
    <3>4. /\ q \in RequestState /\ q.pc \in {"write", "lock"} /\ q.op = req[r].op
          /\ q.item = req[r].item /\ q.order = o
      BY <3>1, <3>2, ZenonT(60) DEF RequestState, Phases
    <3>5. q.pc = "write" => q.op = "editItem"
      BY <3>1, <3>4 DEF RequestState
    <3>6. /\ req' \in [Requests -> RequestState]
          /\ Targets'
      BY <1>moves, <3>1, <3>3, <3>4, <3>5
    <3> QED
      BY <3>1, <3>6
  <2> QED
    BY <2>1, <2>2
<1>13. ASSUME NEW r \in Requests, EditItem(r) PROVE Typed'
  <2>1. CASE items[req[r].item].state # "live"
    BY <1>13, <1>answer, <2>1 DEF EditItem
  <2>2. CASE items[req[r].item].state = "live"
    <3>1. PICK n \in Quantities : items' = [items EXCEPT ![req[r].item].quantity = n]
      BY <1>13, <2>2 DEF EditItem
    <3>2. items' \in [Items -> ItemRow]
      BY <3>1 DEF ItemRow
    <3>3. \A j \in Items : /\ items'[j].state = items[j].state
                           /\ items'[j].order = items[j].order
      BY <3>1 DEF ItemRow
    <3>4. req' \in [Requests -> RequestState]
      BY <1>13, <2>2, <1>idle DEF EditItem, Answer, Phases
    <3>5. \A s \in Requests : s # r => req'[s] = req[s]
      BY <1>13, <2>2 DEF EditItem, Answer
    <3>6. req'[r].pc = "ok"
      BY <1>13, <2>2, <1>idle DEF EditItem, Answer, Phases
    <3>7. Targets'
      BY <3>3, <3>5, <3>6 DEF Targets
    <3> QED
      BY <1>13, <3>2, <3>4, <3>7 DEF EditItem
  <2> QED
    BY <2>1, <2>2
<1>14. ASSUME NEW r \in Requests, LockOrder(r) PROVE Typed'
  <2> DEFINE q == [req[r] EXCEPT !.pc = "delete"]
  <2>1. /\ q \in RequestState /\ q.pc = "delete"
        /\ q.order = req[r].order /\ q.item = req[r].item
    BY DEF RequestState, Phases
  <2>2. /\ req[r].order \in Orders /\ req[r].item \in Items
        /\ items[req[r].item].state # "unborn"
        /\ items[req[r].item].order = req[r].order
    BY <1>14 DEF LockOrder, Targets
  <2> QED
    BY <1>14, <1>moves, <2>1, <2>2 DEF LockOrder, Goto
<1>15. ASSUME NEW r \in Requests, DeleteAndCount(r) PROVE Typed'
  <2>1. rowLock' \in [Orders -> Requests \cup {Null}]
    BY <1>15 DEF DeleteAndCount
  <2>2. CASE items[req[r].item].state # "live"
    BY <1>15, <1>answer, <2>1, <2>2 DEF DeleteAndCount
  <2>3. CASE items[req[r].item].state = "live"
    <3> DEFINE q == [req[r] EXCEPT !.pc = "commit",
                                   !.last = RowsOf(req[r].order) \ {req[r].item} = {}]
    <3>1. /\ q \in RequestState /\ q.pc = "commit"
          /\ q.order = req[r].order /\ q.item = req[r].item
      BY ZenonT(60) DEF RequestState, Phases
    <3>2. /\ req[r].order \in Orders /\ req[r].item \in Items
          /\ items[req[r].item].order = req[r].order
      BY <1>15 DEF DeleteAndCount, Targets
    <3>3. req' = [req EXCEPT ![r] = q]
      BY <1>15, <2>3 DEF DeleteAndCount
    <3> QED
      BY <1>15, <1>moves, <2>1, <2>3, <3>1, <3>2, <3>3 DEF DeleteAndCount
  <2> QED
    BY <2>2, <2>3
<1>16. ASSUME NEW r \in Requests, CommitDelete(r) PROVE Typed'
  <2>1. orders' \in [Orders -> OrderRow]
    BY <1>16, ZenonT(60) DEF CommitDelete, OrderRow, OrderStatus
  <2>2. items' \in [Items -> ItemRow]
    BY <1>16 DEF CommitDelete, ItemRow
  <2>3. rowLock' \in [Orders -> Requests \cup {Null}]
    BY <1>16 DEF CommitDelete
  <2>4. req' \in [Requests -> RequestState]
    BY <1>16, <1>idle DEF CommitDelete, Answer, Phases
  <2>5. Targets'
    <3>1. \A j \in Items : /\ items'[j].order = items[j].order
                           /\ items[j].state # "unborn" => items'[j].state # "unborn"
                           /\ items'[j].state = "live" => items[j].state = "live"
      BY <1>16 DEF CommitDelete, ItemRow
    <3>2. \A s \in Requests : s # r => req'[s] = req[s]
      BY <1>16 DEF CommitDelete, Answer
    <3>3. req'[r].pc = "ok"
      BY <1>16, <1>idle DEF CommitDelete, Answer, Phases
    <3>4. \A j \in Items : items'[j].state = "live" => items'[j].order \in Orders
      BY <3>1 DEF Targets
    <3>5. ASSUME NEW s \in Requests, s # r
          PROVE  req'[s].pc \in {"lock", "delete", "commit"}
                   => /\ req'[s].order \in Orders /\ req'[s].item \in Items
                      /\ items'[req'[s].item].state # "unborn"
                      /\ items'[req'[s].item].order = req'[s].order
      BY <3>1, <3>2, <3>5 DEF Targets
    <3> QED
      BY <3>2, <3>3, <3>4, <3>5 DEF Targets
  <2> QED
    BY <1>16, <2>1, <2>2, <2>3, <2>4, <2>5 DEF CommitDelete
<1>17. ASSUME NEW r \in Requests, AbortDelete(r) PROVE Typed'
  <2>1. rowLock' \in [Orders -> Requests \cup {Null}]
    BY <1>17 DEF AbortDelete
  <2> QED
    BY <1>17, <1>answer, <2>1 DEF AbortDelete
<1> QED
  BY <1>1, <1>2, <1>3, <1>4, <1>5, <1>6, <1>7, <1>8, <1>9, <1>10, <1>11, <1>12,
     <1>13, <1>14, <1>15, <1>16, <1>17 DEF Next, Start, Step

(* The type invariant of OrderLifecycle, whatever the numbers of orders,     *)
(* items and requests.                                                       *)
THEOREM TypeCorrect == Spec => []TypeOK
<1>1. Typed => TypeOK
  BY DEF Typed
<1> QED
  BY TypedInit, TypedStep, <1>1, PTL DEF Spec

-----------------------------------------------------------------------------
(* What an update knows about the row it is about to write: the row has only *)
(* moved up since it was read, and if it has not moved it is the row read.   *)
Validated ==
  \A r \in Requests : req[r].pc = "write" /\ req[r].op = "status" =>
    /\ req[r].snap.status # "CANCELLED"
    /\ req[r].next # NoStatus => IsForward(req[r].snap.status, req[r].next)
    /\ Rank[req[r].snap.status] <= Rank[orders[req[r].order].status]
    /\ req[r].snap.status = orders[req[r].order].status
         => req[r].snap = orders[req[r].order]

(* How a row may differ after a step.  *)
RowMoves(old, new) ==
  \/ new = old
  \/ \E next \in OrderStatus, r \in Requests :
       IsForward(old.status, next) /\ new = Stamped(old, old, next, r)

(* A step leaves an order alone or takes it forward, stamping the row as it  *)
(* is at that moment, although the update was computed from an earlier read. *)
LEMMA OrdersMove ==
  ASSUME Typed, Validated, [Next]_vars
  PROVE  \A o \in Orders : RowMoves(orders[o], orders'[o])
<1> USE DEF Typed, TypeOK
<1>1. ASSUME UNCHANGED orders PROVE \A o \in Orders : RowMoves(orders[o], orders'[o])
  BY <1>1 DEF RowMoves
<1>2. ASSUME NEW r \in Requests, CasSucceeds(r)
      PROVE  \A o \in Orders : RowMoves(orders[o], orders'[o])
  <2> DEFINE o == req[r].order
  <2>1. o \in Orders
    BY <1>2 DEF CasSucceeds, Targets
  <2>2. req[r].snap = orders[o]
    BY <1>2 DEF CasSucceeds, StatusMatches, Validated
  <2>3. CASE req[r].next = NoStatus
    BY <1>1, <1>2, <2>3 DEF CasSucceeds
  <2>4. CASE req[r].next # NoStatus
    <3>1. req[r].next \in OrderStatus
      BY <2>4 DEF RequestState
    <3>2. IsForward(orders[o].status, req[r].next)
      BY <1>2, <2>2, <2>4 DEF CasSucceeds, Validated
    <3>3. orders' = [orders EXCEPT ![o] = Stamped(orders[o], orders[o], req[r].next, r)]
      BY <1>2, <2>1, <2>2, <2>4 DEF CasSucceeds
    <3> QED
      BY <2>1, <3>1, <3>2, <3>3 DEF RowMoves
  <2> QED
    BY <2>3, <2>4
<1>3. ASSUME NEW r \in Requests, CommitDelete(r)
      PROVE  \A o \in Orders : RowMoves(orders[o], orders'[o])
  <2> DEFINE o == req[r].order
             cancelled == [orders[o] EXCEPT !.status = "CANCELLED"]
  <2>1. o \in Orders
    BY <1>3 DEF CommitDelete, Targets
  <2>2. orders[o] \in OrderRow
    BY <2>1
  <2>3. CASE ~req[r].last
    BY <1>1, <1>3, <2>3 DEF CommitDelete
  <2>4. CASE req[r].last
    <3>1. orders' = [orders EXCEPT ![o] = cancelled]
      BY <1>3, <2>4 DEF CommitDelete
    <3>2. orders[o].status = "CANCELLED" => cancelled = orders[o]
      BY <2>2 DEF OrderRow
    <3>3. cancelled = Stamped(orders[o], orders[o], "CANCELLED", r)
      BY <2>2 DEF OrderRow, Stamped
    <3>4. orders[o].status # "CANCELLED" => IsForward(orders[o].status, "CANCELLED")
      BY DEF IsForward
    <3>5. "CANCELLED" \in OrderStatus
      BY DEF OrderStatus
    <3> QED
      BY <2>1, <3>1, <3>2, <3>3, <3>4, <3>5 DEF RowMoves
  <2> QED
    BY <2>3, <2>4
<1>4. CASE UNCHANGED vars
  BY <1>1, <1>4 DEF vars
<1>5. CASE CloseSession \/ ReactivateSession
  BY <1>1, <1>5 DEF CloseSession, ReactivateSession
<1>6. ASSUME NEW r \in Requests, Start(r) PROVE UNCHANGED orders
  BY <1>6 DEF Start, StartStatus, StartAddItem, StartItem
<1>7. ASSUME NEW r \in Requests, Step(r), ~CasSucceeds(r), ~CommitDelete(r)
      PROVE  UNCHANGED orders
  BY <1>7 DEF Step, ReadForStatus, CasFails, ReadForAdd, InsertItem, MenuRefused,
     ReadForItem, EditItem, LockOrder, DeleteAndCount, AbortDelete
<1> QED
  BY <1>1, <1>2, <1>3, <1>4, <1>5, <1>6, <1>7 DEF Next

(* A step that moves a row climbs the rank.  *)
LEMMA MovedUp ==
  ASSUME NEW old \in OrderRow, NEW new \in OrderRow, RowMoves(old, new), new # old
  PROVE  IsForward(old.status, new.status) /\ Rank[old.status] < Rank[new.status]
<1>1. PICK next \in OrderStatus, r \in Requests :
        IsForward(old.status, next) /\ new = Stamped(old, old, next, r)
  BY DEF RowMoves
<1>2. new.status = next
  BY <1>1, StampedType
<1>3. old.status \in OrderStatus
  BY DEF OrderRow
<1> QED
  BY <1>1, <1>2, <1>3, RankFacts

(* A forward move keeps the timestamps in step with the status, and keeps    *)
(* those that were there.                                                    *)
LEMMA MoveStamps ==
  ASSUME NEW old \in OrderRow, NEW new \in OrderRow, RowMoves(old, new), StampsOf(old)
  PROVE  /\ StampsOf(new)
         /\ old.acceptedAt # Null => new.acceptedAt = old.acceptedAt
         /\ old.completedAt # Null => new.completedAt = old.completedAt
<1>1. CASE new = old
  BY <1>1
<1>2. CASE new # old
  <2>1. PICK next \in OrderStatus, r \in Requests :
          IsForward(old.status, next) /\ new = Stamped(old, old, next, r)
    BY <1>2 DEF RowMoves
  <2>2. r # Null
    BY NullAssumption
  <2>3. next # "PENDING" /\ ~(old.status = "COMPLETED" /\ next = "COMPLETED")
    BY <2>1 DEF IsForward, Rank, OrderRow, OrderStatus, Progress
  <2>4. old.status # "CANCELLED"
    BY <2>1 DEF IsForward
  <2>5. /\ new.status = next
        /\ new.acceptedAt = IF next \in {"ACCEPTED", "PREPARING", "COMPLETED"}
                              THEN IF old.acceptedAt = Null THEN r ELSE old.acceptedAt
                              ELSE old.acceptedAt
        /\ new.completedAt = IF next = "COMPLETED" THEN r ELSE old.completedAt
    BY <2>1 DEF Stamped, OrderRow
  <2>6. old.status = "COMPLETED" => next = "CANCELLED"
    BY <2>1 DEF IsForward, Rank, OrderStatus, Progress
  <2> QED
    BY <2>2, <2>3, <2>4, <2>5, <2>6 DEF StampsOf, OrderStatus, Progress
<1> QED
  BY <1>1, <1>2

-----------------------------------------------------------------------------
(* A request's state is changed by its own steps alone.  *)
LEMMA OneMoves ==
  ASSUME Typed, [Next]_vars, NEW s \in Requests
  PROVE  req'[s] = req[s] \/ Start(s) \/ Step(s)
<1> USE DEF Typed, TypeOK
<1>1. CASE UNCHANGED vars \/ CloseSession \/ ReactivateSession
  BY <1>1 DEF vars, CloseSession, ReactivateSession
<1>2. ASSUME NEW r \in Requests, Start(r), r # s PROVE req'[s] = req[s]
  BY <1>2 DEF Start, StartStatus, StartAddItem, StartItem
<1>3. ASSUME NEW r \in Requests, Step(r), r # s PROVE req'[s] = req[s]
  BY <1>3 DEF Step, ReadForStatus, CasSucceeds, CasFails, ReadForAdd, InsertItem,
     MenuRefused, ReadForItem, EditItem, LockOrder, DeleteAndCount, CommitDelete,
     AbortDelete, Goto, Answer
<1> QED
  BY <1>1, <1>2, <1>3 DEF Next

(* A request that starts is about to read, for the first time.  *)
LEMMA Started ==
  ASSUME Typed, NEW r \in Requests, Start(r)
  PROVE  /\ req'[r].pc = "read" /\ req'[r].attempt = 0
         /\ \A s \in Requests : s # r => req'[s] = req[s]
         /\ UNCHANGED <<orders, items, session, rowLock>>
<1> USE DEF Typed, TypeOK
<1>1. CASE StartStatus(r)
  BY <1>1 DEF StartStatus, Idle
<1>2. CASE StartAddItem(r)
  BY <1>2 DEF StartAddItem, Idle
<1>3. CASE StartItem(r)
  BY <1>3 DEF StartItem, Idle
<1> QED
  BY <1>1, <1>2, <1>3 DEF Start

(* A request is ready to write a status only if it was, or has just read and *)
(* validated the order.                                                      *)
LEMMA WritesAfterRead ==
  ASSUME Typed, [Next]_vars, NEW s \in Requests,
         req'[s].pc = "write", req'[s].op = "status"
  PROVE  req'[s] = req[s] \/ ReadForStatus(s)
<1> USE DEF Typed, TypeOK
<1>1. ASSUME Start(s) PROVE req'[s].pc = "read"
  BY <1>1, Started
<1>2. ASSUME NEW pc \in {"ok", "rejected"}, Answer(s, pc) PROVE FALSE
  BY <1>2 DEF Answer, Idle
<1>3. ~CasSucceeds(s) /\ ~InsertItem(s) /\ ~MenuRefused(s) /\ ~EditItem(s)
      /\ ~CommitDelete(s) /\ ~AbortDelete(s)
  BY <1>2 DEF CasSucceeds, InsertItem, MenuRefused, EditItem, CommitDelete, AbortDelete
<1>4. ~CasFails(s)
  BY DEF CasFails, RequestState
<1>5. ~ReadForAdd(s)
  BY <1>2 DEF ReadForAdd, Goto, RequestState
<1>6. ~ReadForItem(s)
  BY <1>2 DEF ReadForItem, RequestState
<1>7. ~LockOrder(s) /\ ~DeleteAndCount(s)
  BY <1>2 DEF LockOrder, DeleteAndCount, Goto, RequestState
<1> QED
  BY <1>1, <1>3, <1>4, <1>5, <1>6, <1>7, OneMoves DEF Step

\* Every step keeps what the requests have validated.
LEMMA ValidatedStep ==
  ASSUME Typed, Typed', Validated, [Next]_vars
  PROVE  Validated'
<1> USE DEF Typed, TypeOK
<1> SUFFICES ASSUME NEW s \in Requests, req'[s].pc = "write", req'[s].op = "status"
             PROVE  /\ req'[s].snap.status # "CANCELLED"
                    /\ req'[s].next # NoStatus
                         => IsForward(req'[s].snap.status, req'[s].next)
                    /\ Rank[req'[s].snap.status] <= Rank[orders'[req'[s].order].status]
                    /\ req'[s].snap.status = orders'[req'[s].order].status
                         => req'[s].snap = orders'[req'[s].order]
  BY DEF Validated
<1> DEFINE o == req'[s].order
<1>1. o \in Orders
  BY DEF Targets
<1>2. RowMoves(orders[o], orders'[o])
  BY <1>1, OrdersMove
<1>3. orders[o] \in OrderRow /\ orders'[o] \in OrderRow
  BY <1>1
<1>4. /\ Rank[orders[o].status] \in 0..4 /\ Rank[orders'[o].status] \in 0..4
      /\ orders[o] # orders'[o] => Rank[orders[o].status] < Rank[orders'[o].status]
  BY <1>2, <1>3, RankFacts, MovedUp DEF OrderRow
<1>5. CASE req'[s] = req[s]
  <2>1. req[s].snap \in OrderRow /\ Rank[req[s].snap.status] \in 0..4
    BY RankFacts DEF RequestState, OrderRow
  <2> QED
    BY <1>3, <1>4, <1>5, <2>1 DEF Validated
<1>6. CASE ReadForStatus(s)
  <2>1. ~Answer(s, "rejected")
    BY DEF Answer, Idle
  <2>2. /\ req'[s].snap = orders[o] /\ orders' = orders /\ o = req[s].order
        /\ Writable(o) /\ req'[s].next = req[s].next
        /\ req[s].next # NoStatus => IsForward(orders[o].status, req[s].next)
    BY <1>6, <2>1 DEF ReadForStatus, RequestState
  <2> QED
    BY <1>4, <2>2 DEF Writable
<1> QED
  BY <1>5, <1>6, WritesAfterRead

-----------------------------------------------------------------------------
(* How far the order has moved since the request's first read of it.  *)
Overtaken ==
  /\ \A r \in Requests : req[r].op = "status" /\ req[r].attempt = 1 =>
       /\ req[r].pc = "read" =>
            Rank[req[r].first] < Rank[orders[req[r].order].status]
       /\ req[r].pc = "write" => Rank[req[r].first] < Rank[req[r].snap.status]
  /\ \A r \in Requests :
       req[r].op = "status" /\ req[r].attempt = 0 /\ req[r].pc = "write"
         => req[r].first = req[r].snap.status
  /\ GaveUpAfterTwoOvertakes

\* Every step keeps the account of who was overtaken.
LEMMA OvertakenStep ==
  ASSUME Typed, Typed', Validated, Overtaken, [Next]_vars
  PROVE  Overtaken'
<1> USE DEF Typed, TypeOK
<1>1. \A o \in Orders : /\ Rank[orders[o].status] \in 0..4
                        /\ Rank[orders'[o].status] \in 0..4
                        /\ Rank[orders[o].status] <= Rank[orders'[o].status]
  <2> SUFFICES ASSUME NEW o \in Orders
               PROVE  /\ Rank[orders[o].status] \in 0..4
                      /\ Rank[orders'[o].status] \in 0..4
                      /\ Rank[orders[o].status] <= Rank[orders'[o].status]
    OBVIOUS
  <2>1. orders[o] \in OrderRow /\ orders'[o] \in OrderRow
    OBVIOUS
  <2>2. RowMoves(orders[o], orders'[o])
    BY OrdersMove
  <2> QED
    BY <2>1, <2>2, RankFacts, MovedUp DEF OrderRow
<1>2. \A r \in Requests : /\ Rank[req[r].first] \in 0..4
                          /\ Rank[req[r].snap.status] \in 0..4
  BY RankFacts DEF RequestState, OrderRow
<1> DEFINE Fine(r) ==
      /\ req[r].op = "status" /\ req[r].attempt = 1 =>
           /\ req[r].pc = "read" =>
                Rank[req[r].first] < Rank[orders[req[r].order].status]
           /\ req[r].pc = "write" => Rank[req[r].first] < Rank[req[r].snap.status]
      /\ req[r].op = "status" /\ req[r].attempt = 0 /\ req[r].pc = "write"
           => req[r].first = req[r].snap.status
      /\ req[r].pc = "conflict" =>
           /\ Rank[req[r].first] < Rank[req[r].snap.status]
           /\ Rank[req[r].snap.status] < Rank[orders[req[r].order].status]
<1>3. SUFFICES ASSUME NEW s \in Requests PROVE Fine(s)'
  BY <1>3 DEF Overtaken, GaveUpAfterTwoOvertakes
<1>4. Fine(s)
  BY DEF Overtaken, GaveUpAfterTwoOvertakes
<1>5. CASE req'[s] = req[s]
  <2>1. CASE req[s].pc \in {"read", "conflict"} /\ (req[s].pc = "read" => req[s].op = "status")
    <3>1. req[s].order \in Orders
      BY <2>1 DEF Targets
    <3>2. /\ Rank[req[s].first] < Rank[orders[req[s].order].status]
               => Rank[req[s].first] < Rank[orders'[req[s].order].status]
          /\ Rank[req[s].snap.status] < Rank[orders[req[s].order].status]
               => Rank[req[s].snap.status] < Rank[orders'[req[s].order].status]
      <4> DEFINE old == Rank[orders[req[s].order].status]
                 new == Rank[orders'[req[s].order].status]
                 first == Rank[req[s].first]
                 snap == Rank[req[s].snap.status]
      <4>1. old \in 0..4 /\ new \in 0..4 /\ old <= new
        BY <1>1, <3>1
      <4>2. first \in 0..4 /\ snap \in 0..4
        BY <1>2
      <4> HIDE DEF old, new, first, snap
      <4>3. (first < old => first < new) /\ (snap < old => snap < new)
        BY <4>1, <4>2
      <4> QED
        BY <4>3 DEF old, new, first, snap
    <3> QED
      BY <1>4, <1>5, <3>2
  <2>2. CASE ~(req[s].pc \in {"read", "conflict"} /\ (req[s].pc = "read" => req[s].op = "status"))
    BY <1>4, <1>5, <2>2
  <2> QED
    BY <2>1, <2>2
<1>6. ASSUME Start(s) PROVE req'[s].pc = "read" /\ req'[s].attempt = 0
  BY <1>6, Started
<1>7. ASSUME NEW pc \in {"ok", "rejected"}, Answer(s, pc) PROVE Fine(s)'
  BY <1>7 DEF Answer, Idle
<1>8. CASE ReadForStatus(s)
  <2>1. CASE Answer(s, "rejected")
    BY <1>7, <2>1
  <2>2. CASE ~Answer(s, "rejected")
    <3>1. /\ req'[s].snap = orders[req[s].order] /\ req'[s].pc = "write"
          /\ req'[s].op = "status" /\ req'[s].attempt = req[s].attempt
          /\ req'[s].first = IF req[s].attempt = 0
                               THEN orders[req[s].order].status ELSE req[s].first
          /\ req[s].pc = "read" /\ req[s].op = "status"
      BY <1>8, <2>2 DEF ReadForStatus, RequestState
    <3>2. req[s].attempt \in 0..1
      BY DEF RequestState
    <3> QED
      BY <1>4, <3>1, <3>2
  <2> QED
    BY <2>1, <2>2
<1>9. CASE CasFails(s)
  <2>1. /\ req[s].pc = "write" /\ req[s].op = "status" /\ orders' = orders
        /\ req[s].order \in Orders
        /\ req[s].snap.status # orders[req[s].order].status
    BY <1>9 DEF CasFails, StatusMatches, Targets
  <2>2. Rank[req[s].snap.status] < Rank[orders[req[s].order].status]
    <3>1. Rank[req[s].snap.status] <= Rank[orders[req[s].order].status]
      BY <2>1 DEF Validated
    <3>2. req[s].snap.status \in OrderStatus /\ orders[req[s].order].status \in OrderStatus
      BY <2>1 DEF RequestState, OrderRow
    <3>3. Rank[req[s].snap.status] # Rank[orders[req[s].order].status]
      BY <2>1, <3>2, RankFacts
    <3> QED
      BY <1>1, <1>2, <2>1, <3>1, <3>3
  <2>3. CASE MayRetry(s)
    <3>1. req[s].attempt = 0
      BY <2>3 DEF MayRetry, RequestState
    <3>2. /\ req'[s].pc = "read" /\ req'[s].attempt = 1
          /\ req'[s].first = req[s].first /\ req'[s].order = req[s].order
      BY <1>9, <2>3, <3>1 DEF CasFails, RequestState
    <3> QED
      BY <1>4, <2>1, <2>2, <3>1, <3>2
  <2>4. CASE ~MayRetry(s)
    <3>1. req[s].attempt = 1
      BY <2>4 DEF MayRetry, RequestState
    <3>2. /\ req'[s].pc = "conflict" /\ req'[s].first = req[s].first
          /\ req'[s].order = req[s].order /\ req'[s].snap = req[s].snap
      BY <1>9, <2>4 DEF CasFails, RequestState
    <3> QED
      BY <1>4, <2>1, <2>2, <3>1, <3>2
  <2> QED
    BY <2>3, <2>4
<1>10. CASE ReadForAdd(s)
  <2>1. CASE Answer(s, "rejected")
    BY <1>7, <2>1
  <2>2. CASE Goto(s, "write")
    BY <1>10, <2>2 DEF ReadForAdd, Goto, RequestState
  <2> QED
    BY <1>10, <2>1, <2>2 DEF ReadForAdd
<1>11. CASE ReadForItem(s)
  <2>1. CASE Answer(s, "rejected")
    BY <1>7, <2>1
  <2>2. CASE ~Answer(s, "rejected")
    BY <1>11, <2>2 DEF ReadForItem, RequestState
  <2> QED
    BY <2>1, <2>2
<1>12. CASE LockOrder(s)
  <2>1. req'[s].pc = "delete"
    BY <1>12 DEF LockOrder, Goto, RequestState
  <2> QED
    BY <2>1
<1>13. CASE DeleteAndCount(s)
  <2>1. Answer(s, "rejected") \/ req'[s].pc = "commit"
    BY <1>13 DEF DeleteAndCount, RequestState
  <2> QED
    BY <1>7, <2>1
<1>14. CASE CasSucceeds(s) \/ InsertItem(s) \/ MenuRefused(s) \/ EditItem(s)
            \/ CommitDelete(s) \/ AbortDelete(s)
  BY <1>7, <1>14 DEF CasSucceeds, InsertItem, MenuRefused, EditItem, CommitDelete,
     AbortDelete
<1> QED
  BY <1>5, <1>6, <1>8, <1>9, <1>10, <1>11, <1>12, <1>13, <1>14, OneMoves, SMTT(60) DEF Step

-----------------------------------------------------------------------------
(* A transaction past withOrderLock holds the row of its order.  *)
LockHeld ==
  \A r \in Requests : req[r].pc \in {"delete", "commit"} => rowLock[req[r].order] = r

(* What deleteOrderItem has counted is still so when it commits.  *)
Counted ==
  \A r \in Requests : req[r].pc = "commit" =>
    /\ items[req[r].item].state = "live"
    /\ req[r].last <=> RowsOf(req[r].order) \ {req[r].item} = {}

\* Every step keeps the row lock with one deletion.
LEMMA LockHeldStep ==
  ASSUME Typed, LockHeld, [Next]_vars
  PROVE  LockHeld'
<1> USE DEF Typed, TypeOK
<1> SUFFICES ASSUME NEW s \in Requests, req'[s].pc \in {"delete", "commit"}
             PROVE  rowLock'[req'[s].order] = s
  BY DEF LockHeld
<1>0. ASSUME NEW r \in Requests, NEW pc \in {"ok", "rejected"}, Answer(r, pc)
      PROVE  req'[r].pc = pc
  BY <1>0 DEF Answer, Idle
<1>1. ASSUME req'[s] = req[s], UNCHANGED rowLock PROVE rowLock'[req'[s].order] = s
  BY <1>1 DEF LockHeld
<1>2. CASE UNCHANGED vars \/ CloseSession \/ ReactivateSession
  BY <1>1, <1>2 DEF vars, CloseSession, ReactivateSession
<1>3. ASSUME NEW r \in Requests, Start(r) PROVE rowLock'[req'[s].order] = s
  BY <1>1, <1>3, Started
<1>4. ASSUME NEW r \in Requests, ReadForStatus(r) \/ CasFails(r) \/ ReadForAdd(r)
                                   \/ ReadForItem(r)
      PROVE  rowLock'[req'[s].order] = s
  <2>1. UNCHANGED rowLock /\ req'[r].pc \notin {"delete", "commit"}
    BY <1>0, <1>4 DEF ReadForStatus, CasFails, ReadForAdd, ReadForItem, Goto, RequestState
  <2>2. \A t \in Requests : t # r => req'[t] = req[t]
    BY <1>4 DEF ReadForStatus, CasFails, ReadForAdd, ReadForItem, Goto, Answer
  <2> QED
    BY <1>1, <2>1, <2>2
<1>5. ASSUME NEW r \in Requests, CasSucceeds(r) \/ InsertItem(r) \/ MenuRefused(r)
                                   \/ EditItem(r)
      PROVE  rowLock'[req'[s].order] = s
  BY <1>0, <1>1, <1>5 DEF CasSucceeds, InsertItem, MenuRefused, EditItem, Answer
<1>6. ASSUME NEW r \in Requests, LockOrder(r) PROVE rowLock'[req'[s].order] = s
  <2>1. req[r].order \in Orders
    BY <1>6 DEF LockOrder, Targets
  <2>2. rowLock' = [rowLock EXCEPT ![req[r].order] = r] /\ rowLock[req[r].order] = Null
    BY <1>6 DEF LockOrder, OrderUnlocked
  <2>3. CASE s = r
    <3>1. req'[s].order = req[s].order
      BY <1>6, <2>3 DEF LockOrder, Goto, RequestState
    <3> QED
      BY <2>1, <2>2, <2>3, <3>1
  <2>4. CASE s # r
    <3>1. req'[s] = req[s]
      BY <1>6, <2>4 DEF LockOrder, Goto
    <3>2. rowLock[req[s].order] = s /\ req[s].order # req[r].order
      BY <2>2, <3>1, NullAssumption DEF LockHeld
    <3> QED
      BY <2>2, <3>1, <3>2
  <2> QED
    BY <2>3, <2>4
<1>7. ASSUME NEW r \in Requests, DeleteAndCount(r) PROVE rowLock'[req'[s].order] = s
  <2>1. req[r].order \in Orders /\ rowLock[req[r].order] = r
    BY <1>7 DEF DeleteAndCount, Targets, LockHeld
  <2>2. CASE s = r
    <3>1. UNCHANGED rowLock /\ req'[r].order = req[r].order
      BY <1>0, <1>7, <2>2 DEF DeleteAndCount, RequestState
    <3> QED
      BY <2>1, <2>2, <3>1
  <2>3. CASE s # r
    <3>1. req'[s] = req[s]
      BY <1>7, <2>3 DEF DeleteAndCount, Answer
    <3>2. rowLock[req[s].order] = s
      BY <3>1 DEF LockHeld
    <3>3. \/ rowLock' = rowLock
          \/ rowLock' = [rowLock EXCEPT ![req[r].order] = Null]
      BY <1>7 DEF DeleteAndCount
    <3>4. req[s].order # req[r].order
      BY <2>1, <2>3, <3>2
    <3>5. req'[s].order \in Orders
      BY <3>1 DEF Targets
    <3> QED
      BY <3>1, <3>2, <3>3, <3>4, <3>5
  <2> QED
    BY <2>2, <2>3
<1>8. ASSUME NEW r \in Requests, CommitDelete(r) \/ AbortDelete(r)
      PROVE  rowLock'[req'[s].order] = s
  <2>1. s # r
    BY <1>0, <1>8 DEF CommitDelete, AbortDelete
  <2>2. req'[s] = req[s]
    BY <1>8, <2>1 DEF CommitDelete, AbortDelete, Answer
  <2>3. rowLock[req[s].order] = s /\ req[s].order \in Orders
    BY <2>2 DEF LockHeld, Targets
  <2>4. CASE CommitDelete(r)
    <3>1. rowLock[req[r].order] = r
      BY <2>4 DEF LockHeld, CommitDelete
    <3> QED
      BY <2>1, <2>2, <2>3, <2>4, <3>1 DEF CommitDelete
  <2>5. CASE AbortDelete(r)
    BY <2>1, <2>2, <2>3, <2>5 DEF AbortDelete
  <2> QED
    BY <1>8, <2>4, <2>5
<1> QED
  BY <1>2, <1>3, <1>4, <1>5, <1>6, <1>7, <1>8 DEF Next, Step

-----------------------------------------------------------------------------
(* The rows of an order change only by an insertion, while nobody holds the  *)
(* order, or by the commit of the transaction that holds it.                 *)
LEMMA RowsMove ==
  ASSUME Typed, LockHeld, Counted, [Next]_vars, NEW o \in Orders
  PROVE  \/ RowsOf(o)' = RowsOf(o)
         \/ RowsOf(o) \subseteq RowsOf(o)' /\ RowsOf(o)' # {} /\ OrderUnlocked(o)
         \/ \E r \in Requests :
              /\ CommitDelete(r) /\ req[r].order = o
              /\ RowsOf(o)' = RowsOf(o) \ {req[r].item}
<1> USE DEF Typed, TypeOK
<1>1. ASSUME UNCHANGED items PROVE RowsOf(o)' = RowsOf(o)
  BY <1>1 DEF RowsOf
<1>2. CASE UNCHANGED vars \/ CloseSession \/ ReactivateSession
  BY <1>1, <1>2 DEF vars, CloseSession, ReactivateSession
<1>3. ASSUME NEW r \in Requests, Start(r) PROVE RowsOf(o)' = RowsOf(o)
  BY <1>1, <1>3, Started
<1>4. ASSUME NEW r \in Requests, Step(r), ~InsertItem(r), ~EditItem(r), ~CommitDelete(r)
      PROVE  RowsOf(o)' = RowsOf(o)
  BY <1>1, <1>4 DEF Step, ReadForStatus, CasSucceeds, CasFails, ReadForAdd, MenuRefused,
     ReadForItem, LockOrder, DeleteAndCount, AbortDelete
<1>5. ASSUME NEW r \in Requests, InsertItem(r)
      PROVE  \/ RowsOf(o)' = RowsOf(o)
             \/ RowsOf(o) \subseteq RowsOf(o)' /\ RowsOf(o)' # {} /\ OrderUnlocked(o)
  <2>1. PICK i \in Items, n \in Quantities :
          /\ items[i].state = "unborn"
          /\ items' = [items EXCEPT ![i] = [state |-> "live", quantity |-> n,
                                            order |-> req[r].order]]
    BY <1>5 DEF InsertItem
  <2>2. OrderUnlocked(req[r].order)
    BY <1>5 DEF InsertItem
  <2>3. items'[i].state = "live" /\ items'[i].order = req[r].order
    BY <2>1
  <2>4. \A j \in Items \ {i} : items'[j] = items[j]
    BY <2>1
  <2>5. CASE req[r].order = o
    BY <2>1, <2>2, <2>3, <2>4, <2>5 DEF RowsOf
  <2>6. CASE req[r].order # o
    BY <2>1, <2>3, <2>4, <2>6 DEF RowsOf
  <2> QED
    BY <2>5, <2>6
<1>6. ASSUME NEW r \in Requests, EditItem(r) PROVE RowsOf(o)' = RowsOf(o)
  <2>1. \A j \in Items : items'[j].state = items[j].state /\ items'[j].order = items[j].order
    <3>1. CASE UNCHANGED items
      BY <3>1
    <3>2. CASE \E n \in Quantities : items' = [items EXCEPT ![req[r].item].quantity = n]
      <4>1. PICK n \in Quantities : items' = [items EXCEPT ![req[r].item].quantity = n]
        BY <3>2
      <4> QED
        BY <4>1 DEF ItemRow
    <3> QED
      BY <1>6, <3>1, <3>2 DEF EditItem
  <2> QED
    BY <2>1 DEF RowsOf
<1>7. ASSUME NEW r \in Requests, CommitDelete(r)
      PROVE  \/ RowsOf(o)' = RowsOf(o)
             \/ req[r].order = o /\ RowsOf(o)' = RowsOf(o) \ {req[r].item}
  <2> DEFINE i == req[r].item
  <2>1. i \in Items /\ items[i].order = req[r].order /\ items[i].state = "live"
    BY <1>7 DEF CommitDelete, Targets, Counted
  <2>2. /\ \A j \in Items \ {i} : items'[j] = items[j]
        /\ items'[i].state = "gone"
    BY <1>7, <2>1 DEF CommitDelete, ItemRow
  <2> QED
    BY <2>1, <2>2 DEF RowsOf
<1> QED
  BY <1>2, <1>3, <1>4, <1>5, <1>6, <1>7 DEF Next

(* A request is ready to commit only if it was, or has just counted.  *)
LEMMA CommitsAfterCount ==
  ASSUME Typed, [Next]_vars, NEW s \in Requests, req'[s].pc = "commit"
  PROVE  req'[s] = req[s] \/ DeleteAndCount(s)
<1> USE DEF Typed, TypeOK
<1>1. ASSUME NEW pc \in {"ok", "rejected"}, Answer(s, pc) PROVE FALSE
  BY <1>1 DEF Answer, Idle
<1>2. ~Start(s)
  BY Started
<1>3. ~CasSucceeds(s) /\ ~InsertItem(s) /\ ~MenuRefused(s) /\ ~EditItem(s)
      /\ ~CommitDelete(s) /\ ~AbortDelete(s)
  BY <1>1 DEF CasSucceeds, InsertItem, MenuRefused, EditItem, CommitDelete, AbortDelete
<1>4. ~CasFails(s) /\ ~LockOrder(s)
  BY DEF CasFails, LockOrder, Goto, RequestState
<1>5. ~ReadForStatus(s) /\ ~ReadForAdd(s) /\ ~ReadForItem(s)
  BY <1>1 DEF ReadForStatus, ReadForAdd, ReadForItem, Goto, RequestState
<1> QED
  BY <1>2, <1>3, <1>4, <1>5, OneMoves DEF Step

\* Every step keeps what the deletions have counted.
LEMMA CountedStep ==
  ASSUME Typed, Typed', LockHeld, LockHeld', Counted, [Next]_vars
  PROVE  Counted'
<1> USE DEF Typed, TypeOK
<1>0. \A s \in Requests : req'[s].pc = "commit" =>
        /\ req'[s].item \in Items /\ req'[s].order \in Orders
        /\ items'[req'[s].item].order = req'[s].order
        /\ rowLock'[req'[s].order] = s
  BY DEF Targets, LockHeld
<1> SUFFICES ASSUME NEW s \in Requests, req'[s].pc = "commit",
                    NEW i \in Items, i = req'[s].item,
                    NEW o \in Orders, o = req'[s].order
             PROVE  /\ items'[i].state = "live"
                    /\ req'[s].last <=> RowsOf(o)' \ {i} = {}
  BY <1>0 DEF Counted, RowsOf
<1>1. items'[i].order = o /\ rowLock'[o] = s
  BY <1>0
<1>2. CASE req'[s] = req[s]
  <2>1. /\ rowLock[o] = s /\ items[i].state = "live" /\ items[i].order = o
        /\ req[s].last <=> RowsOf(o) \ {i} = {}
    BY <1>2 DEF LockHeld, Counted, Targets
  <2>2. ~OrderUnlocked(o)
    BY <2>1, NullAssumption DEF OrderUnlocked
  <2>3. \A r \in Requests : CommitDelete(r) => req[r].order # o
    <3> SUFFICES ASSUME NEW r \in Requests, CommitDelete(r), req[r].order = o PROVE FALSE
      OBVIOUS
    <3>1. r = s
      BY <2>1 DEF CommitDelete, LockHeld
    <3>2. req'[r].pc = "ok"
      BY DEF CommitDelete, Answer, Idle
    <3> QED
      BY <3>1, <3>2
  <2>4. RowsOf(o)' = RowsOf(o)
    BY <1>1, <2>2, <2>3, RowsMove
  <2>5. i \in RowsOf(o)
    BY <1>1, <2>1 DEF RowsOf
  <2>6. i \in RowsOf(o)'
    BY <2>4, <2>5
  <2>7. items'[i].state = "live"
    BY <2>6 DEF RowsOf
  <2> QED
    BY <1>2, <2>1, <2>4, <2>7
<1>3. CASE DeleteAndCount(s)
  <2>1. ~Answer(s, "rejected")
    BY DEF Answer, Idle
  <2>2. /\ items[req[s].item].state = "live" /\ items' = items
        /\ req' = [req EXCEPT ![s].pc = "commit",
                              ![s].last = RowsOf(req[s].order) \ {req[s].item} = {}]
    BY <1>3, <2>1 DEF DeleteAndCount
  <2>3. /\ i = req[s].item /\ o = req[s].order
        /\ req'[s].last = (RowsOf(req[s].order) \ {req[s].item} = {})
    BY <2>2 DEF RequestState
  <2>4. RowsOf(o)' = RowsOf(o)
    BY <2>2 DEF RowsOf
  <2> QED
    BY <2>2, <2>3, <2>4
<1> QED
  BY <1>2, <1>3, CommitsAfterCount

(* The last deletion takes the order with it; an insertion leaves a row; and *)
(* a cancelled order stays cancelled.                                        *)
LEMMA EmptiedStep ==
  ASSUME Typed, Typed', Validated, LockHeld, Counted, EmptiedOrderIsCancelled,
         [Next]_vars
  PROVE  EmptiedOrderIsCancelled'
<1> USE DEF Typed, TypeOK
<1> SUFFICES ASSUME NEW o \in Orders, RowsOf(o)' = {}
             PROVE  orders'[o].status = "CANCELLED"
  BY DEF EmptiedOrderIsCancelled, RowsOf
<1>1. ASSUME orders[o].status = "CANCELLED" PROVE orders'[o].status = "CANCELLED"
  <2>1. RowMoves(orders[o], orders'[o])
    BY OrdersMove
  <2> QED
    BY <1>1, <2>1 DEF RowMoves, IsForward
<1>2. CASE RowsOf(o)' = RowsOf(o)
  BY <1>1, <1>2 DEF EmptiedOrderIsCancelled
<1>3. ASSUME NEW r \in Requests, CommitDelete(r), req[r].order = o,
             RowsOf(o)' = RowsOf(o) \ {req[r].item}
      PROVE  orders'[o].status = "CANCELLED"
  <2>1. req[r].last
    BY <1>3 DEF Counted, CommitDelete
  <2> QED
    BY <1>3, <2>1 DEF CommitDelete, OrderRow
<1> QED
  BY <1>2, <1>3, RowsMove

-----------------------------------------------------------------------------
(* The inductive invariant.  *)
IInv ==
  /\ Typed
  /\ Validated
  /\ StampsMatchStatus
  /\ Overtaken
  /\ LockHeld
  /\ Counted
  /\ EmptiedOrderIsCancelled

\* The inductive invariant holds at the start.
LEMMA IInvInit == Init => IInv
<1> SUFFICES ASSUME Init PROVE IInv
  OBVIOUS
<1>1. \A r \in Requests : req[r].pc = "idle"
  BY DEF Init, Idle
<1>2. StampsMatchStatus
  BY DEF Init, StampsMatchStatus, StampsOf, FreshOrder
<1>3. EmptiedOrderIsCancelled
  BY DEF Init, EmptiedOrderIsCancelled
<1>4. Validated /\ Overtaken /\ LockHeld /\ Counted
  BY <1>1 DEF Validated, Overtaken, GaveUpAfterTwoOvertakes, LockHeld, Counted
<1> QED
  BY <1>2, <1>3, <1>4, TypedInit DEF IInv

\* Every step keeps the inductive invariant.
LEMMA IInvStep == IInv /\ [Next]_vars => IInv'
<1> SUFFICES ASSUME IInv, [Next]_vars PROVE IInv'
  OBVIOUS
<1>1. Typed'
  BY TypedStep DEF IInv
<1>2. Validated'
  BY <1>1, ValidatedStep DEF IInv
<1>3. StampsMatchStatus'
  <2> SUFFICES ASSUME NEW o \in Orders PROVE StampsOf(orders'[o])
    BY DEF StampsMatchStatus, StampsOf
  <2>1. orders[o] \in OrderRow /\ orders'[o] \in OrderRow
    BY <1>1 DEF IInv, Typed, TypeOK
  <2>2. RowMoves(orders[o], orders'[o])
    BY OrdersMove DEF IInv
  <2>3. StampsOf(orders[o])
    BY DEF IInv, StampsMatchStatus
  <2> QED
    BY <2>1, <2>2, <2>3, MoveStamps
<1>4. Overtaken'
  BY <1>1, OvertakenStep DEF IInv
<1>5. LockHeld'
  BY LockHeldStep DEF IInv
<1>6. Counted'
  BY <1>1, <1>5, CountedStep DEF IInv
<1>7. EmptiedOrderIsCancelled'
  BY <1>1, EmptiedStep DEF IInv
<1> QED
  BY <1>1, <1>2, <1>3, <1>4, <1>5, <1>6, <1>7 DEF IInv

\* The inductive invariant holds in every reachable state.
THEOREM IInvHolds == Spec => []IInv
<1> QED
  BY IInvInit, IInvStep, PTL DEF Spec

(* However status updates with stale reads, retries and deletions interleave,*)
(* the timestamps of every order fit its status.                             *)
THEOREM StampsAlwaysMatch == Spec => []StampsMatchStatus
<1>1. IInv => StampsMatchStatus
  BY DEF IInv
<1> QED
  BY IInvHolds, <1>1, PTL

(* deleteOrderItem validates before it takes the row lock, and still no      *)
(* interleaving leaves an order without items that is not cancelled.         *)
THEOREM NoEmptyOrderLeft == Spec => []EmptiedOrderIsCancelled
<1>1. IInv => EmptiedOrderIsCancelled
  BY DEF IInv
<1> QED
  BY IInvHolds, <1>1, PTL

(* A status update ends in P2025 only if other requests moved the order      *)
(* between its two reads and again after the second.                         *)
THEOREM ConflictsAreReal == Spec => []GaveUpAfterTwoOvertakes
<1>1. IInv => GaveUpAfterTwoOvertakes
  BY DEF IInv, Overtaken
<1> QED
  BY IInvHolds, <1>1, PTL

(* No step takes an order backwards or out of CANCELLED.  *)
THEOREM OrdersGoForward == Spec => StatusForwardOnly
<1>1. IInv /\ IInv' /\ [Next]_vars =>
        [\A o \in Orders : orders'[o].status = orders[o].status
                           \/ IsForward(orders[o].status, orders'[o].status)]_vars
  <2> SUFFICES ASSUME IInv, IInv', [Next]_vars, NEW o \in Orders
               PROVE  orders'[o].status = orders[o].status
                      \/ IsForward(orders[o].status, orders'[o].status)
    OBVIOUS
  <2>1. RowMoves(orders[o], orders'[o])
    BY OrdersMove DEF IInv
  <2>2. orders[o] \in OrderRow /\ orders'[o] \in OrderRow
    BY DEF IInv, Typed, TypeOK
  <2> QED
    BY <2>1, <2>2, MovedUp
<1> QED
  BY IInvHolds, <1>1, PTL DEF Spec, StatusForwardOnly

(* acceptedAt and completedAt are never overwritten once set.  *)
THEOREM StampsAreKept == Spec => StampedOnce
<1>1. IInv /\ IInv' /\ [Next]_vars =>
        [\A o \in Orders :
           /\ orders[o].acceptedAt # Null => orders'[o].acceptedAt = orders[o].acceptedAt
           /\ orders[o].completedAt # Null
                => orders'[o].completedAt = orders[o].completedAt]_vars
  <2> SUFFICES ASSUME IInv, IInv', [Next]_vars, NEW o \in Orders
               PROVE  /\ orders[o].acceptedAt # Null
                           => orders'[o].acceptedAt = orders[o].acceptedAt
                      /\ orders[o].completedAt # Null
                           => orders'[o].completedAt = orders[o].completedAt
    OBVIOUS
  <2>1. RowMoves(orders[o], orders'[o])
    BY OrdersMove DEF IInv
  <2>2. orders[o] \in OrderRow /\ orders'[o] \in OrderRow
    BY DEF IInv, Typed, TypeOK
  <2>3. StampsOf(orders[o])
    BY DEF IInv, StampsMatchStatus
  <2> QED
    BY <2>1, <2>2, <2>3, MoveStamps
<1> QED
  BY IInvHolds, <1>1, PTL DEF Spec, StampedOnce
=============================================================================

---------------------------- MODULE TableSession ----------------------------
(***************************************************************************)
(* The sessions of one table (session-core.service.ts, session.client.ts,  *)
(* session.service.ts): the first scan of the table's QR code creates one, *)
(* later scans share it, an order activates it, its customers extend it,   *)
(* and a payment or the owner closes it.                                   *)
(*                                                                         *)
(* Every handler reads the session row and later writes it by its token    *)
(* alone, so that a request is two steps, or three for a payment, with     *)
(* other requests and the clock in between.  A transaction reads from the  *)
(* snapshot of its first read; what it writes appears at its commit.       *)
(***************************************************************************)
EXTENDS Integers, FiniteSets

CONSTANTS
  Sessions,    \* rows of table_session
  Requests,    \* HTTP requests
  WaitTtl,     \* TWENTY_MINUTE, in units of the clock
  ActiveTtl,   \* TWO_HOURS
  ExtendBy,    \* ONE_HOURS
  MaxTime,     \* bound: the clock stops here
  Null

ASSUME TtlAssumption == {WaitTtl, ActiveTtl, ExtendBy} \subseteq Nat \ {0}
ASSUME MaxTimeAssumption == MaxTime \in Nat
ASSUME NullAssumption == Null \notin Sessions \cup Requests \cup Nat

VARIABLES
  now,       \* Date.now()
  session,   \* [Sessions -> row]
  bill,      \* [Sessions -> sum of the session's orders, an order costing 1]
  req,       \* [Requests -> state of the request]
  split      \* history: something happened that can leave a table two sessions

vars == <<now, session, bill, req, split>>

-----------------------------------------------------------------------------
Alive == {"ACTIVE", "WAITING_ORDER"}     \* ALIVE_SESSION_STATUSES
Row == {row \in [status : {"unborn", "CLOSED"} \cup Alive, expiresAt : Nat,
                 closed : BOOLEAN,                \* closedAt is set
                 paid : Nat \cup {Null}] :
          row.status = "CLOSED" => row.closed}
Unborn == [status |-> "unborn", expiresAt |-> 0, closed |-> FALSE, paid |-> Null]
NewSession == [status |-> "WAITING_ORDER", expiresAt |-> now + WaitTtl,
               closed |-> FALSE, paid |-> Null]

Operations == {"scan", "ownerOrder", "order",
               "ACTIVE", "CLOSED", "EXTEND_EXPIRES_AT", "REACTIVATE", "PAYMENT_PENDING"}
CustomerPatches == {"ACTIVE", "EXTEND_EXPIRES_AT", "PAYMENT_PENDING"}
OwnerPatches == CustomerPatches \cup {"CLOSED", "REACTIVATE"}
Phases == {"idle", "sum", "write", "ok", "rejected"}
RequestState ==
  [pc : Phases, op : Operations, owner : BOOLEAN,
   target : Sessions \cup {Null},   \* the session found; Null: to be created
   expired : Sessions \cup {Null},  \* a session found expired, to be closed
   snap : Row,                      \* the row as read
   sum : Nat]                       \* the orders' total as read

Idle == [pc |-> "idle", op |-> "scan", owner |-> FALSE, target |-> Null,
         expired |-> Null, snap |-> Unborn, sum |-> 0]

Born == {s \in Sessions : session[s].status # "unborn"}
AliveSessions == {s \in Sessions : session[s].status \in Alive}
Creators == {r \in Requests : req[r].pc = "write" /\ req[r].target = Null}

RevivedBesides(s) ==    \* s comes back next to a session alive or in creation
  session[s].status = "CLOSED" /\ AliveSessions \cup Creators # {}

Expired(row) == row.expiresAt < now                              \* isSessionExpired
PassesGuard(row) == row.status \in Alive /\ row.expiresAt > now  \* SessionAuth

-----------------------------------------------------------------------------
(* Mutated forms of the definitions below.                                   *)
OnlyActive == {s \in Sessions : session[s].status = "ACTIVE"}
OrderableEvenClosed(s) == s \in Born /\ ~Expired(session[s])
ActivatedNever(row) == row

(* What the two lookups of txGetActivatedSessionOrCreate find.               *)
Findable == AliveSessions
Orderable(s) == s \in AliveSessions /\ ~Expired(session[s])

(* The rows the updates leave; what they do not name stays as it is.         *)
Activated(row) == [row EXCEPT !.status = "ACTIVE", !.expiresAt = now + ActiveTtl]
Closed(row) == [row EXCEPT !.status = "CLOSED", !.closed = TRUE]
Settled(row, sum) == [Closed(row) EXCEPT !.paid = sum]

Init ==
  /\ now = 0
  /\ session = [s \in Sessions |-> Unborn]
  /\ bill = [s \in Sessions |-> 0]
  /\ req = [r \in Requests |-> Idle]
  /\ split = FALSE

Tick == now < MaxTime /\ now' = now + 1 /\ UNCHANGED <<session, bill, req, split>>

Answer(r, a) == req' = [req EXCEPT ![r] = [Idle EXCEPT !.pc = a]]

-----------------------------------------------------------------------------
(* A scan, or an order by the owner, for the table: the transaction finds    *)
(* any session that is alive by its status, and looks at its expiry.         *)
(* (Bound: there is an unborn row for every session in creation.)            *)
FindForTable(r) ==
  /\ req[r].pc = "idle"
  /\ Cardinality(Creators) < Cardinality(Sessions \ Born)
  /\ \E op \in {"scan", "ownerOrder"} :
       LET q == [Idle EXCEPT !.pc = "write", !.op = op] IN
       \/ Findable = {} /\ req' = [req EXCEPT ![r] = q]
       \/ \E s \in Findable :
            req' = [req EXCEPT ![r] =
                      IF Expired(session[s]) THEN [q EXCEPT !.expired = s]
                      ELSE [q EXCEPT !.target = s, !.snap = session[s]]]
  /\ split' = (split \/ (Creators # {} /\ req'[r].target = Null))
  /\ UNCHANGED <<now, session, bill>>

(* A customer's order finds the session of the cookie by its id.  Found      *)
(* expired, it is closed, but the exception rolls that back.                 *)
FindForOrder(r) ==
  /\ req[r].pc = "idle"
  /\ \E s \in Born :
       IF Orderable(s)
         THEN req' = [req EXCEPT ![r] = [Idle EXCEPT !.pc = "write", !.op = "order",
                                           !.target = s, !.snap = session[s]]]
         ELSE Answer(r, "rejected")
  /\ UNCHANGED <<now, session, bill, split>>

(* The transaction fails: inactive table, and for an order a closed store,   *)
(* an invalid menu, no order number.                                         *)
Refuse(r) ==
  /\ req[r].pc = "write" /\ req[r].op \in {"scan", "order", "ownerOrder"}
  /\ Answer(r, "rejected")
  /\ UNCHANGED <<now, session, bill, split>>

(* The sessions once the lookup is over: the one found expired is closed,    *)
(* and s is the one to use, found or created.                                *)
Located(r, s) ==
  [k \in Sessions |->
     IF k = req[r].expired THEN Closed(session[k])
     ELSE IF k = s /\ req[r].target = Null THEN NewSession
     ELSE session[k]]

Target(r, s) == IF req[r].target = Null THEN s \notin Born ELSE s = req[r].target

CommitScan(r) ==
  /\ req[r].pc = "write" /\ req[r].op = "scan"
  /\ \E s \in Sessions : Target(r, s) /\ session' = Located(r, s)
  /\ Answer(r, "ok")
  /\ UNCHANGED <<now, bill, split>>

(* createOrderTransaction: a session read in another status than ACTIVE is   *)
(* activated, whatever its status is by now, and the order is inserted.      *)
CommitOrder(r) ==
  /\ req[r].pc = "write" /\ req[r].op \in {"order", "ownerOrder"}
  /\ \E s \in Sessions :
       /\ Target(r, s)
       /\ session' = IF req[r].snap.status = "ACTIVE" THEN Located(r, s)
                     ELSE [Located(r, s) EXCEPT ![s] = Activated(@)]
       /\ bill' = [bill EXCEPT ![s] = @ + 1]
       /\ split' = (split \/ RevivedBesides(s))
  /\ Answer(r, "ok")
  /\ UNCHANGED now

-----------------------------------------------------------------------------
(* PATCH of a session: the row as read, and a payment adds up first.         *)
ReadForPatch(r, s, op, owner) ==
  /\ req[r].pc = "idle"
  /\ req' = [req EXCEPT ![r] =
               [Idle EXCEPT !.pc = IF op = "PAYMENT_PENDING" THEN "sum" ELSE "write",
                            !.op = op, !.owner = owner,
                            !.target = s, !.snap = session[s]]]
  /\ UNCHANGED <<now, session, bill, split>>

(* A customer patches the session of the cookie, once SessionAuth has found  *)
(* it; an owner may name any session of the store.                           *)
PatchByCustomer(r) ==
  \E s \in Born, op \in CustomerPatches :
    PassesGuard(session[s]) /\ ReadForPatch(r, s, op, FALSE)

PatchByOwner(r) ==
  \E s \in Born, op \in OwnerPatches : ReadForPatch(r, s, op, TRUE)

(* txFinishSessionByPayment adds up the orders ...  *)
SumOrders(r) ==
  /\ req[r].pc = "sum"
  /\ IF bill[req[r].target] = 0
       THEN Answer(r, "rejected")
       ELSE req' = [req EXCEPT ![r].pc = "write", ![r].sum = bill[req[r].target]]
  /\ UNCHANGED <<now, session, bill, split>>

(* ... and closes the session with that amount.  *)
CommitPayment(r) ==
  LET s == req[r].target IN
  /\ req[r].pc = "write" /\ req[r].op = "PAYMENT_PENDING"
  /\ session' = [session EXCEPT ![s] = Settled(@, req[r].sum)]
  /\ Answer(r, "ok")
  /\ UNCHANGED <<now, bill, split>>

(* ACTIVE; the owner may send the amount paid along.  *)
ActivateSession(r) ==
  LET s == req[r].target IN
  /\ req[r].pc = "write" /\ req[r].op = "ACTIVE"
  /\ \E paid \in IF req[r].owner THEN {session[s].paid, 0} ELSE {session[s].paid} :
       session' = [session EXCEPT ![s] = [Activated(@) EXCEPT !.paid = paid]]
  /\ split' = (split \/ RevivedBesides(s))
  /\ Answer(r, "ok")
  /\ UNCHANGED <<now, bill>>

DeactivateSession(r) ==
  LET s == req[r].target IN
  /\ req[r].pc = "write" /\ req[r].op = "CLOSED"
  /\ session' = [session EXCEPT ![s] = Closed(@)]
  /\ Answer(r, "ok")
  /\ UNCHANGED <<now, bill, split>>

(* One hour is added to the expiry that was read; a session that is closed   *)
(* by now is not found (P2025).                                              *)
ExtendExpiry(r) ==
  LET s == req[r].target IN
  /\ req[r].pc = "write" /\ req[r].op = "EXTEND_EXPIRES_AT"
  /\ IF session[s].status \in Alive
       THEN /\ session' = [session EXCEPT ![s].expiresAt = req[r].snap.expiresAt + ExtendBy]
            /\ Answer(r, "ok")
       ELSE /\ Answer(r, "rejected")
            /\ UNCHANGED session
  /\ UNCHANGED <<now, bill, split>>

ReactivateSession(r) ==
  LET s == req[r].target IN
  /\ req[r].pc = "write" /\ req[r].op = "REACTIVATE"
  /\ session' = [session EXCEPT ![s].status = "ACTIVE", ![s].closed = FALSE]
  /\ split' = (split \/ RevivedBesides(s))
  /\ Answer(r, "ok")
  /\ UNCHANGED <<now, bill>>

Step(r) ==
  \/ FindForTable(r) \/ FindForOrder(r) \/ Refuse(r)
  \/ CommitScan(r) \/ CommitOrder(r)
  \/ PatchByCustomer(r) \/ PatchByOwner(r)
  \/ SumOrders(r) \/ CommitPayment(r) \/ ActivateSession(r)
  \/ DeactivateSession(r) \/ ExtendExpiry(r) \/ ReactivateSession(r)

Next == Tick \/ \E r \in Requests : Step(r)

Spec == Init /\ [][Next]_vars

-----------------------------------------------------------------------------
TypeOK ==
  /\ now \in 0..MaxTime
  /\ session \in [Sessions -> Row]
  /\ bill \in [Sessions -> Nat]
  /\ req \in [Requests -> RequestState]
  /\ split \in BOOLEAN

(* A session that has orders is past WAITING_ORDER, also when its first      *)
(* orders, an extension and a close overlap.                                 *)
OrderedIsNotWaiting ==
  \A s \in Sessions : bill[s] > 0 => session[s].status # "WAITING_ORDER"

(* A closed session comes back to life, or gets another order, only by the   *)
(* owner's own command or by a request that read the session while it was    *)
(* alive: once it is closed no new scan, order or customer gets at it.       *)
ClosedChangesHaveCause ==
  [][\A s \in Sessions :
       session[s].status = "CLOSED"
         /\ (session'[s].status # "CLOSED" \/ bill'[s] # bill[s])
       => \E r \in Requests :
            /\ req'[r] # req[r] /\ req[r].target = s
            /\ req[r].owner \/ req[r].snap.status \in Alive]_vars

(* Two sessions of the table are alive at once only after two of its lookups *)
(* overlapped with nobody seated, or a closed session came back to life when *)
(* there was another one.                                                    *)
SplitNeedsOverlap == split \/ Cardinality(AliveSessions) <= 1
=============================================================================

------------------------- MODULE TableSessionProofs -------------------------
(***************************************************************************)
(* What concerns one table.  Theorems of TableSession, for any number of   *)
(* sessions and requests and any lifetimes: types, what becomes of a       *)
(* session that has orders or has been closed, and when a table can have   *)
(* two of them.  Then theorems of Notifications, for any number of         *)
(* devices, requests and keys: who is told, and who is in which room.      *)
(***************************************************************************)
EXTENDS TableSession, Notifications, FiniteSetTheorems, TLAPS

InFlight(r) == req[r].pc \in {"sum", "write"}

\* A request names a session that is there, and all but those for the table
\* name one; it was read alive, or by the owner, and what it was past, it
\* still is.
Grounded(r) ==
  InFlight(r) =>
    /\ req[r].target = Null =>
         /\ req[r].op \in {"scan", "ownerOrder"} /\ req[r].pc = "write"
         /\ req[r].snap.status = "unborn"
    /\ req[r].expired # Null => session[req[r].expired].status # "unborn"
    /\ req[r].target # Null =>
         /\ req[r].expired = Null
         /\ session[req[r].target].status # "unborn"
         /\ req[r].owner \/ req[r].snap.status \in Alive
         /\ req[r].snap.status = "ACTIVE" =>
              session[req[r].target].status # "WAITING_ORDER"

GroundedInv == \A r \in Requests : Grounded(r)

\* Orders are of sessions that are there.
BillInv == \A s \in Sessions : session[s].status = "unborn" => bill[s] = 0

\* As long as nothing has split the table: one session is alive, one is being
\* created, and then only the one found expired is alive.
SoloInv ==
  ~split =>
    /\ \A s, t \in AliveSessions : s = t
    /\ \A q, r \in Creators : q = r
    /\ \A r \in Creators : AliveSessions \subseteq {req[r].expired}

IInv == TypeOK /\ GroundedInv /\ BillInv /\ OrderedIsNotWaiting /\ SoloInv

\* Nobody becomes unborn again, or waits for a first order again.
Ages ==
  \A s \in Sessions : session[s].status # "unborn" =>
    /\ session'[s].status # "unborn"
    /\ session[s].status # "WAITING_ORDER" => session'[s].status # "WAITING_ORDER"

-----------------------------------------------------------------------------
(* The rows that the updates write.                                        *)
LEMMA RowFacts ==
  ASSUME TypeOK, NEW row \in Row
  PROVE  /\ Activated(row) \in Row /\ Activated(row).status = "ACTIVE"
         /\ Closed(row) \in Row /\ Closed(row).status = "CLOSED"
         /\ \A sum \in Nat : /\ Settled(row, sum) \in Row
                             /\ Settled(row, sum).status = "CLOSED"
         /\ NewSession \in Row /\ NewSession.status = "WAITING_ORDER"
         /\ Unborn \in Row /\ Unborn.status = "unborn"
<1>1. now \in Nat /\ now + ActiveTtl \in Nat /\ now + WaitTtl \in Nat
  BY TtlAssumption, MaxTimeAssumption DEF TypeOK
<1>2. Activated(row) \in Row /\ Activated(row).status = "ACTIVE"
  BY <1>1 DEF Activated, Row, Alive
<1>3. Closed(row) \in Row /\ Closed(row).status = "CLOSED"
  BY DEF Closed, Row
<1>4. ASSUME NEW sum \in Nat
      PROVE  Settled(row, sum) \in Row /\ Settled(row, sum).status = "CLOSED"
  BY DEF Settled, Closed, Row
<1>5. NewSession \in Row /\ NewSession.status = "WAITING_ORDER"
  BY <1>1 DEF NewSession, Row, Alive
<1>6. Unborn \in Row /\ Unborn.status = "unborn"
  BY DEF Unborn, Row
<1>. QED
  BY <1>2, <1>3, <1>4, <1>5, <1>6

\* A request that has not started, at any phase, is well typed.
LEMMA IdleFacts ==
  Idle \in RequestState /\ \A a \in Phases : [Idle EXCEPT !.pc = a] \in RequestState
<1>1. Unborn \in Row
  BY DEF Unborn, Row
<1>2. Idle \in RequestState
  BY <1>1 DEF Idle, RequestState, Phases, Operations
<1>. QED
  BY <1>2 DEF RequestState

(* A request that is answered is in flight no longer.                      *)
LEMMA AnswerFacts ==
  ASSUME TypeOK, NEW r \in Requests, NEW a \in {"ok", "rejected"}, Answer(r, a)
  PROVE  /\ req' \in [Requests -> RequestState]
         /\ req'[r].pc = a
         /\ \A q \in Requests : q # r => req'[q] = req[q]
         /\ Creators' = Creators \ {r}
<1>1. [Idle EXCEPT !.pc = a] \in RequestState
  BY IdleFacts DEF Phases
<1>2. /\ req' \in [Requests -> RequestState] /\ req'[r].pc = a
      /\ \A q \in Requests : q # r => req'[q] = req[q]
  BY <1>1 DEF TypeOK, Answer, RequestState, Idle
<1>. QED
  BY <1>2 DEF Creators

(* The requests that a step leaves alone stay as sound as they were.       *)
LEMMA StaysGrounded ==
  ASSUME TypeOK, GroundedInv, NEW r \in Requests, req'[r] = req[r], Ages
  PROVE  Grounded(r)'
<1>1. /\ req[r].target \in Sessions \cup {Null} /\ req[r].expired \in Sessions \cup {Null}
      /\ Grounded(r)
  BY DEF TypeOK, RequestState, GroundedInv
<1>. QED
  BY <1>1 DEF Grounded, InFlight, Ages

(* A request ends: what remains to be shown of its step.                   *)
LEMMA EndsIInv ==
  ASSUME IInv, NEW r \in Requests, NEW a \in {"ok", "rejected"}, Answer(r, a),
         now' = now, session' \in [Sessions -> Row], bill' \in [Sessions -> Nat],
         split' \in BOOLEAN, split => split', Ages, BillInv', OrderedIsNotWaiting',
         ~split' => \/ AliveSessions' \subseteq AliveSessions
                    \/ /\ Creators' = {}
                       /\ \E s \in Sessions : AliveSessions' \subseteq {s}
  PROVE  IInv'
<1>0. /\ TypeOK /\ GroundedInv /\ req' \in [Requests -> RequestState]
      /\ req'[r].pc = a
      /\ \A q \in Requests : q # r => req'[q] = req[q]
      /\ Creators' = Creators \ {r}
  BY AnswerFacts DEF IInv
<1>1. TypeOK'
  BY <1>0 DEF TypeOK
<1>2. GroundedInv'
  <2>1. Grounded(r)'
    BY <1>0 DEF Grounded, InFlight
  <2>2. ASSUME NEW q \in Requests, q # r PROVE Grounded(q)'
    BY <1>0, <2>2, StaysGrounded
  <2>. QED
    BY <2>1, <2>2 DEF GroundedInv
<1>3. SoloInv'
  <2> SUFFICES ASSUME ~split', ~split PROVE SoloInv'
    BY DEF SoloInv
  <2>1. CASE AliveSessions' \subseteq AliveSessions
    <3>1. \A q \in Creators' : q \in Creators /\ q \in Requests /\ req'[q] = req[q]
      BY <1>0 DEF Creators
    <3>. QED
      BY <2>1, <3>1 DEF IInv, SoloInv
  <2>2. CASE Creators' = {} /\ \E s \in Sessions : AliveSessions' \subseteq {s}
    BY <2>2 DEF SoloInv
  <2>. QED
    BY <2>1, <2>2
<1>. QED
  BY <1>1, <1>2, <1>3 DEF IInv

(* Commits that leave every session as it is, or close one.                *)
LEMMA SameSessions ==
  ASSUME IInv, UNCHANGED session
  PROVE  Ages /\ AliveSessions' = AliveSessions /\ session' \in [Sessions -> Row]
BY DEF IInv, TypeOK, Ages, AliveSessions

\* What a write of one row does to the rows and to those alive.
LEMMA OneRowChanges ==
  ASSUME IInv, NEW s \in Sessions, NEW row \in Row,
         session' = [session EXCEPT ![s] = row]
  PROVE  /\ session' \in [Sessions -> Row] /\ session'[s] = row
         /\ \A t \in Sessions : t # s => session'[t] = session[t]
         /\ AliveSessions' = IF row.status \in Alive THEN AliveSessions \cup {s}
                             ELSE AliveSessions \ {s}
BY DEF IInv, TypeOK, AliveSessions

-----------------------------------------------------------------------------
(* A request starts: only a lookup for the table can create a session.     *)
LEMMA BeginsIInv ==
  ASSUME IInv, NEW r \in Requests, NEW x \in RequestState,
         req' = [req EXCEPT ![r] = x], UNCHANGED <<now, session, bill>>,
         split' = split, x.target # Null,
         session[x.target].status # "unborn",
         x.owner \/ x.snap.status \in Alive,
         x.snap.status = "ACTIVE" => session[x.target].status # "WAITING_ORDER",
         x.expired = Null
  PROVE  IInv'
<1>0. /\ TypeOK /\ GroundedInv /\ req' \in [Requests -> RequestState] /\ req'[r] = x
      /\ \A q \in Requests : q # r => req'[q] = req[q]
  BY DEF IInv, TypeOK
<1>1. Ages /\ AliveSessions' = AliveSessions
  BY SameSessions
<1>2. TypeOK'
  BY <1>0 DEF TypeOK
<1>3. GroundedInv'
  <2>1. Grounded(r)'
    BY <1>0 DEF Grounded, InFlight
  <2>2. ASSUME NEW q \in Requests, q # r PROVE Grounded(q)'
    BY <1>0, <1>1, <2>2, StaysGrounded
  <2>. QED
    BY <2>1, <2>2 DEF GroundedInv
<1>4. BillInv' /\ OrderedIsNotWaiting'
  BY DEF IInv, BillInv, OrderedIsNotWaiting
<1>5. SoloInv'
  <2>1. \A q \in Creators' : q \in Creators /\ q # r /\ q \in Requests
    BY <1>0 DEF Creators
  <2>. QED
    BY <1>0, <1>1, <2>1 DEF IInv, SoloInv
<1>. QED
  BY <1>2, <1>3, <1>4, <1>5 DEF IInv

\* Looking up the session of a scanned table keeps the invariant.
LEMMA FindForTableIInv ==
  ASSUME IInv, NEW r \in Requests, FindForTable(r)
  PROVE  IInv'
<1>0. /\ TypeOK /\ GroundedInv /\ UNCHANGED <<now, session, bill>>
      /\ split' = (split \/ (Creators # {} /\ req'[r].target = Null))
      /\ session \in [Sessions -> Row] /\ req \in [Requests -> RequestState]
      /\ split \in BOOLEAN
  BY DEF IInv, TypeOK, FindForTable
<1>1. PICK op \in {"scan", "ownerOrder"} :
        LET q == [Idle EXCEPT !.pc = "write", !.op = op] IN
        \/ Findable = {} /\ req' = [req EXCEPT ![r] = q]
        \/ \E s \in Findable :
             req' = [req EXCEPT ![r] =
                       IF Expired(session[s]) THEN [q EXCEPT !.expired = s]
                       ELSE [q EXCEPT !.target = s, !.snap = session[s]]]
  BY DEF FindForTable
<1> DEFINE new == [Idle EXCEPT !.pc = "write", !.op = op]
<1>2. /\ new \in RequestState /\ new.pc = "write" /\ new.op = op /\ new.target = Null
      /\ new.expired = Null /\ new.snap.status = "unborn"
  <2>1. op \in Operations /\ "write" \in Phases /\ Idle \in RequestState
    BY IdleFacts DEF Operations, Phases
  <2>2. new \in RequestState
    BY <2>1 DEF RequestState
  <2>. QED
    BY <2>2 DEF Idle, Unborn
<1>3. Ages /\ AliveSessions' = AliveSessions
  BY <1>0, SameSessions
<1>4. BillInv' /\ OrderedIsNotWaiting'
  BY <1>0 DEF IInv, BillInv, OrderedIsNotWaiting
<1>5. ASSUME NEW e \in Sessions \cup {Null}, req' = [req EXCEPT ![r] = [new EXCEPT !.expired = e]],
             e # Null => e \in AliveSessions, e = Null => AliveSessions = {}
      PROVE  IInv'
  <2> DEFINE x == [new EXCEPT !.expired = e]
  <2>1. /\ x \in RequestState /\ x.pc = "write" /\ x.op = op /\ x.target = Null
        /\ x.expired = e /\ x.snap.status = "unborn"
    BY <1>2 DEF RequestState
  <2>2. /\ req' \in [Requests -> RequestState] /\ req'[r] = x
        /\ \A q \in Requests : q # r => req'[q] = req[q]
    BY <1>0, <1>5, <2>1
  <2>. HIDE DEF x
  <2>3. split' = (split \/ Creators # {})
    BY <1>0, <2>1, <2>2
  <2>4. TypeOK'
    BY <1>0, <2>2, <2>3 DEF TypeOK
  <2>5. GroundedInv'
    <3>1. Grounded(r)'
      BY <1>0, <1>5, <2>1, <2>2 DEF Grounded, AliveSessions, Alive
    <3>2. ASSUME NEW q \in Requests, q # r PROVE Grounded(q)'
      BY <1>0, <1>3, <2>2, <3>2, StaysGrounded
    <3>. QED
      BY <3>1, <3>2 DEF GroundedInv
  <2>6. SoloInv'
    <3> SUFFICES ASSUME ~split' PROVE SoloInv'
      BY DEF SoloInv
    <3>1. ~split /\ Creators = {}
      BY <2>3
    <3>2. \A q \in Creators' : q = r
      BY <2>2, <3>1 DEF Creators
    <3>3. AliveSessions \subseteq {e}
      BY <1>5, <3>1 DEF IInv, SoloInv
    <3>. QED
      BY <1>3, <2>1, <2>2, <3>1, <3>2, <3>3 DEF IInv, SoloInv
  <2>. QED
    BY <1>4, <2>4, <2>5, <2>6 DEF IInv
<1>6. CASE Findable = {} /\ req' = [req EXCEPT ![r] = new]
  <2>1. [new EXCEPT !.expired = Null] = new
    BY <1>2 DEF RequestState
  <2>. QED
    BY <1>5, <1>6, <2>1 DEF Findable
<1>7. ASSUME NEW s \in Findable, req' = [req EXCEPT ![r] = [new EXCEPT !.expired = s]]
      PROVE  IInv'
  <2>1. s \in Sessions /\ s \in AliveSessions /\ s # Null
    BY NullAssumption DEF Findable, AliveSessions
  <2>. QED
    BY <1>5, <1>7, <2>1
<1>8. ASSUME NEW s \in Findable,
             req' = [req EXCEPT ![r] = [new EXCEPT !.target = s, !.snap = session[s]]]
      PROVE  IInv'
  <2> DEFINE x == [new EXCEPT !.target = s, !.snap = session[s]]
  <2>1. s \in Sessions /\ s # Null /\ session[s] \in Row /\ session[s].status \in Alive
    BY <1>0, NullAssumption DEF Findable, AliveSessions
  <2>2. /\ x \in RequestState /\ x.target = s /\ x.snap = session[s] /\ x.expired = Null
    BY <1>2, <2>1 DEF RequestState
  <2>. HIDE DEF x
  <2>3. req'[r] = x
    BY <1>0, <1>8, <2>2 DEF x
  <2>4. split' = split
    BY <1>0, <2>1, <2>2, <2>3
  <2>5. session[s].status # "unborn"
    BY <2>1 DEF Alive
  <2>. QED
    BY <1>0, <1>8, <2>1, <2>2, <2>4, <2>5, BeginsIInv DEF x
<1>. QED
  BY <1>1, <1>6, <1>7, <1>8

\* The other lookups of a session keep the invariant.
LEMMA LookupsIInv ==
  ASSUME IInv, NEW r \in Requests,
         FindForOrder(r) \/ PatchByCustomer(r) \/ PatchByOwner(r)
  PROVE  IInv'
<1>0. TypeOK /\ session \in [Sessions -> Row] /\ req \in [Requests -> RequestState]
  BY DEF IInv, TypeOK
<1>1. CASE FindForOrder(r)
  <2>0. PICK s \in Born :
          IF Orderable(s)
            THEN req' = [req EXCEPT ![r] = [Idle EXCEPT !.pc = "write", !.op = "order",
                                              !.target = s, !.snap = session[s]]]
            ELSE Answer(r, "rejected")
    BY <1>1 DEF FindForOrder
  <2>1. UNCHANGED <<now, session, bill, split>>
    BY <1>1 DEF FindForOrder
  <2>2. CASE ~Orderable(s)
    <3>1. Ages /\ AliveSessions' = AliveSessions /\ session' \in [Sessions -> Row]
      BY <2>1, SameSessions
    <3>2. BillInv' /\ OrderedIsNotWaiting'
      BY <2>1 DEF IInv, BillInv, OrderedIsNotWaiting
    <3>. QED
      BY <1>0, <2>0, <2>1, <2>2, <3>1, <3>2, EndsIInv DEF TypeOK
  <2>3. CASE Orderable(s)
    <3> DEFINE x == [Idle EXCEPT !.pc = "write", !.op = "order",
                                 !.target = s, !.snap = session[s]]
    <3>1. /\ s \in Sessions /\ s # Null /\ session[s] \in Row
          /\ session[s].status \in Alive /\ session[s].status # "unborn"
      BY <1>0, <2>3, NullAssumption DEF Orderable, AliveSessions, Alive
    <3>2. x \in RequestState
      BY <3>1, IdleFacts, ZenonT(60) DEF RequestState, Phases, Operations
    <3>3. x.target = s /\ x.snap = session[s] /\ x.expired = Null
      BY DEF Idle
    <3>. HIDE DEF x
    <3>. QED
      BY <2>0, <2>1, <2>3, <3>1, <3>2, <3>3, BeginsIInv DEF x
  <2>. QED
    BY <2>2, <2>3
<1>2. ASSUME NEW s \in Born, NEW op \in OwnerPatches, NEW owner \in BOOLEAN,
             owner \/ session[s].status \in Alive, ReadForPatch(r, s, op, owner)
      PROVE  IInv'
  <2> DEFINE pc == IF op = "PAYMENT_PENDING" THEN "sum" ELSE "write"
             x == [Idle EXCEPT !.pc = pc, !.op = op, !.owner = owner,
                               !.target = s, !.snap = session[s]]
  <2>1. /\ s \in Sessions /\ s # Null /\ session[s] \in Row
        /\ session[s].status # "unborn"
    BY <1>0, NullAssumption DEF Born
  <2>2. pc \in Phases /\ op \in Operations
    BY DEF Phases, Operations, OwnerPatches, CustomerPatches
  <2>3. x \in RequestState
    BY <2>1, <2>2, IdleFacts DEF RequestState
  <2>4. x.target = s /\ x.snap = session[s] /\ x.expired = Null /\ x.owner = owner
    BY DEF Idle
  <2>5. req' = [req EXCEPT ![r] = x] /\ UNCHANGED <<now, session, bill, split>>
    BY <1>2 DEF ReadForPatch
  <2>. HIDE DEF x
  <2>. QED
    BY <1>2, <2>1, <2>3, <2>4, <2>5, BeginsIInv
<1>3. CASE PatchByCustomer(r)
  BY <1>2, <1>3 DEF PatchByCustomer, PassesGuard, OwnerPatches
<1>4. CASE PatchByOwner(r)
  BY <1>2, <1>4 DEF PatchByOwner
<1>. QED
  BY <1>1, <1>3, <1>4

-----------------------------------------------------------------------------
(* What is known of a request in flight for a session it names.            *)
LEMMA TargetFacts ==
  ASSUME IInv, NEW r \in Requests, InFlight(r), req[r].target # Null
  PROVE  /\ req[r].target \in Sessions /\ req[r].expired = Null
         /\ session[req[r].target] \in Row
         /\ session[req[r].target].status # "unborn"
         /\ req[r].snap.status = "ACTIVE" =>
              session[req[r].target].status # "WAITING_ORDER"
         /\ req[r].owner \/ req[r].snap.status \in Alive
BY DEF IInv, TypeOK, RequestState, GroundedInv, Grounded

(* The patches write the row of a session that is there.                   *)
LEMMA PatchTarget ==
  ASSUME IInv, NEW r \in Requests, InFlight(r), req[r].op \notin {"scan", "ownerOrder"}
  PROVE  req[r].target # Null
BY DEF IInv, GroundedInv, Grounded

(* A step that ends a request and changes no session.                      *)
LEMMA RejectsIInv ==
  ASSUME IInv, NEW r \in Requests, NEW a \in {"ok", "rejected"}, Answer(r, a),
         UNCHANGED <<now, session, bill, split>>
  PROVE  IInv'
<1>1. Ages /\ AliveSessions' = AliveSessions /\ session' \in [Sessions -> Row]
  BY SameSessions
<1>2. BillInv' /\ OrderedIsNotWaiting'
  BY DEF IInv, BillInv, OrderedIsNotWaiting
<1>3. bill' \in [Sessions -> Nat] /\ split' \in BOOLEAN
  BY DEF IInv, TypeOK
<1>. QED
  BY <1>1, <1>2, <1>3, EndsIInv

(* A step that ends a request and replaces the row of the session it       *)
(* names by one that is past waiting; the session may come back to life.   *)
LEMMA WritesIInv ==
  ASSUME IInv, NEW r \in Requests, Answer(r, "ok"), now' = now,
         NEW s \in Sessions, NEW row \in Row, session[s].status # "unborn",
         session' = [session EXCEPT ![s] = row],
         row.status \in {"ACTIVE", "CLOSED", session[s].status},
         bill' \in [Sessions -> Nat], \A t \in Sessions : t # s => bill'[t] = bill[t],
         bill'[s] = bill[s] \/ row.status # "WAITING_ORDER",
         split' \in BOOLEAN, split => split',
         row.status = "ACTIVE" /\ RevivedBesides(s) => split'
  PROVE  IInv'
<1>0. TypeOK /\ session[s] \in Row
  BY DEF IInv, TypeOK
<1>1. /\ session' \in [Sessions -> Row] /\ session'[s] = row
      /\ \A t \in Sessions : t # s => session'[t] = session[t]
      /\ AliveSessions' = IF row.status \in Alive THEN AliveSessions \cup {s}
                          ELSE AliveSessions \ {s}
  BY OneRowChanges
<1>2. Ages
  BY <1>1 DEF Ages
<1>3. BillInv' /\ OrderedIsNotWaiting'
  BY <1>0, <1>1 DEF IInv, BillInv, OrderedIsNotWaiting
<1>4. CASE row.status \notin Alive
  BY <1>1, <1>2, <1>3, <1>4, EndsIInv
<1>5. CASE row.status \in Alive
  <2>1. row.status = "ACTIVE" \/ row.status = session[s].status
    BY <1>5 DEF Alive
  <2>2. CASE session[s].status \in Alive
    <3>1. AliveSessions' \subseteq AliveSessions
      BY <1>1, <2>2 DEF AliveSessions
    <3>. QED
      BY <1>1, <1>2, <1>3, <3>1, EndsIInv
  <2>3. CASE session[s].status \notin Alive
    <3>1. session[s].status = "CLOSED" /\ row.status = "ACTIVE"
      BY <1>0, <1>5, <2>1, <2>3 DEF Row
    <3>2. ~split' => AliveSessions = {} /\ Creators = {}
      BY <3>1 DEF RevivedBesides
    <3>3. Creators' = Creators \ {r}
      BY <1>0, AnswerFacts
    <3>. QED
      BY <1>1, <1>2, <1>3, <1>5, <3>2, <3>3, EndsIInv
  <2>. QED
    BY <2>2, <2>3
<1>. QED
  BY <1>4, <1>5

\* The writes of payments, activations and extensions keep the invariant.
LEMMA PatchesIInv ==
  ASSUME IInv, NEW r \in Requests,
         CommitPayment(r) \/ ActivateSession(r) \/ DeactivateSession(r)
           \/ ExtendExpiry(r) \/ ReactivateSession(r)
  PROVE  IInv'
<1> DEFINE s == req[r].target
<1>0. /\ TypeOK /\ s \in Sessions /\ session[s] \in Row /\ session[s].status # "unborn"
      /\ req[r] \in RequestState /\ bill \in [Sessions -> Nat] /\ split \in BOOLEAN
      /\ session \in [Sessions -> Row]
  <2>1. InFlight(r) /\ req[r].op \notin {"scan", "ownerOrder"}
    BY DEF CommitPayment, ActivateSession, DeactivateSession, ExtendExpiry,
           ReactivateSession, InFlight
  <2>. QED
    BY <2>1, PatchTarget, TargetFacts DEF IInv, TypeOK
<1>1. CASE CommitPayment(r)
  <2> DEFINE row == Settled(session[s], req[r].sum)
  <2>1. row \in Row /\ row.status = "CLOSED"
    BY <1>0, RowFacts DEF RequestState
  <2>. HIDE DEF row
  <2>2. session' = [session EXCEPT ![s] = row]
    BY <1>0, <1>1 DEF CommitPayment, row
  <2>. QED
    BY <1>0, <1>1, <2>1, <2>2, WritesIInv DEF CommitPayment
<1>2. CASE ActivateSession(r)
  <2>1. PICK paid \in IF req[r].owner THEN {session[s].paid, 0} ELSE {session[s].paid} :
          session' = [session EXCEPT ![s] = [Activated(@) EXCEPT !.paid = paid]]
    BY <1>2 DEF ActivateSession
  <2> DEFINE row == [Activated(session[s]) EXCEPT !.paid = paid]
  <2>2. Activated(session[s]) \in Row /\ Activated(session[s]).status = "ACTIVE"
    BY <1>0, RowFacts
  <2>3. paid \in Nat \cup {Null}
    BY <1>0 DEF Row
  <2>4. row \in Row /\ row.status = "ACTIVE"
    BY <2>2, <2>3 DEF Row
  <2>. HIDE DEF row
  <2>5. session' = [session EXCEPT ![s] = row]
    BY <1>0, <2>1 DEF row
  <2>. QED
    BY <1>0, <1>2, <2>4, <2>5, WritesIInv DEF ActivateSession
<1>3. CASE DeactivateSession(r)
  <2> DEFINE row == Closed(session[s])
  <2>1. row \in Row /\ row.status = "CLOSED"
    BY <1>0, RowFacts
  <2>. HIDE DEF row
  <2>2. session' = [session EXCEPT ![s] = row]
    BY <1>0, <1>3 DEF DeactivateSession, row
  <2>. QED
    BY <1>0, <1>3, <2>1, <2>2, WritesIInv DEF DeactivateSession
<1>4. CASE ExtendExpiry(r)
  <2>1. CASE session[s].status \notin Alive
    BY <1>4, <2>1, RejectsIInv DEF ExtendExpiry
  <2>2. CASE session[s].status \in Alive
    <3> DEFINE row == [session[s] EXCEPT !.expiresAt = req[r].snap.expiresAt + ExtendBy]
    <3>1. req[r].snap.expiresAt + ExtendBy \in Nat
      BY <1>0, TtlAssumption DEF RequestState, Row
    <3>2. row \in Row /\ row.status = session[s].status
      BY <1>0, <3>1 DEF Row
    <3>. HIDE DEF row
    <3>3. session' = [session EXCEPT ![s] = row]
      BY <1>0, <1>4, <2>2 DEF ExtendExpiry, row
    <3>4. row.status = "ACTIVE" => ~RevivedBesides(s)
      BY <3>2 DEF RevivedBesides
    <3>. QED
      BY <1>0, <1>4, <2>2, <3>2, <3>3, <3>4, WritesIInv DEF ExtendExpiry
  <2>. QED
    BY <2>1, <2>2
<1>5. CASE ReactivateSession(r)
  <2> DEFINE row == [session[s] EXCEPT !.status = "ACTIVE", !.closed = FALSE]
  <2>1. row \in Row /\ row.status = "ACTIVE"
    BY <1>0 DEF Row, Alive
  <2>2. session' = [session EXCEPT ![s] = row]
    BY <1>0, <1>5 DEF ReactivateSession
  <2>. HIDE DEF row
  <2>. QED
    BY <1>0, <1>5, <2>1, <2>2, WritesIInv, ZenonT(60) DEF ReactivateSession
<1>. QED
  BY <1>1, <1>2, <1>3, <1>4, <1>5

(* A lookup for the table is over, and the session is the one found.       *)
LEMMA LocatedFound ==
  ASSUME IInv, NEW r \in Requests, InFlight(r), req[r].target # Null,
         NEW s \in Sessions, Target(r, s)
  PROVE  Located(r, s) = session /\ s = req[r].target
<1>1. req[r].expired \notin Sessions /\ session \in [Sessions -> Row]
  BY TargetFacts, NullAssumption DEF IInv, TypeOK
<1>. QED
  BY <1>1 DEF Located, Target

(* ... or a new one, and the one found expired is closed.                  *)
LEMMA LocatedNew ==
  ASSUME IInv, NEW r \in Requests, req[r].pc = "write", req[r].target = Null,
         NEW s \in Sessions, Target(r, s), NEW row \in Row, row.status \in Alive,
         session' = [Located(r, s) EXCEPT ![s] = row], Answer(r, "ok"),
         now' = now, bill' \in [Sessions -> Nat],
         \A t \in Sessions : t # s => bill'[t] = bill[t],
         bill'[s] = bill[s] \/ row.status # "WAITING_ORDER",
         split' \in BOOLEAN, split => split'
  PROVE  IInv'
<1> DEFINE e == req[r].expired
<1>0. /\ TypeOK /\ session \in [Sessions -> Row] /\ s \notin Born
      /\ session[s].status = "unborn" /\ r \in Creators
      /\ e # Null => session[e].status # "unborn"
  BY DEF IInv, TypeOK, Target, Born, Creators, GroundedInv, Grounded, InFlight
<1>1. s # e
  BY <1>0, NullAssumption
<1>2. ASSUME NEW t \in Sessions, t # s
      PROVE  /\ session'[t] = IF t = e THEN Closed(session[t]) ELSE session[t]
             /\ session'[t] \in Row
  BY <1>0, <1>2, RowFacts DEF Located
<1>3. session'[s] = row
  BY <1>0 DEF Located
<1>4. session' \in [Sessions -> Row]
  BY <1>2, <1>3 DEF Located
<1>5. Ages
  BY <1>0, <1>2, RowFacts DEF Ages
<1>6. BillInv' /\ OrderedIsNotWaiting'
  <2>1. \A t \in Sessions : t # s /\ t = e => session'[t].status = "CLOSED"
    BY <1>0, <1>2, RowFacts
  <2>2. bill[s] = 0
    BY <1>0 DEF IInv, BillInv
  <2>3. BillInv'
    BY <1>2, <1>3, <2>1 DEF IInv, BillInv, Alive
  <2>4. OrderedIsNotWaiting'
    BY <1>2, <1>3, <2>1, <2>2 DEF IInv, OrderedIsNotWaiting
  <2>. QED
    BY <2>3, <2>4
<1>7. ~split' => Creators' = {} /\ AliveSessions' \subseteq {s}
  <2> SUFFICES ASSUME ~split' PROVE Creators' = {} /\ AliveSessions' \subseteq {s}
    OBVIOUS
  <2>1. Creators = {r} /\ AliveSessions \subseteq {e}
    BY <1>0 DEF IInv, SoloInv
  <2>2. Creators' = {}
    BY <1>0, <2>1, AnswerFacts
  <2>3. ASSUME NEW t \in AliveSessions', t # s PROVE FALSE
    <3>1. t \in Sessions /\ session'[t].status \in Alive
      BY <2>3 DEF AliveSessions
    <3>2. t # e
      BY <1>0, <1>2, <2>3, <3>1, RowFacts DEF Alive
    <3>3. t \in AliveSessions
      BY <1>2, <2>3, <3>1, <3>2 DEF AliveSessions
    <3>. QED
      BY <2>1, <3>2, <3>3
  <2>. QED
    BY <2>2, <2>3
<1>. QED
  BY <1>4, <1>5, <1>6, <1>7, EndsIInv

\* The commit of a scan keeps the invariant.
LEMMA CommitScanIInv == ASSUME IInv, NEW r \in Requests, CommitScan(r) PROVE IInv'
<1>0. /\ TypeOK /\ InFlight(r) /\ session \in [Sessions -> Row]
      /\ bill \in [Sessions -> Nat] /\ split \in BOOLEAN
  BY DEF IInv, TypeOK, CommitScan, InFlight
<1>1. PICK s \in Sessions : Target(r, s) /\ session' = Located(r, s)
  BY DEF CommitScan
<1>2. CASE req[r].target # Null
  BY <1>0, <1>1, <1>2, LocatedFound, RejectsIInv DEF CommitScan
<1>3. CASE req[r].target = Null
  <2>1. NewSession \in Row /\ NewSession.status = "WAITING_ORDER"
    BY <1>0, RowFacts
  <2>2. session[s].status = "unborn" /\
        (req[r].expired # Null => session[req[r].expired].status # "unborn")
    BY <1>0, <1>1, <1>3 DEF Target, Born, IInv, GroundedInv, Grounded
  <2>3. s # req[r].expired
    BY <2>2, NullAssumption
  <2>4. Located(r, s)[s] = NewSession
    BY <1>3, <2>3 DEF Located
  <2>5. session' = [Located(r, s) EXCEPT ![s] = NewSession]
    BY <1>1, <2>4 DEF Located
  <2>. QED
    BY <1>0, <1>1, <1>3, <2>1, <2>5, LocatedNew DEF CommitScan, Alive
<1>. QED
  BY <1>2, <1>3

\* The commit of an order keeps the invariant.
LEMMA CommitOrderIInv == ASSUME IInv, NEW r \in Requests, CommitOrder(r) PROVE IInv'
<1>0. /\ TypeOK /\ InFlight(r) /\ session \in [Sessions -> Row]
      /\ bill \in [Sessions -> Nat] /\ split \in BOOLEAN
  BY DEF IInv, TypeOK, CommitOrder, InFlight
<1>1. PICK s \in Sessions :
        /\ Target(r, s)
        /\ session' = IF req[r].snap.status = "ACTIVE" THEN Located(r, s)
                      ELSE [Located(r, s) EXCEPT ![s] = Activated(@)]
        /\ bill' = [bill EXCEPT ![s] = @ + 1]
        /\ split' = (split \/ RevivedBesides(s))
  BY DEF CommitOrder
<1>2. /\ bill' \in [Sessions -> Nat] /\ split' \in BOOLEAN /\ (split => split')
      /\ \A t \in Sessions : t # s => bill'[t] = bill[t]
  BY <1>0, <1>1 DEF RevivedBesides
<1>3. CASE req[r].target # Null
  <2>1. /\ Located(r, s) = session /\ s = req[r].target
        /\ session[s] \in Row /\ session[s].status # "unborn"
        /\ req[r].snap.status = "ACTIVE" => session[s].status # "WAITING_ORDER"
    BY <1>0, <1>1, <1>3, LocatedFound, TargetFacts
  <2>2. CASE req[r].snap.status = "ACTIVE"
    <3>1. session' = [session EXCEPT ![s] = session[s]]
      BY <1>0, <1>1, <2>1, <2>2
    <3>2. session[s].status = "ACTIVE" => ~RevivedBesides(s)
      BY DEF RevivedBesides
    <3>. QED
      BY <1>0, <1>2, <2>1, <2>2, <3>1, <3>2, WritesIInv DEF CommitOrder
  <2>3. CASE req[r].snap.status # "ACTIVE"
    <3> DEFINE row == Activated(session[s])
    <3>1. row \in Row /\ row.status = "ACTIVE"
      BY <1>0, <2>1, RowFacts
    <3>2. session' = [session EXCEPT ![s] = row]
      BY <1>0, <1>1, <2>1, <2>3
    <3>. HIDE DEF row
    <3>3. RevivedBesides(s) => split'
      BY <1>1
    <3>4. Answer(r, "ok") /\ now' = now
      BY DEF CommitOrder
    <3>. QED
      BY <1>0, <1>2, <2>1, <3>1, <3>2, <3>3, <3>4, WritesIInv
  <2>. QED
    BY <2>2, <2>3
<1>4. CASE req[r].target = Null
  <2>1. req[r].snap.status = "unborn" /\ session[s].status = "unborn"
        /\ (req[r].expired # Null => session[req[r].expired].status # "unborn")
    BY <1>0, <1>1, <1>4 DEF Target, Born, IInv, GroundedInv, Grounded
  <2>2. s # req[r].expired
    BY <2>1, NullAssumption
  <2>3. Located(r, s)[s] \in Row
    BY <1>0, <1>4, <2>2, RowFacts DEF Located
  <2> DEFINE row == Activated(Located(r, s)[s])
  <2>4. row \in Row /\ row.status = "ACTIVE"
    BY <1>0, <2>3, RowFacts
  <2>5. session' = [Located(r, s) EXCEPT ![s] = row]
    BY <1>1, <2>1
  <2>. HIDE DEF row
  <2>. QED
    BY <1>0, <1>1, <1>2, <1>4, <2>4, <2>5, LocatedNew DEF CommitOrder, Alive
<1>. QED
  BY <1>3, <1>4

-----------------------------------------------------------------------------
(* txFinishSessionByPayment adds up before it writes.                      *)
LEMMA SumOrdersIInv == ASSUME IInv, NEW r \in Requests, SumOrders(r) PROVE IInv'
<1> DEFINE s == req[r].target
<1>0. /\ TypeOK /\ InFlight(r) /\ req[r] \in RequestState /\ bill \in [Sessions -> Nat]
      /\ req \in [Requests -> RequestState] /\ UNCHANGED <<now, session, bill, split>>
  BY DEF IInv, TypeOK, SumOrders, InFlight
<1>1. CASE bill[s] = 0
  BY <1>1, RejectsIInv DEF SumOrders
<1>2. CASE bill[s] # 0
  <2> DEFINE x == [req[r] EXCEPT !.pc = "write", !.sum = bill[s]]
  <2>1. req' = [req EXCEPT ![r] = x]
    BY <1>0, <1>2 DEF SumOrders
  <2>2. CASE s # Null
    <3>1. s \in Sessions
      BY <1>0, <2>2, TargetFacts
    <3>2. /\ x \in RequestState /\ x.target = s /\ x.snap = req[r].snap
          /\ x.owner = req[r].owner /\ x.expired = req[r].expired
      BY <1>0, <3>1 DEF RequestState, Phases
    <3>. HIDE DEF x
    <3>. QED
      BY <1>0, <2>1, <2>2, <3>2, TargetFacts, BeginsIInv
  <2>3. CASE s = Null
    <3>1. FALSE
      BY <1>0, <2>3 DEF IInv, GroundedInv, Grounded, SumOrders
    <3>. QED
      BY <3>1
  <2>. QED
    BY <2>2, <2>3
<1>. QED
  BY <1>1, <1>2

\* The inductive invariant holds at the start.
LEMMA InitIInv == Init => IInv
<1> SUFFICES ASSUME Init PROVE IInv
  OBVIOUS
<1>1. TypeOK
  <2>1. Idle \in RequestState /\ Unborn \in Row /\ 0 \in 0..MaxTime
    BY IdleFacts, MaxTimeAssumption DEF Unborn, Row
  <2>. QED
    BY <2>1 DEF Init, TypeOK
<1>2. /\ \A s \in Sessions : session[s].status = "unborn" /\ bill[s] = 0
      /\ \A r \in Requests : req[r].pc = "idle"
  BY DEF Init, Unborn, Idle
<1>3. GroundedInv /\ BillInv /\ OrderedIsNotWaiting
  BY <1>2 DEF GroundedInv, Grounded, InFlight, BillInv, OrderedIsNotWaiting
<1>4. SoloInv
  BY <1>2 DEF SoloInv, AliveSessions, Creators, Alive
<1>. QED
  BY <1>1, <1>3, <1>4 DEF IInv

\* The passing of time keeps the inductive invariant.
LEMMA StutterIInv == ASSUME IInv, UNCHANGED <<session, bill, req, split>>,
                            now' \in 0..MaxTime
                     PROVE  IInv'
BY DEF IInv, TypeOK, GroundedInv, Grounded, InFlight, BillInv,
       OrderedIsNotWaiting, SoloInv, AliveSessions, Creators

\* Every step of a request keeps the inductive invariant.
LEMMA StepIInv == ASSUME IInv, NEW r \in Requests, Step(r) PROVE IInv'
<1>1. CASE Refuse(r)
  BY <1>1, RejectsIInv DEF Refuse
<1>. QED
  BY <1>1, FindForTableIInv, LookupsIInv, CommitScanIInv, CommitOrderIInv,
     SumOrdersIInv, PatchesIInv DEF Step

\* Every step keeps the inductive invariant.
THEOREM NextIInv == IInv /\ [Next]_vars => IInv'
<1> SUFFICES ASSUME IInv, [Next]_vars PROVE IInv'
  OBVIOUS
<1>1. CASE Tick
  <2>1. now' \in 0..MaxTime
    BY <1>1, MaxTimeAssumption DEF Tick, IInv, TypeOK
  <2>. QED
    BY <1>1, <2>1, StutterIInv DEF Tick
<1>2. CASE UNCHANGED vars
  BY <1>2, StutterIInv DEF vars, IInv, TypeOK
<1>. QED
  BY <1>1, <1>2, StepIInv DEF Next

\* The inductive invariant holds in every reachable state.
THEOREM TableInvariant == Spec => []IInv
BY InitIInv, NextIInv, PTL DEF Spec

(* The rows and requests have the shape the code's types give them.        *)
THEOREM TypeCorrect == Spec => []TypeOK
<1>1. IInv => TypeOK
  BY DEF IInv
<1>. QED
  BY <1>1, TableInvariant, PTL

(* A session with an order has left WAITING_ORDER, however orders,         *)
(* extensions, payments and closings of it overlap.                        *)
THEOREM OrdersActivate == Spec => []OrderedIsNotWaiting
<1>1. IInv => OrderedIsNotWaiting
  BY DEF IInv
<1>. QED
  BY <1>1, TableInvariant, PTL

(* txGetActivatedSessionOrCreate leaves a table with one session alive, as *)
(* long as no two of its lookups overlap with nobody seated and no closed  *)
(* session is brought back next to another.                                *)
THEOREM OneSessionUnlessSplit == Spec => []SplitNeedsOverlap
<1>1. IInv => SplitNeedsOverlap
  <2> SUFFICES ASSUME IInv, ~split PROVE Cardinality(AliveSessions) <= 1
    BY DEF SplitNeedsOverlap
  <2>1. \A s, t \in AliveSessions : s = t
    BY DEF IInv, SoloInv
  <2>2. CASE AliveSessions = {}
    BY <2>2, FS_EmptySet
  <2>3. CASE AliveSessions # {}
    <3>1. PICK s \in AliveSessions : AliveSessions = {s}
      BY <2>1, <2>3
    <3>2. Cardinality({s}) = 1
      BY FS_Singleton
    <3>. QED
      BY <3>1, <3>2
  <2>. QED
    BY <2>2, <2>3
<1>. QED
  BY <1>1, TableInvariant, PTL

-----------------------------------------------------------------------------
ClosedChange ==
  \A s \in Sessions :
    session[s].status = "CLOSED"
      /\ (session'[s].status # "CLOSED" \/ bill'[s] # bill[s])
    => \E r \in Requests :
         /\ req'[r] # req[r] /\ req[r].target = s
         /\ req[r].owner \/ req[r].snap.status \in Alive

\* A request changes at most the session it names, one that is not born, or
\* one that it closes.
LEMMA CommitsTouchTheirs ==
  ASSUME IInv, NEW r \in Requests, CommitScan(r) \/ CommitOrder(r),
         NEW s \in Sessions, session[s].status = "CLOSED",
         session'[s].status # "CLOSED" \/ bill'[s] # bill[s]
  PROVE  req[r].target = s
<1>0. /\ TypeOK /\ InFlight(r) /\ session \in [Sessions -> Row]
      /\ bill \in [Sessions -> Nat]
  BY DEF IInv, TypeOK, CommitScan, CommitOrder, InFlight
<1>1. PICK t \in Sessions :
        /\ Target(r, t)
        /\ session' = Located(r, t) \/ session' = [Located(r, t) EXCEPT ![t] = Activated(@)]
        /\ bill' = bill \/ bill' = [bill EXCEPT ![t] = @ + 1]
  BY DEF CommitScan, CommitOrder
<1> SUFFICES ASSUME req[r].target # s PROVE FALSE
  OBVIOUS
<1>2. s # t
  BY <1>1 DEF Target, Born
<1>3. bill'[s] = bill[s]
  BY <1>0, <1>1, <1>2
<1>4. Located(r, t)[s].status = "CLOSED"
  BY <1>0, <1>2, RowFacts DEF Located
<1>5. session'[s].status = "CLOSED"
  BY <1>1, <1>2, <1>4 DEF Located
<1>. QED
  BY <1>3, <1>5

\* A step that changes a closed session has one of the causes.
LEMMA StepClosedChange ==
  ASSUME IInv, NEW r \in Requests, Step(r)
  PROVE  ClosedChange
<1> SUFFICES ASSUME NEW s \in Sessions, session[s].status = "CLOSED",
                    session'[s].status # "CLOSED" \/ bill'[s] # bill[s]
             PROVE  \E q \in Requests :
                      /\ req'[q] # req[q] /\ req[q].target = s
                      /\ req[q].owner \/ req[q].snap.status \in Alive
  BY DEF ClosedChange
<1>0. TypeOK /\ session \in [Sessions -> Row] /\ s # Null
  BY NullAssumption DEF IInv, TypeOK
<1>1. ~(FindForTable(r) \/ FindForOrder(r) \/ Refuse(r) \/ PatchByCustomer(r)
          \/ PatchByOwner(r) \/ SumOrders(r))
  BY DEF FindForTable, FindForOrder, Refuse, PatchByCustomer, PatchByOwner, ReadForPatch,
         SumOrders
<1>2. InFlight(r) /\ Answer(r, "ok") /\ req[r].target = s
  <2>1. CASE CommitScan(r) \/ CommitOrder(r)
    BY <2>1, CommitsTouchTheirs DEF CommitScan, CommitOrder, InFlight
  <2>2. CASE CommitPayment(r)
    BY <1>0, <2>2 DEF CommitPayment, InFlight
  <2>3. CASE ActivateSession(r)
    BY <1>0, <2>3 DEF ActivateSession, InFlight
  <2>4. CASE DeactivateSession(r)
    BY <1>0, <2>4 DEF DeactivateSession, InFlight
  <2>5. CASE ExtendExpiry(r)
    BY <1>0, <2>5 DEF ExtendExpiry, InFlight
  <2>6. CASE ReactivateSession(r)
    BY <1>0, <2>6 DEF ReactivateSession, InFlight
  <2>. QED
    BY <1>1, <2>1, <2>2, <2>3, <2>4, <2>5, <2>6 DEF Step
<1>3. req'[r] # req[r]
  BY <1>0, <1>2, AnswerFacts DEF InFlight
<1>. QED
  BY <1>0, <1>2, <1>3, TargetFacts

(* A closed session changes by the owner's command, or by a request that   *)
(* read it while it was alive; nobody else gets at it.                     *)
THEOREM ClosedStaysClosed == Spec => ClosedChangesHaveCause
<1>1. IInv /\ [Next]_vars => [ClosedChange]_vars
  <2> SUFFICES ASSUME IInv, Next PROVE ClosedChange \/ UNCHANGED vars
    BY DEF ClosedChange
  <2>1. CASE Tick
    BY <2>1 DEF Tick, ClosedChange
  <2>. QED
    BY <2>1, StepClosedChange DEF Next
<1>. QED
  BY <1>1, TableInvariant, PTL DEF Spec, ClosedChangesHaveCause, ClosedChange

(***************************************************************************)
(* The screens of the table: Notifications                                 *)
(***************************************************************************)

\* A console is in its room, or has a subscription under way, only if it has
\* asked for it last or an unsubscription has overtaken the subscription.
RoomsInv ==
  \A d \in Consoles :
    /\ sock[d] = "off" => d \notin joined /\ d \notin wanted /\ pending[d] = 0
    /\ d \in wanted => d \in joined \/ pending[d] > 0
    /\ (d \in joined \/ pending[d] > 0) => d \in wanted \/ d \in overtaken

\* Changes are of requests that have been sent; a request with a key is for an
\* order that is there, and the one that created it has the same key.
SentInv ==
  /\ \A c \in applied : reqs[c[1]].pc # "new"
  /\ \A r \in Calls : reqs[r].key # None => creator[reqs[r].key] # None
  /\ \A k \in Keys : creator[k] # None =>
       /\ reqs[creator[k]].key = k
       /\ reqs[creator[k]].pc # "new"
       /\ k \notin claimed => reqs[creator[k]].pc \in {"placed", "unsaid"}
  /\ \A r \in Calls : reqs[r].pc = "placed" => reqs[r].key # None

\* The event to come is for the changes made: those of the orders go to both
\* rooms, a cart changed by itself goes to the table.
EventInv ==
  \A r \in Calls : reqs[r].pc \in {"placed", "settled"} =>
    IF reqs[r].key # None THEN reqs[r].doc = "orders"
    ELSE \A c \in applied : c[1] = r => c[2] = reqs[r].doc

NotifyIInv == NotifyTypeOK /\ RoomsInv /\ SentInv /\ EventInv /\ EveryoneIsTold

\* What is known of the sender of a change and of the one that announces it.
LEMMA AnnouncerFacts ==
  ASSUME NotifyTypeOK, SentInv, NEW c \in applied, NEW a, a = Announcer(c[1])
  PROVE  /\ c[1] \in Calls /\ c[2] \in {"cart", "orders"} /\ c = <<c[1], c[2]>>
         /\ a \in Calls /\ reqs[a].pc # "new" /\ reqs[a].key = reqs[c[1]].key
         /\ reqs[c[1]].key = None => a = c[1]
         /\ reqs[c[1]].key # None => reqs[c[1]].key \in Keys /\ a = creator[reqs[c[1]].key]
<1>1. c[1] \in Calls /\ c[2] \in {"cart", "orders"} /\ c = <<c[1], c[2]>>
  BY DEF NotifyTypeOK
<1>2. reqs[c[1]].key \in Keys \cup {None}
  BY <1>1 DEF NotifyTypeOK
<1>3. CASE reqs[c[1]].key = None
  BY <1>1, <1>3 DEF Announcer, SentInv
<1>4. CASE reqs[c[1]].key # None
  <2>1. PICK k \in Keys : k = reqs[c[1]].key
    BY <1>2, <1>4
  <2>2. creator[k] # None /\ a = creator[k]
    BY <1>1, <1>4, <2>1 DEF SentInv, Announcer
  <2>3. creator[k] \in Calls /\ reqs[creator[k]].key = k /\ reqs[creator[k]].pc # "new"
    BY <2>1, <2>2 DEF SentInv, NotifyTypeOK
  <2>. QED
    BY <1>1, <1>4, <2>1, <2>2, <2>3
<1>. QED
  BY <1>3, <1>4

\* A step that only moves sockets leaves what is known of the requests.
LEMMA SocketsOnly ==
  ASSUME NotifyIInv, UNCHANGED <<applied, creator, claimed>>, NotifyTypeOK', RoomsInv',
         \A r \in Calls : \A f \in {"pc", "device", "doc", "key"} : reqs'[r][f] = reqs[r][f],
         \A d \in joined' : \/ d \in joined /\ (d \in told => d \in told') /\ seen'[d] = seen[d]
                            \/ d \in told'
                            \/ seen'[d] = {c \in applied : d \in Interest(c[2])}
  PROVE  NotifyIInv'
<1>1. \A r \in Calls : /\ reqs'[r].pc = reqs[r].pc /\ reqs'[r].device = reqs[r].device
                       /\ reqs'[r].doc = reqs[r].doc /\ reqs'[r].key = reqs[r].key
  OBVIOUS
<1>2. \A c \in applied : c[1] \in Calls
  BY DEF NotifyIInv, NotifyTypeOK
<1>3. \A k \in Keys : creator[k] # None => creator[k] \in Calls
  BY DEF NotifyIInv, NotifyTypeOK
<1>4. SentInv'
  BY <1>1, <1>2, <1>3 DEF NotifyIInv, SentInv
<1>5. EventInv'
  BY <1>1 DEF NotifyIInv, EventInv
<1>6. EveryoneIsTold'
  <2> SUFFICES ASSUME NEW d \in joined', NEW c \in applied, NEW a, a = Announcer(c[1])',
                      d \in Interest(c[2]), c \notin seen'[d], d \notin told',
                      reqs'[a].pc \notin {"placed", "settled", "silent", "unsaid"}
               PROVE  reqs'[a].device = d /\ reqs'[a].pc \in {"answer", "lost"}
    BY DEF EveryoneIsTold
  <2>1. a = Announcer(c[1])
    BY <1>1, <1>2 DEF Announcer
  <2>2. a \in Calls
    BY <2>1, AnnouncerFacts DEF NotifyIInv
  <2>3. d \in joined /\ d \notin told /\ c \notin seen[d]
    OBVIOUS
  <2>. QED
    BY <1>1, <2>1, <2>2, <2>3 DEF NotifyIInv, EveryoneIsTold
<1>. QED
  BY <1>4, <1>5, <1>6 DEF NotifyIInv

\* A customer that connects is in its room and about to read.
LEMMA HandleConnectionKeeps ==
  ASSUME NotifyIInv, NEW d \in Devices, HandleConnection(d)
  PROVE  NotifyIInv'
<1>1. /\ sock' = [sock EXCEPT ![d] = "on"] /\ sock[d] = "off"
      /\ UNCHANGED <<applied, creator, claimed, alive, wanted, pending, overtaken, seen, reqs>>
      /\ \/ d \in Customers /\ joined' = joined \cup {d} /\ told' = told \cup {d}
         \/ d \notin Customers /\ joined' = joined /\ told' = told
  BY DEF HandleConnection, data
<1>2. NotifyTypeOK'
  BY <1>1 DEF NotifyIInv, NotifyTypeOK, Devices
<1>3. RoomsInv'
  BY <1>1, NotificationsAssumption DEF NotifyIInv, NotifyTypeOK, RoomsInv, Devices
<1>. QED
  BY <1>1, <1>2, <1>3, SocketsOnly

\* The subscriptions of a console.
LEMMA SubscribeAdminKeeps ==
  ASSUME NotifyIInv, NEW d \in Consoles, SubscribeAdmin(d)
  PROVE  NotifyIInv'
<1>1. /\ UNCHANGED <<applied, creator, claimed, alive, sock, joined, overtaken, told, seen, reqs>>
      /\ sock[d] = "on" /\ wanted' = wanted \cup {d}
      /\ pending' = [pending EXCEPT ![d] = @ + 1]
  BY DEF SubscribeAdmin, data
<1>2. NotifyTypeOK'
  BY <1>1 DEF NotifyIInv, NotifyTypeOK
<1>3. RoomsInv'
  BY <1>1 DEF NotifyIInv, NotifyTypeOK, RoomsInv
<1>. QED
  BY <1>1, <1>2, <1>3, SocketsOnly

\* Joining the room of a store keeps the invariant.
LEMMA JoinAdminsKeeps ==
  ASSUME NotifyIInv, NEW d \in Consoles, JoinAdmins(d)
  PROVE  NotifyIInv'
<1>1. /\ UNCHANGED <<applied, creator, claimed, alive, sock, wanted, overtaken, seen, reqs>>
      /\ pending[d] > 0 /\ pending' = [pending EXCEPT ![d] = @ - 1]
      /\ joined' = joined \cup {d} /\ told' = told \cup {d}
  BY DEF JoinAdmins, data
<1>2. NotifyTypeOK'
  BY <1>1 DEF NotifyIInv, NotifyTypeOK, Devices
<1>3. RoomsInv'
  BY <1>1 DEF NotifyIInv, NotifyTypeOK, RoomsInv
<1>. QED
  BY <1>1, <1>2, <1>3, SocketsOnly

\* Leaving the room of a store keeps the invariant.
LEMMA UnsubscribeAdminKeeps ==
  ASSUME NotifyIInv, NEW d \in Consoles, UnsubscribeAdmin(d)
  PROVE  NotifyIInv'
<1>1. /\ UNCHANGED <<applied, creator, claimed, alive, sock, pending, reqs>>
      /\ sock[d] = "on" /\ wanted' = wanted \ {d}
      /\ joined' = joined \ {d} /\ told' = told \ {d} /\ seen' = [seen EXCEPT ![d] = {}]
      /\ overtaken' = IF pending[d] > 0 THEN overtaken \cup {d} ELSE overtaken \ {d}
  BY DEF UnsubscribeAdmin, Leaves, data
<1>2. NotifyTypeOK'
  BY <1>1 DEF NotifyIInv, NotifyTypeOK
<1>3. RoomsInv'
  BY <1>1 DEF NotifyIInv, NotifyTypeOK, RoomsInv
<1>4. \A e \in joined' : e \in joined /\ (e \in told => e \in told') /\ seen'[e] = seen[e]
  BY <1>1 DEF NotifyIInv, NotifyTypeOK
<1>. QED
  BY <1>1, <1>2, <1>3, <1>4, SocketsOnly

\* A broken socket leaves its room and everything it waits for.
LEMMA DisconnectKeeps ==
  ASSUME NotifyIInv, NEW d \in Devices, Disconnect(d)
  PROVE  NotifyIInv'
<1>1. /\ UNCHANGED <<applied, creator, claimed, alive>>
      /\ sock' = [sock EXCEPT ![d] = "off"] /\ wanted' = wanted \ {d}
      /\ overtaken' = overtaken \ {d}
      /\ pending' = [c \in Consoles |-> IF c = d THEN 0 ELSE pending[c]]
      /\ joined' = joined \ {d} /\ told' = told \ {d} /\ seen' = [seen EXCEPT ![d] = {}]
      /\ reqs' = [r \in Calls |-> IF reqs[r].device = d THEN [reqs[r] EXCEPT !.socket = FALSE]
                                  ELSE reqs[r]]
  BY DEF Disconnect, Leaves, data
<1>2. \A r \in Calls : /\ reqs'[r] \in [pc : States, device : Devices \cup {None},
                                       doc : {"cart", "orders"}, key : Keys \cup {None},
                                       socket : BOOLEAN]
                       /\ \A f \in {"pc", "device", "doc", "key"} : reqs'[r][f] = reqs[r][f]
  BY <1>1, ZenonT(60) DEF NotifyIInv, NotifyTypeOK
<1>3. reqs' \in [Calls -> [pc : States, device : Devices \cup {None},
                           doc : {"cart", "orders"}, key : Keys \cup {None},
                           socket : BOOLEAN]]
  BY <1>1, <1>2
<1>4. NotifyTypeOK'
  BY <1>1, <1>3 DEF NotifyIInv, NotifyTypeOK
<1>5. RoomsInv'
  BY <1>1 DEF NotifyIInv, NotifyTypeOK, RoomsInv
<1>6. \A e \in joined' : e \in joined /\ (e \in told => e \in told') /\ seen'[e] = seen[e]
  BY <1>1 DEF NotifyIInv, NotifyTypeOK
<1>. QED
  BY <1>1, <1>2, <1>4, <1>5, <1>6, SocketsOnly

\* A device that reads has seen everything that is of interest to it.
LEMMA ReadKeeps ==
  ASSUME NotifyIInv, NEW d \in Devices, Read(d)
  PROVE  NotifyIInv'
<1>1. /\ UNCHANGED <<applied, creator, claimed, alive, sock, joined, wanted, pending, overtaken,
                     reqs>>
      /\ told' = told \ {d}
      /\ seen' = [seen EXCEPT ![d] = {c \in applied : d \in Interest(c[2])}]
  BY DEF Read, data, sockets
<1>2. NotifyTypeOK'
  BY <1>1 DEF NotifyIInv, NotifyTypeOK
<1>3. RoomsInv'
  BY <1>1 DEF NotifyIInv, RoomsInv
<1>4. \A e \in joined' : \/ e \in joined /\ (e \in told => e \in told') /\ seen'[e] = seen[e]
                         \/ seen'[e] = {c \in applied : e \in Interest(c[2])}
  BY <1>1 DEF NotifyIInv, NotifyTypeOK
<1>. QED
  BY <1>1, <1>2, <1>3, <1>4, SocketsOnly

\* The end of the session keeps the invariant.
LEMMA EndSessionKeeps ==
  ASSUME NotifyIInv, EndSession
  PROVE  NotifyIInv'
<1>1. /\ UNCHANGED <<applied, creator, claimed, sock, joined, wanted, pending, overtaken, told,
                     seen, reqs>>
      /\ alive' = FALSE
  BY DEF EndSession, sockets
<1>2. NotifyTypeOK'
  BY <1>1 DEF NotifyIInv, NotifyTypeOK
<1>3. RoomsInv'
  BY <1>1 DEF NotifyIInv, RoomsInv
<1>. QED
  BY <1>1, <1>2, <1>3, SocketsOnly

-----------------------------------------------------------------------------
\* A request that arrives announces nothing old: it was not there.
LEMMA ArrivalTells ==
  ASSUME NotifyIInv, NEW r \in Calls, reqs[r].pc = "new",
         UNCHANGED <<joined, told, seen>>,
         \A q \in Calls \ {r} : reqs'[q] = reqs[q],
         \A k \in Keys : creator'[k] = creator[k] \/ creator[k] = None,
         \A c \in applied' : c \in applied \/ (c[1] = r /\ Announcer(r)' = r),
         reqs'[r].pc \in {"placed", "settled", "silent"}
         \/ applied' = applied
  PROVE  EveryoneIsTold'
<1> SUFFICES ASSUME NEW d \in joined, NEW c \in applied', NEW a, a = Announcer(c[1])',
                    d \in Interest(c[2]), c \notin seen[d], d \notin told
             PROVE  \/ reqs'[a].pc \in {"placed", "settled", "silent", "unsaid"}
                    \/ reqs'[a].device = d /\ reqs'[a].pc \in {"answer", "lost"}
  BY DEF EveryoneIsTold
<1>1. CASE c \in applied
  <2>1. PICK b : b = Announcer(c[1])
    OBVIOUS
  <2>2. /\ c[1] \in Calls /\ b \in Calls /\ reqs[b].pc # "new"
        /\ reqs[c[1]].key = None => b = c[1]
        /\ reqs[c[1]].key # None => reqs[c[1]].key \in Keys /\ b = creator[reqs[c[1]].key]
    BY <1>1, <2>1, AnnouncerFacts DEF NotifyIInv
  <2>3. c[1] # r
    BY <1>1 DEF NotifyIInv, SentInv
  <2>4. reqs'[c[1]] = reqs[c[1]] /\ b # r
    BY <2>2, <2>3
  <2>5. reqs[c[1]].key # None => creator[reqs[c[1]].key] # None
    BY <2>2 DEF NotifyIInv, SentInv
  <2>6. a = b
    BY <2>1, <2>2, <2>4, <2>5 DEF Announcer
  <2>7. reqs'[a] = reqs[b]
    BY <2>2, <2>4, <2>6
  <2>. QED
    BY <1>1, <2>1, <2>7 DEF NotifyIInv, EveryoneIsTold
<1>2. CASE c \notin applied
  BY <1>2
<1>. QED
  BY <1>1, <1>2

\* What a request that arrives changes of itself.
LEMMA ArrivalFacts ==
  ASSUME NotifyIInv, NEW r \in Calls, NEW d \in Devices, NEW doc \in {"cart", "orders"},
         NEW key \in Keys \cup {None}, NEW pc \in {"placed", "settled", "silent"},
         Arrives(r, d, doc, key, pc)
  PROVE  /\ reqs[r].pc = "new"
         /\ UNCHANGED <<alive, sock, joined, wanted, pending, overtaken, told, seen>>
         /\ reqs'[r].pc = pc /\ reqs'[r].doc = doc /\ reqs'[r].key = key
         /\ \A q \in Calls \ {r} : reqs'[q] = reqs[q]
         /\ reqs' \in [Calls -> [pc : States, device : Devices \cup {None},
                                 doc : {"cart", "orders"}, key : Keys \cup {None},
                                 socket : BOOLEAN]]
         /\ RoomsInv'
         /\ \A c \in applied : c[1] # r
<1>1. /\ reqs[r].pc = "new" /\ UNCHANGED <<alive, told, seen>>
      /\ UNCHANGED <<sock, joined, wanted, pending, overtaken>>
      /\ reqs' = [reqs EXCEPT ![r] = [pc |-> pc, device |-> d, doc |-> doc, key |-> key,
                                      socket |-> sock[d] = "on"]]
  BY DEF Arrives, sockets
<1>2. reqs' \in [Calls -> [pc : States, device : Devices \cup {None},
                           doc : {"cart", "orders"}, key : Keys \cup {None},
                           socket : BOOLEAN]]
  <2>1. [pc |-> pc, device |-> d, doc |-> doc, key |-> key, socket |-> sock[d] = "on"] \in
          [pc : States, device : Devices \cup {None}, doc : {"cart", "orders"},
           key : Keys \cup {None}, socket : BOOLEAN]
    BY DEF States
  <2>. QED
    BY <1>1, <2>1 DEF NotifyIInv, NotifyTypeOK
<1>3. RoomsInv'
  BY <1>1 DEF NotifyIInv, RoomsInv
<1>4. /\ reqs'[r].pc = pc /\ reqs'[r].doc = doc /\ reqs'[r].key = key
      /\ \A q \in Calls \ {r} : reqs'[q] = reqs[q]
  BY <1>1 DEF NotifyIInv, NotifyTypeOK
<1>5. \A c \in applied : c[1] # r
  BY <1>1 DEF NotifyIInv, SentInv
<1>. QED
  BY <1>1, <1>2, <1>3, <1>4, <1>5

\* A change of the cart or the orders that needs no key.
LEMMA ChangeKeeps ==
  ASSUME NotifyIInv, NEW r \in Calls, NEW d \in Devices, NEW doc \in {"cart", "orders"},
         NEW pc \in {"settled", "silent"}, Commits(r, doc), Arrives(r, d, doc, None, pc)
  PROVE  NotifyIInv'
<1>1. /\ applied' = applied \cup {<<r, doc>>} /\ creator' = creator /\ claimed' = claimed
  BY DEF Commits
<1>2. /\ reqs[r].pc = "new"
      /\ UNCHANGED <<alive, sock, joined, wanted, pending, overtaken, told, seen>>
      /\ reqs'[r].pc = pc /\ reqs'[r].doc = doc /\ reqs'[r].key = None
      /\ \A q \in Calls \ {r} : reqs'[q] = reqs[q]
      /\ RoomsInv'
      /\ \A c \in applied : c[1] # r
  BY ArrivalFacts
<1>3. reqs' \in [Calls -> [pc : States, device : Devices \cup {None},
                           doc : {"cart", "orders"}, key : Keys \cup {None},
                           socket : BOOLEAN]]
  BY ArrivalFacts
<1>4. NotifyTypeOK'
  BY <1>1, <1>2, <1>3 DEF NotifyIInv, NotifyTypeOK
<1>5. \A k \in Keys : creator[k] # None => creator[k] \in Calls \ {r}
  BY <1>2 DEF NotifyIInv, NotifyTypeOK, SentInv
<1>6. \A c \in applied : c[1] \in Calls \ {r}
  BY <1>2 DEF NotifyIInv, NotifyTypeOK
<1>7. SentInv'
  <2>1. \A c \in applied' : reqs'[c[1]].pc # "new"
    BY <1>1, <1>2, <1>6 DEF NotifyIInv, SentInv
  <2>2. \A q \in Calls : reqs'[q].key # None => creator'[reqs'[q].key] # None
    BY <1>1, <1>2 DEF NotifyIInv, SentInv
  <2>3. \A k \in Keys : creator[k] # None => reqs'[creator[k]] = reqs[creator[k]]
    BY <1>2, <1>5
  <2>4. \A q \in Calls : reqs'[q].pc = "placed" => reqs'[q].key # None
    BY <1>2 DEF NotifyIInv, SentInv
  <2>. QED
    BY <1>1, <2>1, <2>2, <2>3, <2>4 DEF NotifyIInv, SentInv
<1>8. EventInv'
  <2> SUFFICES ASSUME NEW q \in Calls, reqs'[q].pc \in {"placed", "settled"}
               PROVE  IF reqs'[q].key # None THEN reqs'[q].doc = "orders"
                      ELSE \A c \in applied' : c[1] = q => c[2] = reqs'[q].doc
    BY DEF EventInv
  <2>1. CASE q = r
    BY <1>1, <1>2, <1>6, <2>1
  <2>2. CASE q # r
    BY <1>1, <1>2, <2>2 DEF NotifyIInv, EventInv
  <2>. QED
    BY <2>1, <2>2
<1>9. EveryoneIsTold'
  <2>1. Announcer(r)' = r
    BY <1>2 DEF Announcer
  <2>. QED
    BY <1>1, <1>2, <2>1, ArrivalTells
<1>. QED
  BY <1>2, <1>4, <1>7, <1>8, <1>9 DEF NotifyIInv

\* An order is placed under a key that no request has had.
LEMMA PlaceOrderKeeps ==
  ASSUME NotifyIInv, NEW r \in Calls, NEW d \in Devices, NEW k \in Keys, PlaceOrder(r, d, k)
  PROVE  NotifyIInv'
<1>1. /\ applied' = applied \cup {<<r, "orders">>} /\ claimed' = claimed
      /\ creator[k] = None /\ creator' = [creator EXCEPT ![k] = r]
      /\ Arrives(r, d, "orders", k, "placed")
  BY DEF PlaceOrder
<1>2. /\ reqs[r].pc = "new"
      /\ UNCHANGED <<alive, sock, joined, wanted, pending, overtaken, told, seen>>
      /\ reqs'[r].pc = "placed" /\ reqs'[r].doc = "orders" /\ reqs'[r].key = k
      /\ \A q \in Calls \ {r} : reqs'[q] = reqs[q]
      /\ RoomsInv'
      /\ \A c \in applied : c[1] # r
  BY <1>1, ArrivalFacts
<1>3. reqs' \in [Calls -> [pc : States, device : Devices \cup {None},
                           doc : {"cart", "orders"}, key : Keys \cup {None},
                           socket : BOOLEAN]]
  BY <1>1, ArrivalFacts
<1>4. NotifyTypeOK'
  BY <1>1, <1>2, <1>3 DEF NotifyIInv, NotifyTypeOK
<1>5. \A j \in Keys : creator'[j] = IF j = k THEN r ELSE creator[j]
  BY <1>1 DEF NotifyIInv, NotifyTypeOK
<1>6. \A j \in Keys : creator[j] # None => creator[j] \in Calls \ {r} /\ j # k
  BY <1>1, <1>2 DEF NotifyIInv, NotifyTypeOK, SentInv
<1>7. \A c \in applied : c[1] \in Calls \ {r}
  BY <1>2 DEF NotifyIInv, NotifyTypeOK
<1>8. k # None /\ r # None
  BY NotificationsAssumption
<1>9. SentInv'
  <2>1. \A c \in applied' : reqs'[c[1]].pc # "new"
    BY <1>1, <1>2, <1>7 DEF NotifyIInv, SentInv
  <2>2. \A q \in Calls : reqs'[q].key # None => creator'[reqs'[q].key] # None
    <3>1. \A q \in Calls \ {r} : reqs[q].key \in Keys \cup {None}
      BY DEF NotifyIInv, NotifyTypeOK
    <3>. QED
      BY <1>2, <1>5, <1>8, <3>1 DEF NotifyIInv, SentInv
  <2>3. \A j \in Keys : creator[j] # None => reqs'[creator[j]] = reqs[creator[j]]
    BY <1>2, <1>6
  <2>4. \A q \in Calls : reqs'[q].pc = "placed" => reqs'[q].key # None
    BY <1>2, <1>8 DEF NotifyIInv, SentInv
  <2>5. ASSUME NEW j \in Keys, creator'[j] # None
        PROVE  /\ reqs'[creator'[j]].key = j /\ reqs'[creator'[j]].pc # "new"
               /\ j \notin claimed => reqs'[creator'[j]].pc \in {"placed", "unsaid"}
    <3>1. CASE j = k
      BY <1>2, <1>5, <3>1
    <3>2. CASE j # k
      BY <1>5, <2>3, <2>5, <3>2 DEF NotifyIInv, SentInv
    <3>. QED
      BY <3>1, <3>2
  <2>. QED
    BY <1>1, <2>1, <2>2, <2>4, <2>5 DEF SentInv
<1>10. EventInv'
  BY <1>1, <1>2, <1>8 DEF NotifyIInv, EventInv
<1>11. EveryoneIsTold'
  <2>1. Announcer(r)' = r
    BY <1>2, <1>5, <1>8 DEF Announcer
  <2>. QED
    BY <1>1, <1>2, <1>5, <2>1, ArrivalTells
<1>. QED
  BY <1>2, <1>4, <1>9, <1>10, <1>11 DEF NotifyIInv

\* An order is found under its key: nothing is changed yet.
LEMMA FindOrderKeeps ==
  ASSUME NotifyIInv, NEW r \in Calls, NEW d \in Devices, NEW k \in Keys, FindOrder(r, d, k)
  PROVE  NotifyIInv'
<1>1. /\ UNCHANGED <<applied, creator, claimed>> /\ creator[k] # None
      /\ Arrives(r, d, "orders", k, "placed")
  BY DEF FindOrder
<1>2. /\ reqs[r].pc = "new"
      /\ UNCHANGED <<alive, sock, joined, wanted, pending, overtaken, told, seen>>
      /\ reqs'[r].pc = "placed" /\ reqs'[r].doc = "orders" /\ reqs'[r].key = k
      /\ \A q \in Calls \ {r} : reqs'[q] = reqs[q]
      /\ RoomsInv'
      /\ \A c \in applied : c[1] # r
  BY <1>1, ArrivalFacts
<1>3. reqs' \in [Calls -> [pc : States, device : Devices \cup {None},
                           doc : {"cart", "orders"}, key : Keys \cup {None},
                           socket : BOOLEAN]]
  BY <1>1, ArrivalFacts
<1>4. NotifyTypeOK'
  BY <1>1, <1>2, <1>3 DEF NotifyIInv, NotifyTypeOK
<1>5. \A j \in Keys : creator[j] # None => creator[j] \in Calls \ {r}
  BY <1>2 DEF NotifyIInv, NotifyTypeOK, SentInv
<1>6. \A c \in applied : c[1] \in Calls \ {r}
  BY <1>2 DEF NotifyIInv, NotifyTypeOK
<1>7. k # None
  BY NotificationsAssumption
<1>8. SentInv'
  <2>1. \A c \in applied' : reqs'[c[1]].pc # "new"
    BY <1>1, <1>2, <1>6 DEF NotifyIInv, SentInv
  <2>2. \A q \in Calls : reqs'[q].key # None => creator'[reqs'[q].key] # None
    BY <1>1, <1>2 DEF NotifyIInv, SentInv
  <2>3. \A j \in Keys : creator[j] # None => reqs'[creator[j]] = reqs[creator[j]]
    BY <1>2, <1>5
  <2>4. \A q \in Calls : reqs'[q].pc = "placed" => reqs'[q].key # None
    BY <1>2, <1>7 DEF NotifyIInv, SentInv
  <2>. QED
    BY <1>1, <2>1, <2>2, <2>3, <2>4 DEF NotifyIInv, SentInv
<1>9. EventInv'
  BY <1>1, <1>2, <1>7 DEF NotifyIInv, EventInv
<1>10. EveryoneIsTold'
  BY <1>1, <1>2, ArrivalTells
<1>. QED
  BY <1>2, <1>4, <1>8, <1>9, <1>10 DEF NotifyIInv

-----------------------------------------------------------------------------
\* Who announces a change when one request goes on, its key the same.
LEMMA SameAnnouncers ==
  ASSUME NotifyIInv, NEW r \in Calls, creator' = creator,
         \A q \in Calls : reqs'[q].key = reqs[q].key, NEW q \in Calls
  PROVE  Announcer(q)' = Announcer(q)
BY DEF Announcer

\* The first that claims the key settles the cart, the one that created the
\* order announces both.
LEMMA RemoveOrderedItemsKeeps ==
  ASSUME NotifyIInv, NEW r \in Calls, RemoveOrderedItems(r)
  PROVE  NotifyIInv'
<1>1. PICK k : k = reqs[r].key
  OBVIOUS
<1>2. /\ reqs[r].pc = "placed"
      /\ applied' = IF k \in claimed THEN applied ELSE applied \cup {<<r, "cart">>}
      /\ claimed' = claimed \cup {k}
      /\ reqs' = [reqs EXCEPT ![r].pc = IF creator[k] = r THEN "settled" ELSE "answer"]
      /\ UNCHANGED <<alive, creator, told, seen, sock, joined, wanted, pending, overtaken>>
  BY <1>1 DEF RemoveOrderedItems, Goes, sockets
<1>3. k \in Keys /\ k # None /\ creator[k] # None /\ creator[k] \in Calls
      /\ reqs[creator[k]].key = k /\ reqs[creator[k]].pc # "new"
  BY <1>1, <1>2 DEF NotifyIInv, SentInv, NotifyTypeOK
<1>4. /\ \A q \in Calls \ {r} : reqs'[q] = reqs[q]
      /\ reqs'[r].pc = IF creator[k] = r THEN "settled" ELSE "answer"
      /\ reqs'[r].doc = reqs[r].doc /\ reqs'[r].key = k /\ reqs'[r].device = reqs[r].device
      /\ \A q \in Calls : reqs'[q].key = reqs[q].key
  BY <1>1, <1>2 DEF NotifyIInv, NotifyTypeOK
<1>5. reqs' \in [Calls -> [pc : States, device : Devices \cup {None},
                           doc : {"cart", "orders"}, key : Keys \cup {None},
                           socket : BOOLEAN]]
  BY <1>2 DEF NotifyIInv, NotifyTypeOK, States
<1>6. NotifyTypeOK'
  BY <1>2, <1>3, <1>5 DEF NotifyIInv, NotifyTypeOK
<1>7. RoomsInv'
  BY <1>2 DEF NotifyIInv, RoomsInv
<1>8. \A c \in applied : c[1] \in Calls
  BY DEF NotifyIInv, NotifyTypeOK
<1>9. SentInv'
  <2>1. \A c \in applied' : reqs'[c[1]].pc # "new"
    BY <1>2, <1>4, <1>8 DEF NotifyIInv, SentInv
  <2>2. \A q \in Calls : reqs'[q].key # None => creator'[reqs'[q].key] # None
    BY <1>2, <1>4 DEF NotifyIInv, SentInv
  <2>3. ASSUME NEW j \in Keys, creator[j] # None
        PROVE  /\ reqs'[creator[j]].key = j /\ reqs'[creator[j]].pc # "new"
               /\ j \notin claimed' => reqs'[creator[j]].pc \in {"placed", "unsaid"}
    <3>1. creator[j] \in Calls /\ reqs[creator[j]].key = j
      BY <2>3 DEF NotifyIInv, NotifyTypeOK, SentInv
    <3>2. CASE creator[j] = r
      BY <1>1, <1>2, <1>4, <3>1, <3>2
    <3>3. CASE creator[j] # r
      BY <1>2, <1>4, <2>3, <3>1, <3>3 DEF NotifyIInv, SentInv
    <3>. QED
      BY <3>2, <3>3
  <2>4. \A q \in Calls : reqs'[q].pc = "placed" => reqs'[q].key # None
    BY <1>3, <1>4 DEF NotifyIInv, SentInv
  <2>. QED
    BY <1>2, <2>1, <2>2, <2>3, <2>4 DEF SentInv
<1>10. EventInv'
  <2> SUFFICES ASSUME NEW q \in Calls, reqs'[q].pc \in {"placed", "settled"}
               PROVE  IF reqs'[q].key # None THEN reqs'[q].doc = "orders"
                      ELSE \A c \in applied' : c[1] = q => c[2] = reqs'[q].doc
    BY DEF EventInv
  <2>1. CASE q = r
    BY <1>1, <1>2, <1>3, <1>4, <2>1 DEF NotifyIInv, EventInv
  <2>2. CASE q # r
    BY <1>2, <1>4, <2>2 DEF NotifyIInv, EventInv
  <2>. QED
    BY <2>1, <2>2
<1>11. EveryoneIsTold'
  <2> SUFFICES ASSUME NEW d \in joined, NEW c \in applied', NEW a, a = Announcer(c[1])',
                      d \in Interest(c[2]), c \notin seen[d], d \notin told,
                      reqs'[a].pc \notin {"placed", "settled", "silent", "unsaid"}
               PROVE  reqs'[a].device = d /\ reqs'[a].pc \in {"answer", "lost"}
    BY <1>2 DEF EveryoneIsTold
  <2>1. c[1] \in Calls
    BY <1>2, <1>8
  <2>2. a = Announcer(c[1])
    BY <1>2, <1>4, <2>1, SameAnnouncers
  <2>3. CASE c \in applied
    <3>1. /\ a \in Calls
          /\ reqs[c[1]].key = None => a = c[1]
          /\ reqs[a].key # None => a = creator[reqs[a].key]
      BY <2>2, <2>3, AnnouncerFacts DEF NotifyIInv
    <3>2. a # r
      BY <1>1, <1>3, <1>4, <3>1
    <3>3. reqs'[a] = reqs[a]
      BY <1>4, <3>1, <3>2
    <3>. QED
      BY <2>2, <2>3, <3>3 DEF NotifyIInv, EveryoneIsTold
  <2>4. CASE c \notin applied
    <3>1. c[1] = r /\ k \notin claimed
      BY <1>2, <2>4
    <3>2. a = creator[k]
      BY <1>1, <1>3, <2>2, <3>1 DEF Announcer
    <3>3. reqs[creator[k]].pc \in {"placed", "unsaid"}
      BY <1>3, <3>1 DEF NotifyIInv, SentInv
    <3>4. reqs'[a].pc \in {"placed", "unsaid", "settled"}
      BY <1>3, <1>4, <3>2, <3>3
    <3>. QED
      BY <3>4
  <2>. QED
    BY <2>3, <2>4
<1>. QED
  BY <1>6, <1>7, <1>9, <1>10, <1>11 DEF NotifyIInv

\* What stays known of the requests when one goes on after its change.
LEMMA GoesOn ==
  ASSUME NotifyIInv, NEW r \in Calls, UNCHANGED <<applied, creator, claimed, sock, joined,
                                                  wanted, pending, overtaken, seen>>,
         NotifyTypeOK', \A q \in Calls \ {r} : reqs'[q] = reqs[q],
         reqs'[r].key = reqs[r].key, reqs'[r].pc \notin {"new", "placed", "settled"},
         reqs[r].pc = "placed" => reqs'[r].pc = "unsaid",
         reqs[r].pc \in {"placed", "settled", "silent", "answer"}, EveryoneIsTold'
  PROVE  NotifyIInv'
<1>1. RoomsInv'
  BY DEF NotifyIInv, RoomsInv
<1>2. \A c \in applied : c[1] \in Calls
  BY DEF NotifyIInv, NotifyTypeOK
<1>3. SentInv'
  <2>1. \A c \in applied' : reqs'[c[1]].pc # "new"
    BY <1>2 DEF NotifyIInv, SentInv
  <2>2. \A q \in Calls : reqs'[q].key # None => creator'[reqs'[q].key] # None
    BY DEF NotifyIInv, SentInv
  <2>3. ASSUME NEW j \in Keys, creator[j] # None
        PROVE  /\ reqs'[creator[j]].key = j /\ reqs'[creator[j]].pc # "new"
               /\ j \notin claimed => reqs'[creator[j]].pc \in {"placed", "unsaid"}
    <3>1. /\ creator[j] \in Calls /\ reqs[creator[j]].key = j /\ reqs[creator[j]].pc # "new"
          /\ j \notin claimed => reqs[creator[j]].pc \in {"placed", "unsaid"}
      BY <2>3 DEF NotifyIInv, NotifyTypeOK, SentInv
    <3>2. CASE creator[j] = r
      BY <3>1, <3>2
    <3>3. CASE creator[j] # r
      BY <3>1, <3>3
    <3>. QED
      BY <3>2, <3>3
  <2>4. \A q \in Calls : reqs'[q].pc = "placed" => reqs'[q].key # None
    BY DEF NotifyIInv, SentInv
  <2>. QED
    BY <2>1, <2>2, <2>3, <2>4 DEF SentInv
<1>4. EventInv'
  BY DEF NotifyIInv, EventInv
<1>. QED
  BY <1>1, <1>3, <1>4 DEF NotifyIInv

\* The event reaches all that have an interest, in their room and without the
\* answer: the audience is that of the change.
LEMMA EmitKeeps ==
  ASSUME NotifyIInv, NEW r \in Calls, Emit(r)
  PROVE  NotifyIInv'
<1> DEFINE audience == IF reqs[r].doc = "cart" THEN CartAudience ELSE OrderAudience
<1>1. /\ reqs[r].pc = "settled"
      /\ told' = told \cup {d \in joined \cap audience : d # reqs[r].device \/ ~reqs[r].socket}
      /\ reqs' = [reqs EXCEPT ![r].pc = "answer", ![r].socket = FALSE]
      /\ UNCHANGED <<alive, applied, creator, claimed, sock, joined, wanted, pending, overtaken,
                     seen>>
  BY DEF Emit, Broadcast, data, sockets
<1>2. /\ \A q \in Calls \ {r} : reqs'[q] = reqs[q]
      /\ reqs'[r].pc = "answer" /\ reqs'[r].key = reqs[r].key
      /\ reqs'[r].device = reqs[r].device
      /\ \A q \in Calls : reqs'[q].key = reqs[q].key
  BY <1>1 DEF NotifyIInv, NotifyTypeOK
<1>3. NotifyTypeOK'
  <2>1. reqs' \in [Calls -> [pc : States, device : Devices \cup {None},
                             doc : {"cart", "orders"}, key : Keys \cup {None},
                             socket : BOOLEAN]]
    <3>1. /\ \A q \in Calls : reqs[q] \in [pc : States, device : Devices \cup {None},
                                            doc : {"cart", "orders"}, key : Keys \cup {None},
                                            socket : BOOLEAN]
          /\ reqs \in [Calls -> [pc : States, device : Devices \cup {None},
                                 doc : {"cart", "orders"}, key : Keys \cup {None},
                                 socket : BOOLEAN]]
      BY DEF NotifyIInv, NotifyTypeOK
    <3>2. [reqs[r] EXCEPT !.pc = "answer", !.socket = FALSE] \in
            [pc : States, device : Devices \cup {None}, doc : {"cart", "orders"},
             key : Keys \cup {None}, socket : BOOLEAN]
      BY <3>1 DEF States
    <3>3. reqs' = [reqs EXCEPT ![r] = [reqs[r] EXCEPT !.pc = "answer", !.socket = FALSE]]
      BY <1>1, <3>1
    <3>. QED
      BY <3>1, <3>2, <3>3
  <2>. QED
    BY <1>1, <2>1 DEF NotifyIInv, NotifyTypeOK
<1>4. EveryoneIsTold'
  <2> SUFFICES ASSUME NEW d \in joined, NEW c \in applied, NEW a, a = Announcer(c[1])',
                      d \in Interest(c[2]), c \notin seen[d], d \notin told',
                      reqs'[a].pc \notin {"placed", "settled", "silent", "unsaid"}
               PROVE  reqs'[a].device = d /\ reqs'[a].pc \in {"answer", "lost"}
    BY <1>1, ZenonT(60) DEF EveryoneIsTold
  <2>1. a = Announcer(c[1])
    <3>1. c[1] \in Calls
      BY DEF NotifyIInv, NotifyTypeOK
    <3>. QED
      BY <1>1, <1>2, <3>1, SameAnnouncers
  <2>2. /\ a \in Calls /\ c[2] \in {"cart", "orders"} /\ reqs[a].key = reqs[c[1]].key
        /\ reqs[c[1]].key = None => a = c[1]
    BY <2>1, AnnouncerFacts DEF NotifyIInv
  <2>3. d \notin told
    BY <1>1
  <2>4. CASE a # r
    BY <1>2, <2>1, <2>2, <2>3, <2>4 DEF NotifyIInv, EveryoneIsTold
  <2>5. CASE a = r
    <3>1. IF reqs[r].key # None THEN reqs[r].doc = "orders" ELSE c[2] = reqs[r].doc
      BY <1>1, <2>2, <2>5 DEF NotifyIInv, EventInv
    <3>2. d \in audience
      BY <3>1, <2>2 DEF Interest, CartAudience, OrderAudience, NotifyIInv, NotifyTypeOK, Devices
    <3>3. d = reqs[r].device
      BY <1>1, <3>2
    <3>. QED
      BY <1>2, <2>5, <3>3
  <2>. QED
    BY <2>4, <2>5
<1>. QED
  BY <1>1, <1>2, <1>3, <1>4, GoesOn

\* A request ends: only its key is remembered.
LEMMA EndsFacts ==
  ASSUME NotifyTypeOK, NEW r \in Calls, NEW pc \in States, Ends(r, pc)
  PROVE  /\ \A q \in Calls \ {r} : reqs'[q] = reqs[q]
         /\ reqs'[r].pc = pc /\ \A q \in Calls : reqs'[q].key = reqs[q].key
         /\ reqs' \in [Calls -> [pc : States, device : Devices \cup {None},
                                 doc : {"cart", "orders"}, key : Keys \cup {None},
                                 socket : BOOLEAN]]
<1>1. PICK new : new = [New EXCEPT !.pc = pc, !.key = reqs[r].key]
  OBVIOUS
<1>2. /\ new \in [pc : States, device : Devices \cup {None}, doc : {"cart", "orders"},
                 key : Keys \cup {None}, socket : BOOLEAN]
      /\ new.pc = pc /\ new.key = reqs[r].key
  BY <1>1 DEF New, NotifyTypeOK
<1>3. reqs' = [reqs EXCEPT ![r] = new]
  BY <1>1 DEF Ends
<1>. QED
  BY <1>2, <1>3 DEF NotifyTypeOK

\* The answer tells the device that sent the request.
LEMMA RespondKeeps ==
  ASSUME NotifyIInv, NEW r \in Calls, Respond(r)
  PROVE  NotifyIInv'
<1>1. PICK pc : pc = IF reqs[r].pc = "answer" THEN "done" ELSE "unsaid"
  OBVIOUS
<1>2. /\ reqs[r].pc \in {"answer", "silent"}
      /\ told' = told \cup (joined \cap {reqs[r].device})
      /\ Ends(r, pc)
      /\ UNCHANGED <<alive, applied, creator, claimed, sock, joined, wanted, pending, overtaken,
                     seen>>
  BY <1>1 DEF Respond, data, sockets
<1>3. /\ \A q \in Calls \ {r} : reqs'[q] = reqs[q]
      /\ reqs'[r].pc = pc /\ \A q \in Calls : reqs'[q].key = reqs[q].key
      /\ reqs' \in [Calls -> [pc : States, device : Devices \cup {None},
                              doc : {"cart", "orders"}, key : Keys \cup {None},
                              socket : BOOLEAN]]
  <2>1. pc \in States
    BY <1>1 DEF States
  <2>. QED
    BY <1>2, <2>1, EndsFacts DEF NotifyIInv
<1>4. NotifyTypeOK'
  BY <1>2, <1>3 DEF NotifyIInv, NotifyTypeOK
<1>5. EveryoneIsTold'
  <2> SUFFICES ASSUME NEW d \in joined, NEW c \in applied, NEW a, a = Announcer(c[1])',
                      d \in Interest(c[2]), c \notin seen[d], d \notin told',
                      reqs'[a].pc \notin {"placed", "settled", "silent", "unsaid"}
               PROVE  reqs'[a].device = d /\ reqs'[a].pc \in {"answer", "lost"}
    BY <1>2 DEF EveryoneIsTold
  <2>1. a = Announcer(c[1])
    <3>1. c[1] \in Calls
      BY DEF NotifyIInv, NotifyTypeOK
    <3>. QED
      BY <1>2, <1>3, <3>1, SameAnnouncers
  <2>2. a \in Calls /\ d \notin told
    BY <1>2, <2>1, AnnouncerFacts DEF NotifyIInv
  <2>3. a # r
    <3> SUFFICES ASSUME a = r
                 PROVE  FALSE
      OBVIOUS
    <3>1. pc = "done" /\ reqs[r].pc = "answer"
      BY <1>1, <1>2, <1>3
    <3>2. d = reqs[r].device
      BY <2>1, <2>2, <3>1 DEF NotifyIInv, EveryoneIsTold
    <3>. QED
      BY <1>2, <3>2
  <2>. QED
    BY <1>3, <2>1, <2>2, <2>3 DEF NotifyIInv, EveryoneIsTold
<1>6. pc \in {"done", "unsaid"}
  BY <1>1
<1>. QED
  BY <1>2, <1>3, <1>4, <1>5, <1>6, GoesOn

\* A server that dies says nothing any more; a lost answer tells nobody.
LEMMA FailsKeeps ==
  ASSUME NotifyIInv, NEW r \in Calls, Fails(r)
  PROVE  NotifyIInv'
<1>1. /\ UNCHANGED <<alive, applied, creator, claimed, sock, joined, wanted, pending, overtaken,
                     told, seen>>
      /\ \/ reqs[r].pc \in {"placed", "settled", "silent"} /\ Ends(r, "unsaid")
         \/ reqs[r].pc = "answer" /\ Goes(r, "lost")
  BY DEF Fails, data, sockets
<1>2. /\ \A q \in Calls \ {r} : reqs'[q] = reqs[q]
      /\ \A q \in Calls : reqs'[q].key = reqs[q].key
      /\ \/ reqs[r].pc \in {"placed", "settled", "silent"} /\ reqs'[r].pc = "unsaid"
         \/ /\ reqs[r].pc = "answer" /\ reqs'[r].pc = "lost"
            /\ reqs'[r].device = reqs[r].device
      /\ reqs' \in [Calls -> [pc : States, device : Devices \cup {None},
                              doc : {"cart", "orders"}, key : Keys \cup {None},
                              socket : BOOLEAN]]
  <2>1. CASE reqs[r].pc \in {"placed", "settled", "silent"} /\ Ends(r, "unsaid")
    <3>1. "unsaid" \in States
      BY DEF States
    <3>. QED
      BY <2>1, <3>1, EndsFacts DEF NotifyIInv
  <2>2. CASE reqs[r].pc = "answer" /\ Goes(r, "lost")
    BY <2>2 DEF Goes, States, NotifyIInv, NotifyTypeOK
  <2>. QED
    BY <1>1, <2>1, <2>2
<1>3. NotifyTypeOK'
  BY <1>1, <1>2 DEF NotifyIInv, NotifyTypeOK
<1>4. EveryoneIsTold'
  <2> SUFFICES ASSUME NEW d \in joined, NEW c \in applied, NEW a, a = Announcer(c[1])',
                      d \in Interest(c[2]), c \notin seen[d], d \notin told,
                      reqs'[a].pc \notin {"placed", "settled", "silent", "unsaid"}
               PROVE  reqs'[a].device = d /\ reqs'[a].pc \in {"answer", "lost"}
    BY <1>1 DEF EveryoneIsTold
  <2>1. a = Announcer(c[1])
    <3>1. c[1] \in Calls
      BY DEF NotifyIInv, NotifyTypeOK
    <3>. QED
      BY <1>1, <1>2, <3>1, SameAnnouncers
  <2>2. a \in Calls
    BY <2>1, AnnouncerFacts DEF NotifyIInv
  <2>3. CASE a # r
    BY <1>2, <2>1, <2>2, <2>3 DEF NotifyIInv, EveryoneIsTold
  <2>4. CASE a = r
    <3>1. reqs[r].pc = "answer" /\ reqs'[r].pc = "lost" /\ reqs'[r].device = reqs[r].device
      BY <1>2, <2>4
    <3>2. reqs[Announcer(c[1])].pc = "answer"
      BY <2>1, <2>4, <3>1
    <3>3. reqs[Announcer(c[1])].device = d
      BY <3>2 DEF NotifyIInv, EveryoneIsTold
    <3>4. reqs[r].device = d
      BY <2>1, <2>4, <3>3
    <3>. QED
      BY <2>4, <3>1, <3>4
  <2>. QED
    BY <2>3, <2>4
<1>. QED
  BY <1>1, <1>2, <1>3, <1>4, GoesOn

-----------------------------------------------------------------------------
\* Nothing is changed, nobody is in a room, nothing is asked for at first.
LEMMA NotifyInitIInv == NotifyInit => NotifyIInv
<1> SUFFICES ASSUME NotifyInit
             PROVE  NotifyIInv
  OBVIOUS
<1>1. NotifyTypeOK
  BY DEF NotifyInit, NotifyTypeOK, New, States
<1>2. RoomsInv
  BY DEF NotifyInit, RoomsInv
<1>3. \A r \in Calls : reqs[r].pc = "new" /\ reqs[r].key = None
  BY DEF NotifyInit, New
<1>4. SentInv
  BY <1>3 DEF NotifyInit, SentInv
<1>5. EventInv
  BY <1>3 DEF EventInv
<1>6. EveryoneIsTold
  BY DEF NotifyInit, EveryoneIsTold
<1>. QED
  BY <1>1, <1>2, <1>4, <1>5, <1>6 DEF NotifyIInv

\* Every step keeps the inductive invariant of the screens.
LEMMA NotifyNextIInv == NotifyIInv /\ [NotifyNext]_notifyVars => NotifyIInv'
<1> SUFFICES ASSUME NotifyIInv, [NotifyNext]_notifyVars
             PROVE  NotifyIInv'
  OBVIOUS
<1>1. CASE UNCHANGED notifyVars
  <2>1. UNCHANGED <<alive, applied, creator, claimed, sock, joined, wanted, pending, overtaken,
                    told, seen, reqs>>
    BY <1>1 DEF notifyVars, data, sockets
  <2>2. NotifyTypeOK' /\ RoomsInv'
    BY <2>1 DEF NotifyIInv, NotifyTypeOK, RoomsInv
  <2>. QED
    BY <2>1, <2>2, SocketsOnly
<1>2. ASSUME NEW r \in Calls, NEW d \in Devices,
             \/ ChangeCart(r, d) \/ CancelOwnOrder(r, d)
             \/ ChangeOrder(r, d) \/ CreateOrder(r, d)
             \/ ChangeItem(r, d) \/ AddOrderItem(r, d)
      PROVE  NotifyIInv'
  <2>1. PICK doc \in {"cart", "orders"}, pc \in {"settled", "silent"} :
          Commits(r, doc) /\ Arrives(r, d, doc, None, pc)
    BY <1>2 DEF ChangeCart, CancelOwnOrder, ChangeOrder, CreateOrder, ChangeItem, AddOrderItem
  <2>. QED
    BY <2>1, ChangeKeeps
<1>3. CASE NotifyNext
  BY <1>2, <1>3, HandleConnectionKeeps, DisconnectKeeps, ReadKeeps, SubscribeAdminKeeps,
     JoinAdminsKeeps, UnsubscribeAdminKeeps, PlaceOrderKeeps, FindOrderKeeps,
     RemoveOrderedItemsKeeps, EmitKeeps, RespondKeeps, FailsKeeps, EndSessionKeeps
  DEF NotifyNext
<1>. QED
  BY <1>1, <1>3

\* The inductive invariant holds in every reachable state.
THEOREM NotifyInvariant == NotifySpec => []NotifyIInv
BY NotifyInitIInv, NotifyNextIInv, PTL DEF NotifySpec

\* Whoever is in its room and shows something old is about to read, unless the
\* event is still to come or never will, or the device's own answer is (the
\* handlers of the cart and of the orders, broadcast with the sender left out,
\* the announcement of an order by the request that created it).
THEOREM NobodyIsLeftBehind == NotifySpec => []EveryoneIsTold
<1>1. NotifyIInv => EveryoneIsTold
  BY DEF NotifyIInv
<1>. QED
  BY <1>1, NotifyInvariant, PTL

\* With no subscription under way a console is in the store's room as it has
\* asked last, unless an unsubscription has overtaken a subscription
\* (subscribeAdmin, which awaits ownsStore, and unsubscribeAdmin, which does
\* not wait).
THEOREM RoomsFollowRequests == NotifySpec => []RoomsAsWanted
<1>1. NotifyIInv => RoomsAsWanted
  BY DEF NotifyIInv, RoomsInv, RoomsAsWanted, NotifyTypeOK
<1>. QED
  BY <1>1, NotifyInvariant, PTL
=============================================================================

------------------------- MODULE OrderNumberProofs -------------------------
(***************************************************************************)
(* The properties of OrderNumber, for any number of requests, keys and     *)
(* retries.  The inductive invariant adds to them where a number taken can *)
(* lie (Taken) and how far the table of orders has grown under a request   *)
(* that keeps losing (Outrun).                                             *)
(***************************************************************************)
EXTENDS OrderNumber, FiniteSetTheorems, TLAPS

Typed == TypeOK /\ IsFiniteSet(orders)

(* A number that is about to be inserted was the next one at some moment.    *)
Taken == \A r \in Requests : req[r].pc = "insert" =>
           req[r].seq \in 1..(Cardinality(orders) + 1)

(* Every attempt lost is an order that another request has placed since the  *)
(* request started.                                                          *)
OutrunBy(q, n) ==
  /\ q.pc = "lookUp" => q.attempt = 0 /\ q.before <= n
  /\ q.pc = "number" => q.before + q.attempt <= n
  /\ q.pc = "insert" => q.before + q.attempt < q.seq
  /\ q.pc = "conflict" => q.before + MaxRetry < n
Outrun == \A r \in Requests : OutrunBy(req[r], Cardinality(orders))

IInv == Typed /\ NumbersAreConsecutive /\ Taken /\ OneOrderPerKey /\ Outrun

-----------------------------------------------------------------------------
(* The number that nextOrderSeq takes is the number of orders plus one.      *)
LEMMA NextSeqCounts ==
  ASSUME Typed, NumbersAreConsecutive
  PROVE  /\ NextSeq = Cardinality(orders) + 1
         /\ Cardinality(orders) \in Nat
<1> DEFINE N == Cardinality(orders)
           Highest(n) == \A o \in orders : o.seq <= n
<1>1. N \in Nat
  BY FS_CardinalityType DEF Typed
<1>2. CASE orders = {}
  BY <1>2, FS_EmptySet DEF NextSeq
<1>3. CASE orders # {}
  <2>1. N # 0
    BY <1>3, FS_EmptySet DEF Typed
  <2>2. /\ N \in {o.seq : o \in orders}
        /\ Highest(N)
    BY <2>1, <1>1 DEF NumbersAreConsecutive
  <2>3. /\ LastSeq \in {o.seq : o \in orders}
        /\ Highest(LastSeq)
    BY <2>2 DEF LastSeq
  <2>4. LastSeq \in 1..N /\ N <= LastSeq
    BY <2>2, <2>3, <1>1 DEF NumbersAreConsecutive
  <2>. QED
    BY <2>4, <1>3, <1>1 DEF NextSeq
<1>. QED
  BY <1>1, <1>2, <1>3

(* Request r changes its own state only, from one of its states to q.        *)
Moves(r, q) ==
  /\ q \in RequestState
  /\ req' = [req EXCEPT ![r] = q]

(* What is left to show of a step that inserts nothing.                      *)
LEMMA OrdersUnchanged ==
  ASSUME IInv, NEW r \in Requests, NEW q, Moves(r, q), UNCHANGED orders,
         q.pc = "insert" => q.seq \in 1..(Cardinality(orders) + 1),
         q.pc \in {"created", "deduplicated"} /\ q.key # Null =>
           \E o \in orders : o.key = q.key,
         OutrunBy(q, Cardinality(orders))
  PROVE  IInv'
<1>1. \A s \in Requests : req'[s] = IF s = r THEN q ELSE req[s]
  BY DEF Moves, IInv, Typed, TypeOK
<1>2. Typed'
  BY DEF IInv, Typed, TypeOK, Moves
<1>3. NumbersAreConsecutive'
  BY DEF IInv, NumbersAreConsecutive
<1>4. Taken'
  BY <1>1 DEF IInv, Taken
<1>5. OneOrderPerKey'
  BY <1>1 DEF IInv, OneOrderPerKey
<1>6. Outrun'
  BY <1>1 DEF IInv, Outrun, OutrunBy
<1>. QED
  BY <1>2, <1>3, <1>4, <1>5, <1>6 DEF IInv

(* Every request starts from a state of its type.                            *)
LEMMA IdleType == Idle \in RequestState
  BY RetryAssumption DEF Idle, RequestState, Phases

(* The states that Answer and Goto move a request to.                        *)
LEMMA AnswerMoves ==
  ASSUME Typed, NEW r \in Requests, NEW pc \in Phases, Answer(r, pc)
  PROVE  \E q : /\ Moves(r, q)
                /\ q.pc = pc /\ q.key = req[r].key /\ q.before = req[r].before
<1> DEFINE q == [Idle EXCEPT !.pc = pc, !.key = req[r].key, !.before = req[r].before]
<1>1. req[r] \in RequestState
  BY DEF Typed, TypeOK
<1>2. /\ q \in RequestState
      /\ q.pc = pc /\ q.key = req[r].key /\ q.before = req[r].before
  BY <1>1, IdleType DEF RequestState
<1>3. Moves(r, q)
  BY <1>2 DEF Moves, Answer
<1>. QED
  BY <1>2, <1>3

\* A request that goes on keeps its attempt and what it has read.
LEMMA GotoMoves ==
  ASSUME Typed, NEW r \in Requests, NEW pc \in Phases, Goto(r, pc)
  PROVE  \E q : /\ Moves(r, q)
                /\ q.pc = pc /\ q.attempt = req[r].attempt /\ q.before = req[r].before
<1> DEFINE q == [req[r] EXCEPT !.pc = pc]
<1>1. req[r] \in RequestState
  BY DEF Typed, TypeOK
<1>2. Moves(r, q)
  BY <1>1 DEF Moves, Goto, RequestState, Typed, TypeOK
<1>3. q.pc = pc /\ q.attempt = req[r].attempt /\ q.before = req[r].before
  BY <1>1 DEF RequestState
<1>. QED
  BY <1>2, <1>3

\* The inductive invariant holds at the start.
LEMMA InitIInv == Init => IInv
<1>. SUFFICES ASSUME Init PROVE IInv
  OBVIOUS
<1>1. /\ IsFiniteSet(orders)
      /\ Cardinality(orders) = 0
  BY FS_EmptySet DEF Init
<1>2. Typed
  BY <1>1, RetryAssumption DEF Init, Typed, TypeOK, RequestState, Phases, Idle
<1>3. NumbersAreConsecutive
  BY <1>1 DEF Init, NumbersAreConsecutive
<1>4. Taken /\ OneOrderPerKey /\ Outrun
  BY DEF Init, Idle, Taken, OneOrderPerKey, Outrun, OutrunBy
<1>. QED
  BY <1>2, <1>3, <1>4 DEF IInv

-----------------------------------------------------------------------------
(* An order is inserted only if both unique keys let it in; then its number  *)
(* is the next one, although it was taken from an older snapshot.            *)
LEMMA InsertIInv ==
  ASSUME IInv, NEW r \in Requests, Insert(r)
  PROVE  IInv'
<1> DEFINE N == Cardinality(orders)
           o == [seq |-> req[r].seq, key |-> req[r].key]
<1>1. N \in Nat
  BY FS_CardinalityType DEF IInv, Typed
<1>2. req[r] \in RequestState /\ "created" \in Phases
  BY DEF IInv, Typed, TypeOK, Phases
<1>3. ~SeqTaken(o.seq) /\ ~KeyTaken(o.key)
  BY DEF Insert, Refusals
<1>4. o.seq \in 1..(N + 1) /\ o.seq \notin 1..N
  BY <1>3 DEF Insert, IInv, Taken, SeqTaken, NumbersAreConsecutive
<1>5. o.seq = N + 1
  BY <1>4, <1>1
<1>6. PICK q : /\ Moves(r, q)
               /\ q.pc = "created" /\ q.key = req[r].key /\ q.before = req[r].before
  BY <1>2, AnswerMoves DEF IInv, Insert
<1>7. \A s \in Requests : req'[s] = IF s = r THEN q ELSE req[s]
  BY <1>6 DEF Moves, IInv, Typed, TypeOK
<1>8. orders' = orders \cup {o} /\ o \notin orders
  BY <1>3 DEF Insert, SeqTaken
<1>9. IsFiniteSet(orders') /\ Cardinality(orders') = N + 1
  BY <1>8, FS_AddElement DEF IInv, Typed
<1>10. Typed'
  <2>1. o \in Order
    BY <1>2, <1>5, <1>1 DEF Order, RequestState
  <2>. QED
    BY <2>1, <1>6, <1>8, <1>9 DEF IInv, Typed, TypeOK, Moves
<1>11. NumbersAreConsecutive'
  <2>1. {p.seq : p \in orders'} = {p.seq : p \in orders} \cup {N + 1}
    BY <1>5, <1>8
  <2>2. {p.seq : p \in orders'} = 1..Cardinality(orders')
    BY <2>1, <1>1, <1>9 DEF IInv, NumbersAreConsecutive
  <2>3. \A p, p2 \in orders' : p.seq = p2.seq => p = p2
    BY <1>3, <1>8 DEF IInv, NumbersAreConsecutive, SeqTaken
  <2>. QED
    BY <2>2, <2>3 DEF NumbersAreConsecutive
<1>12. Taken'
  BY <1>1, <1>6, <1>7, <1>9 DEF IInv, Taken
<1>13. OneOrderPerKey'
  <2>1. \A p, p2 \in orders' : p.key = p2.key /\ p.key # Null => p = p2
    BY <1>3, <1>8 DEF IInv, OneOrderPerKey, KeyTaken
  <2>2. ASSUME NEW s \in Requests, req'[s].pc \in {"created", "deduplicated"},
               req'[s].key # Null
        PROVE  \E p \in orders' : p.key = req'[s].key
    <3>1. CASE s = r
      BY <3>1, <1>6, <1>7, <1>8
    <3>2. CASE s # r
      BY <3>2, <2>2, <1>7, <1>8 DEF IInv, OneOrderPerKey
    <3>. QED
      BY <3>1, <3>2
  <2>. QED
    BY <2>1, <2>2 DEF OneOrderPerKey
<1>14. Outrun'
  <2>1. ASSUME NEW s \in Requests PROVE OutrunBy(req[s], N) => OutrunBy(req[s], N + 1)
    <3>1. req[s] \in RequestState
      BY DEF IInv, Typed, TypeOK
    <3>. QED
      BY <3>1, <1>1, RetryAssumption DEF OutrunBy, RequestState
  <2>. QED
    BY <2>1, <1>6, <1>7, <1>9 DEF IInv, Outrun, OutrunBy
<1>. QED
  BY <1>10, <1>11, <1>12, <1>13, <1>14 DEF IInv

\* Every step keeps the inductive invariant.
LEMMA NextIInv == IInv /\ [Next]_vars => IInv'
<1>. SUFFICES ASSUME IInv, [Next]_vars PROVE IInv'
  OBVIOUS
<1> DEFINE N == Cardinality(orders)
<1>1. NextSeq = N + 1 /\ N \in Nat
  BY NextSeqCounts DEF IInv
<1>2. \A r \in Requests : req[r] \in RequestState
  BY DEF IInv, Typed, TypeOK
<1>3. Typed /\ \A r \in Requests : OutrunBy(req[r], N)
  BY DEF IInv, Outrun
<1>4. ASSUME NEW r \in Requests, Start(r) PROVE IInv'
  <2>1. PICK k \in Keys \cup {Null} :
          req' = [req EXCEPT ![r] = [Idle EXCEPT !.pc = IF k = Null THEN "number" ELSE "lookUp",
                                                 !.key = k, !.before = N]]
    BY <1>4 DEF Start
  <2> DEFINE q == [Idle EXCEPT !.pc = IF k = Null THEN "number" ELSE "lookUp",
                               !.key = k, !.before = N]
  <2>2. q \in RequestState
    BY <1>1, IdleType DEF RequestState, Phases
  <2>3. OutrunBy(q, N) /\ q.pc \in {"number", "lookUp"}
    BY <1>1 DEF OutrunBy, Idle
  <2>4. Moves(r, q)
    BY <2>1, <2>2 DEF Moves
  <2>. HIDE DEF q
  <2>. QED
    BY <2>3, <2>4, <1>4, OrdersUnchanged DEF Start
<1>5. ASSUME NEW r \in Requests, LookUp(r) PROVE IInv'
  <2>1. CASE KeyTaken(req[r].key)
    <3>1. PICK q : Moves(r, q) /\ q.pc = "deduplicated" /\ q.key = req[r].key
      BY <2>1, <1>3, <1>5, AnswerMoves DEF LookUp, Phases
    <3>2. OutrunBy(q, N)
      BY <3>1 DEF OutrunBy
    <3>. QED
      BY <2>1, <3>1, <3>2, <1>5, OrdersUnchanged DEF LookUp, KeyTaken
  <2>2. CASE ~KeyTaken(req[r].key)
    <3>1. PICK q : /\ Moves(r, q) /\ q.pc = "number"
                   /\ q.attempt = req[r].attempt /\ q.before = req[r].before
      BY <2>2, <1>3, <1>5, GotoMoves DEF LookUp, Phases
    <3>2. OutrunBy(q, N)
      BY <3>1, <1>1, <1>2, <1>3, <1>5 DEF OutrunBy, LookUp, RequestState
    <3>. QED
      BY <3>1, <3>2, <1>5, OrdersUnchanged DEF LookUp
  <2>. QED
    BY <2>1, <2>2
<1>6. ASSUME NEW r \in Requests, Fail(r) PROVE IInv'
  <2>1. PICK q : Moves(r, q) /\ q.pc = "failed"
    BY <1>3, <1>6, AnswerMoves DEF Fail, Phases
  <2>2. OutrunBy(q, N)
    BY <2>1 DEF OutrunBy
  <2>. QED
    BY <2>1, <2>2, <1>6, OrdersUnchanged DEF Fail
<1>7. ASSUME NEW r \in Requests, TakeNumber(r) PROVE IInv'
  <2> DEFINE q == [req[r] EXCEPT !.pc = "insert", !.seq = NextSeq]
  <2>0. NextSeq \in Nat
    BY <1>1
  <2>1. q \in RequestState
    BY <2>0, <1>2 DEF RequestState, Phases
  <2>2. Moves(r, q)
    BY <2>1, <1>7, <1>3 DEF Moves, TakeNumber, Typed, TypeOK
  <2>3. /\ q.pc = "insert" /\ q.seq = N + 1
        /\ q.attempt = req[r].attempt /\ q.before = req[r].before
    BY <1>1, <1>2 DEF RequestState
  <2>. HIDE DEF q
  <2>4. OutrunBy(q, N)
    BY <2>3, <1>1, <1>2, <1>3, <1>7 DEF OutrunBy, TakeNumber, RequestState
  <2>5. q.seq \in 1..(N + 1)
    BY <2>3, <1>1
  <2>. QED
    BY <2>2, <2>3, <2>4, <2>5, <1>7, OrdersUnchanged DEF TakeNumber
<1>8. ASSUME NEW r \in Requests, Insert(r) PROVE IInv'
  BY <1>8, InsertIInv
<1>9. ASSUME NEW r \in Requests, SeqRefused(r) PROVE IInv'
  <2>1. req[r].seq <= N
    BY <1>9, <1>1 DEF SeqRefused, Refusals, SeqTaken, KeyTaken, IInv, NumbersAreConsecutive
  <2>2. req[r].before + req[r].attempt < N
    BY <2>1, <1>1, <1>2, <1>3, <1>9 DEF OutrunBy, SeqRefused, RequestState
  <2>3. CASE MayRetry(r)
    <3> DEFINE q == [req[r] EXCEPT !.pc = "number", !.attempt = req[r].attempt + 1]
    <3>0. req[r].attempt + 1 \in 0..MaxRetry
      BY <2>3, <1>2, RetryAssumption DEF RequestState, MayRetry
    <3>1. q \in RequestState
      BY <3>0, <1>2 DEF RequestState, Phases
    <3>2. Moves(r, q)
      BY <2>3, <3>1, <1>9, <1>3 DEF Moves, SeqRefused, Typed, TypeOK
    <3>3. /\ q.pc = "number" /\ q.attempt = req[r].attempt + 1
          /\ q.before = req[r].before
      BY <1>2 DEF RequestState
    <3>. HIDE DEF q
    <3>4. OutrunBy(q, N)
      BY <3>3, <2>2, <1>1, <1>2 DEF OutrunBy, RequestState
    <3>. QED
      BY <3>2, <3>3, <3>4, <1>9, OrdersUnchanged DEF SeqRefused
  <2>4. CASE ~MayRetry(r)
    <3>1. PICK q : Moves(r, q) /\ q.pc = "conflict" /\ q.before = req[r].before
      BY <2>4, <1>3, <1>9, AnswerMoves DEF SeqRefused, Phases
    <3>2. req[r].attempt = MaxRetry
      BY <2>4, <1>2, RetryAssumption DEF MayRetry, RequestState
    <3>3. OutrunBy(q, N)
      BY <3>1, <3>2, <2>2 DEF OutrunBy
    <3>. QED
      BY <3>1, <3>3, <1>9, OrdersUnchanged DEF SeqRefused
  <2>. QED
    BY <2>3, <2>4
<1>10. ASSUME NEW r \in Requests, KeyRefused(r) PROVE IInv'
  <2>1. PICK q : Moves(r, q) /\ q.pc = "findExisting"
    BY <1>3, <1>10, GotoMoves DEF KeyRefused, Phases
  <2>2. OutrunBy(q, N)
    BY <2>1 DEF OutrunBy
  <2>. QED
    BY <2>1, <2>2, <1>10, OrdersUnchanged DEF KeyRefused
<1>11. ASSUME NEW r \in Requests, FindExisting(r) PROVE IInv'
  <2>1. PICK q : /\ Moves(r, q) /\ q.key = req[r].key
                 /\ q.pc = IF KeyTaken(req[r].key) THEN "deduplicated" ELSE "failed"
    BY <1>3, <1>11, AnswerMoves DEF FindExisting, Phases
  <2>2. OutrunBy(q, N)
    BY <2>1 DEF OutrunBy
  <2>. QED
    BY <2>1, <2>2, <1>11, OrdersUnchanged DEF FindExisting, KeyTaken
<1>12. CASE UNCHANGED vars
  BY <1>12 DEF vars, IInv, Typed, TypeOK, NumbersAreConsecutive, Taken,
               OneOrderPerKey, Outrun, OutrunBy
<1>. QED
  BY <1>4, <1>5, <1>6, <1>7, <1>8, <1>9, <1>10, <1>11, <1>12 DEF Next, Step

-----------------------------------------------------------------------------
(* The inductive invariant holds in every state.                             *)
THEOREM IInvHolds == Spec => []IInv
  BY InitIInv, NextIInv, PTL DEF Spec

(* The rows and requests have their types: a request never counts more than  *)
(* MaxRetry retries.                                                         *)
THEOREM TypeCorrect == Spec => []TypeOK
<1>1. IInv => TypeOK
  BY DEF IInv, Typed
<1>. QED
  BY <1>1, IInvHolds, PTL

(* nextOrderSeq, the unique key and the retries number the orders of a day   *)
(* 1, 2, 3, ... for any number of concurrent requests.                       *)
THEOREM NoGapNoRepetition == Spec => []NumbersAreConsecutive
<1>1. IInv => NumbersAreConsecutive
  BY DEF IInv
<1>. QED
  BY <1>1, IInvHolds, PTL

(* The unique idempotency key makes one order of a repeated one, and a       *)
(* request told of an order with its key has one.                            *)
THEOREM RepeatedIsOne == Spec => []OneOrderPerKey
<1>1. IInv => OneOrderPerKey
  BY DEF IInv
<1>. QED
  BY <1>1, IInvHolds, PTL

(* ORDER_NUMBER_CONFLICT means more than MaxRetry orders were placed while   *)
(* the request ran.                                                          *)
THEOREM ConflictNeedsCrowd == Spec => []ConflictAfterLosingAll
<1>1. IInv => ConflictAfterLosingAll
  <2>. SUFFICES ASSUME IInv, NEW r \in Requests, req[r].pc = "conflict"
                PROVE  Cardinality(orders) - req[r].before > MaxRetry
    BY DEF ConflictAfterLosingAll
  <2>1. Cardinality(orders) \in Nat /\ req[r].before \in Nat
    BY FS_CardinalityType DEF IInv, Typed, TypeOK, RequestState
  <2>. QED
    BY <2>1, RetryAssumption DEF IInv, Outrun, OutrunBy
<1>. QED
  BY <1>1, IInvHolds, PTL
=============================================================================

--------------------------- MODULE CheckoutProofs ---------------------------
(***************************************************************************)
(* Theorems of Checkout, for any number of requests, lines and options: no *)
(* change of the cart is lost, an answered order has left the cart, and    *)
(* the checkout implements OrderIntake.                                    *)
(***************************************************************************)
EXTENDS Checkout, FiniteSetTheorems, TLAPS

CartPhases == {"claim", "read", "write", "release"}
OrderPhases == {"lookUp", "create", "acquire", "claim", "read", "write"}
DonePhases == {"release", "crashed"} \cup Answers

\* r has fetched a cart to order and has not been answered.
Orders(r) == req[r].op = "order" /\ req[r].pc \in OrderPhases

\* What a request in each phase is about.
Sound(r) ==
  /\ req[r].pc \in {"fetch", "lookUp", "create", "claim"} => req[r].op = "order"
  /\ req[r].pc = "preRead" => req[r].op = "update"
  /\ Running(r) /\ req[r].op = "add" =>
        req[r].fingerprint # Null /\ req[r].quantity > 0
  /\ Running(r) /\ req[r].op \in {"update", "remove"} => req[r].line # Null
  /\ req[r].pc = "write" /\ req[r].op \in {"update", "remove"} =>
        Present(req[r].cart, req[r].line)

RequestsInv == \A r \in Requests : Sound(r)

\* A write belongs to a request that has released the lock, or is about to.
CountInv == clock <= 1 + Cardinality({r \in Requests : req[r].pc \in DonePhases})

\* The lock of the cart excludes.
LockInv == \A r \in Requests : req[r].pc \in CartPhases => cartLock = r

\* A cart that is gone is empty, and one that is not was written before now.
CartInv ==
  /\ version <= clock
  /\ version = 0 => lines = EmptyCart
  /\ ~alive => version = 0

\* A version stands for one content: that of the cart now, of every order
\* being placed, and of the order that was placed.
VersionInv ==
  /\ \A r \in Requests : Orders(r) =>
       /\ req[r].version \in 1..clock
       /\ req[r].ordered # EmptyCart
       /\ version = req[r].version => lines = req[r].ordered
       /\ orders[req[r].version] \in {Null, req[r].ordered}
       /\ req[r].pc \notin {"lookUp", "create"} =>
            orders[req[r].version] = req[r].ordered
       /\ \A s \in Requests : Orders(s) /\ req[s].version = req[r].version =>
            req[s].ordered = req[r].ordered
  /\ \A v \in Versions : orders[v] # Null =>
       /\ v <= clock
       /\ v = version => orders[v] = lines

\* A claim of the deduction of v is carried out, or is held by an order that
\* is about to carry it out, or has died.
Claimant(s, v) ==
  /\ req[s].op = "order" /\ req[s].version = v
  /\ req[s].pc \in {"read", "write", "crashed"}

ClaimInv ==
  /\ \A v \in Versions : settlements[v] # 0 => settlements[v] = 1 /\ v \in claimed
  /\ alive => \A v \in claimed :
       settlements[v] = 1 \/ \E s \in Requests : Claimant(s, v)
  /\ alive => \A r \in Requests :
       Orders(r) /\ req[r].pc \in {"read", "write"} =>
         req[r].version \in claimed /\ settlements[req[r].version] = 0

\* What the answer "ok" to an order stands for, from the moment it is decided.
Settled(r) ==
  \/ settlements[req[r].version] = 1
  \/ \E s \in Requests : /\ req[s].pc = "crashed" /\ req[s].op = "order"
                         /\ req[s].version = req[r].version
                         /\ req[r].version \in claimed

Answered(r) ==
  /\ req[r].op = "order"
  /\ \/ req[r].pc = "ok"
     \/ req[r].pc = "release" /\ req[r].answer = "ok"

AnswerInv ==
  alive => \A r \in Requests :
    Answered(r) => req[r].version \in Versions /\ Settled(r)

IInv ==
  /\ TypeOK /\ RequestsInv /\ CountInv /\ LockInv /\ CartInv /\ VersionInv
  /\ NoLostUpdate /\ ClaimInv /\ AnswerInv

-----------------------------------------------------------------------------
(* What a line holds: options exactly when it has a quantity.              *)
LEMMA LineFacts ==
  ASSUME NEW cart \in Cart, NEW l \in Lines
  PROVE  /\ cart[l] \in Intake!Line
         /\ cart[l].quantity \in Nat
         /\ Present(cart, l) => cart[l].fingerprint \in Fingerprints
         /\ Present(cart, l) => cart[l] \in [fingerprint : Fingerprints,
                                             quantity : Nat \ {0}]
         /\ ~Present(cart, l) => cart[l] = NoLine
<1>1. cart[l] \in Intake!Line
  BY DEF Cart, Intake!Cart
<1>2. CASE cart[l] = Intake!NoLine
  BY <1>1, <1>2 DEF Intake!NoLine, NoLine, Present
<1>3. CASE cart[l] \in [fingerprint : Fingerprints, quantity : Nat \ {0}]
  BY <1>1, <1>3 DEF Present
<1>. QED
  BY <1>1, <1>2, <1>3 DEF Intake!Line

\* The empty cart is a cart, and the absent line a line.
LEMMA EmptyCartIsCart == EmptyCart \in Cart /\ NoLine \in Intake!Line
BY DEF EmptyCart, Intake!EmptyCart, Cart, Intake!Cart, Intake!Line, NoLine,
       Intake!NoLine

(* One line is replaced.                                                   *)
LEMMA CartExcept ==
  ASSUME NEW cart \in Cart, NEW l \in Lines, NEW x \in Intake!Line
  PROVE  [cart EXCEPT ![l] = x] \in Cart
BY DEF Cart, Intake!Cart

\* What an addition asks for is a line.
LEMMA LineOfIsLine ==
  ASSUME NEW f \in Fingerprints, NEW q \in Nat, q > 0
  PROVE  LineOf(f, q) \in Intake!Line
BY DEF LineOf, Intake!Line

\* A line that is added to stays a line.
LEMMA MoreIsLine ==
  ASSUME NEW x \in [fingerprint : Fingerprints, quantity : Nat \ {0}], NEW q \in Nat
  PROVE  [x EXCEPT !.quantity = @ + q] \in Intake!Line
<1>1. x.quantity + q \in Nat \ {0}
  OBVIOUS
<1>. QED
  BY <1>1 DEF Intake!Line

(* Taking ordered quantities off a cart leaves a cart.                     *)
LEMMA LinesLeftIsCart ==
  ASSUME NEW cart \in Cart, NEW ordered \in Cart
  PROVE  Intake!LinesLeft(cart, ordered) \in Cart
<1> SUFFICES ASSUME NEW l \in Lines
             PROVE  Intake!LinesLeft(cart, ordered)[l] \in Intake!Line
  BY DEF Intake!LinesLeft, Cart, Intake!Cart
<1>1. cart[l] \in Intake!Line /\ cart[l].quantity \in Nat
      /\ ordered[l].quantity \in Nat
  BY LineFacts
<1>2. CASE ordered[l].quantity = 0
  BY <1>1, <1>2 DEF Intake!LinesLeft
<1>3. CASE ordered[l].quantity # 0 /\ cart[l].quantity > ordered[l].quantity
  <2>1. cart[l] \in [fingerprint : Fingerprints, quantity : Nat \ {0}]
    BY <1>1, <1>3, LineFacts DEF Present
  <2>2. cart[l].quantity - ordered[l].quantity \in Nat \ {0}
    BY <1>1, <1>3
  <2>3. [cart[l] EXCEPT !.quantity = @ - ordered[l].quantity] \in Intake!Line
    BY <2>1, <2>2 DEF Intake!Line
  <2>. QED
    BY <1>3, <2>3 DEF Intake!LinesLeft
<1>4. CASE ordered[l].quantity # 0 /\ ~(cart[l].quantity > ordered[l].quantity)
  BY <1>4, EmptyCartIsCart DEF Intake!LinesLeft, NoLine
<1>. QED
  BY <1>2, <1>3, <1>4

(* Every operation writes a cart.                                          *)
LEMMA NewCartsAreCarts ==
  ASSUME TypeOK, RequestsInv, NEW r \in Requests, req[r].pc = "write"
  PROVE  \A cart \in NewCarts(r) : cart \in Cart
<1> DEFINE old == req[r].cart
           l == req[r].line
<1>0. /\ old \in Cart /\ req[r].quantity \in Nat /\ l \in Lines \cup {Null}
      /\ req[r].fingerprint \in Fingerprints \cup {Null}
      /\ req[r].ordered \in Cart /\ req[r].op \in Operations
  BY MaxQuantityAssumption DEF TypeOK, RequestState
<1>00. Running(r)
  BY DEF Running, Answers
<1>1. CASE req[r].op = "add"
  <2>1. req[r].fingerprint \in Fingerprints /\ req[r].quantity > 0
    BY <1>0, <1>00, <1>1 DEF RequestsInv, Sound
  <2>2. \A k \in Twins(old, Null, req[r].fingerprint) :
           [old EXCEPT ![k].quantity = @ + req[r].quantity] \in Cart
    <3> SUFFICES ASSUME NEW k \in Twins(old, Null, req[r].fingerprint)
                 PROVE  [old EXCEPT ![k].quantity = @ + req[r].quantity] \in Cart
      OBVIOUS
    <3>1. k \in Lines /\ old[k] \in [fingerprint : Fingerprints, quantity : Nat \ {0}]
      BY <1>0, LineFacts DEF Twins
    <3>2. [old[k] EXCEPT !.quantity = @ + req[r].quantity] \in Intake!Line
      BY <1>0, <3>1, MoreIsLine
    <3>. QED
      BY <1>0, <3>1, <3>2, CartExcept
  <2>3. \A k \in Lines : [old EXCEPT ![k] = LineOf(req[r].fingerprint, req[r].quantity)]
                           \in Cart
    BY <1>0, <2>1, LineOfIsLine, CartExcept
  <2>. QED
    BY <1>1, <2>2, <2>3 DEF NewCarts, Added
<1>2. CASE req[r].op = "update"
  <2> DEFINE f == IF req[r].fingerprint = Null THEN old[l].fingerprint
                  ELSE req[r].fingerprint
             q == IF req[r].quantity = 0 THEN old[l].quantity ELSE req[r].quantity
  <2>1. l \in Lines /\ Present(old, l)
    BY <1>0, <1>00, <1>2 DEF RequestsInv, Sound
  <2>2. f \in Fingerprints /\ q \in Nat /\ q > 0
    BY <1>0, <2>1, LineFacts DEF Present
  <2>3. \A k \in Twins(old, l, f) :
           [old EXCEPT ![k].quantity = @ + q, ![l] = NoLine] \in Cart
    <3> SUFFICES ASSUME NEW k \in Twins(old, l, f)
                 PROVE  [old EXCEPT ![k].quantity = @ + q, ![l] = NoLine] \in Cart
      OBVIOUS
    <3>1. k \in Lines /\ old[k] \in [fingerprint : Fingerprints, quantity : Nat \ {0}]
      BY <1>0, LineFacts DEF Twins
    <3>2. [old[k] EXCEPT !.quantity = @ + q] \in Intake!Line
      BY <2>2, <3>1, MoreIsLine
    <3>3. [old EXCEPT ![k] = [old[k] EXCEPT !.quantity = @ + q]] \in Cart
      BY <1>0, <3>1, <3>2, CartExcept
    <3>. QED
      BY <2>1, <3>3, CartExcept, EmptyCartIsCart
  <2>4. [old EXCEPT ![l] = LineOf(f, q)] \in Cart
    BY <1>0, <2>1, <2>2, LineOfIsLine, CartExcept
  <2>. QED
    BY <1>2, <2>3, <2>4 DEF NewCarts, Updated
<1>3. CASE req[r].op = "remove"
  BY <1>0, <1>00, <1>3, CartExcept, EmptyCartIsCart DEF NewCarts, RequestsInv, Sound
<1>4. CASE req[r].op = "clear"
  BY <1>4, EmptyCartIsCart DEF NewCarts
<1>5. CASE req[r].op = "order"
  BY <1>0, <1>5, LinesLeftIsCart DEF NewCarts
<1>. QED
  BY <1>0, <1>1, <1>2, <1>3, <1>4, <1>5 DEF Operations

-----------------------------------------------------------------------------
(* The requests that are past their write, and stay so, are counted.       *)
LEMMA DoneGrows ==
  ASSUME TypeOK, CountInv, NEW r \in Requests, clock' = clock,
         \A s \in Requests : s # r => req'[s] = req[s],
         req[r].pc \in DonePhases => req'[r].pc \in DonePhases
  PROVE  CountInv'
<1> DEFINE D == {s \in Requests : req[s].pc \in DonePhases}
           E == {s \in Requests : req'[s].pc \in DonePhases}
<1>1. D \subseteq E /\ E \subseteq Requests
  OBVIOUS
<1>2. IsFiniteSet(E) /\ IsFiniteSet(D) /\ Cardinality(D) <= Cardinality(E)
  BY <1>1, VersionsSuffice, FS_Subset
<1>3. Cardinality(D) \in Nat /\ Cardinality(E) \in Nat
  BY <1>2, FS_CardinalityType
<1>. QED
  BY <1>2, <1>3 DEF CountInv, TypeOK

(* A step of one request that touches, of what it shares with the others,  *)
(* the lock at most.                                                       *)
LEMMA Moves ==
  ASSUME IInv, NEW r \in Requests, NEW x \in RequestState,
         req' = [req EXCEPT ![r] = x],
         UNCHANGED <<lines, version, clock, alive, claimed, orders, settlements, put>>,
         cartLock' \in Requests \cup {Null}, LockInv', Sound(r)',
         req[r].pc \in DonePhases => x.pc \in DonePhases,
         x.op = "order" /\ x.pc \in OrderPhases =>
           \/ /\ Orders(r) /\ x.version = req[r].version /\ x.ordered = req[r].ordered
              /\ x.pc \notin {"lookUp", "create"} => orders[x.version] # Null
              /\ x.pc \in {"read", "write"} /\ alive => req[r].pc \in {"read", "write"}
           \/ /\ x.pc = "lookUp" /\ lines # EmptyCart
              /\ x.version = version /\ x.ordered = lines,
         x.pc = "write" /\ x.op # "clear" /\ alive => x.cart = lines,
         \A v \in Versions : Claimant(r, v) =>
           x.op = "order" /\ x.version = v /\ x.pc \in {"read", "write", "crashed"},
         req[r].pc # "crashed",
         alive /\ Answered(r)' => x.version \in Versions /\ Settled(r)'
  PROVE  IInv'
<1>0. /\ req \in [Requests -> RequestState] /\ req'[r] = x
      /\ \A s \in Requests : s # r => req'[s] = req[s]
      /\ req' \in [Requests -> RequestState]
  BY DEF IInv, TypeOK
<1>1. TypeOK'
  BY <1>0 DEF IInv, TypeOK
<1>2. RequestsInv'
  BY <1>0 DEF IInv, RequestsInv, Sound, Running
<1>3. CountInv'
  BY <1>0, DoneGrows DEF IInv
<1>4. CartInv'
  BY DEF IInv, CartInv
<1>5. VersionInv'
  <2>1. ASSUME NEW s \in Requests, Orders(s)', s # r PROVE Orders(s)
    BY <1>0, <2>1 DEF Orders
  <2>2. CASE Orders(r)' /\ Orders(r) /\ x.version = req[r].version
             /\ x.ordered = req[r].ordered
             /\ (x.pc \notin {"lookUp", "create"} => orders[x.version] # Null)
    BY <1>0, <2>1, <2>2 DEF IInv, VersionInv, Orders
  <2>3. CASE Orders(r)' /\ x.pc = "lookUp" /\ lines # EmptyCart
             /\ x.version = version /\ x.ordered = lines
    <3>1. version \in 1..clock /\ version \in Versions
      BY <2>3, VersionsSuffice DEF IInv, CartInv, TypeOK, Versions, Intake!Versions
    <3>2. orders[version] \in {Null, lines}
      BY <3>1 DEF IInv, VersionInv
    <3>. QED
      BY <1>0, <2>1, <2>3, <3>1, <3>2 DEF IInv, VersionInv, Orders
  <2>4. CASE ~Orders(r)'
    BY <1>0, <2>1, <2>4 DEF IInv, VersionInv, Orders
  <2>. QED
    BY <1>0, <2>2, <2>3, <2>4 DEF Orders
<1>6. NoLostUpdate'
  BY <1>0 DEF IInv, NoLostUpdate
<1>7. ClaimInv'
  <2>1. \A v \in Versions, s \in Requests : Claimant(s, v) => Claimant(s, v)'
    BY <1>0 DEF Claimant
  <2>2. claimed \subseteq Versions
    BY DEF IInv, TypeOK
  <2>3. \A s \in Requests : alive /\ Orders(s)' /\ req'[s].pc \in {"read", "write"} =>
           req'[s].version \in claimed /\ settlements[req'[s].version] = 0
    BY <1>0 DEF IInv, ClaimInv, Orders
  <2>. QED
    BY <2>1, <2>2, <2>3 DEF IInv, ClaimInv
<1>8. AnswerInv'
  BY <1>0 DEF IInv, AnswerInv, Answered, Settled
<1>. QED
  BY <1>1, <1>2, <1>3, <1>4, <1>5, <1>6, <1>7, <1>8 DEF IInv

\* A request that has not started is well typed.
LEMMA IdleIsRequestState == Idle \in RequestState
BY EmptyCartIsCart, VersionsSuffice, MaxQuantityAssumption
   DEF Idle, RequestState, Phases, Operations, Answers

(* Goto moves one request.                                                 *)
LEMMA GotoFacts ==
  ASSUME TypeOK, NEW r \in Requests, NEW pc \in Phases, Goto(r, pc)
  PROVE  /\ [req[r] EXCEPT !.pc = pc] \in RequestState
         /\ req' = [req EXCEPT ![r] = [req[r] EXCEPT !.pc = pc]]
BY DEF Goto, TypeOK, RequestState

\* A request that is answered forgets all but its operation and version.
LEMMA AnswerFacts ==
  ASSUME TypeOK, NEW r \in Requests, NEW a \in Phases,
         req' = [req EXCEPT ![r] = [Idle EXCEPT !.pc = a, !.op = req[r].op,
                                                !.version = req[r].version]]
  PROVE  /\ [Idle EXCEPT !.pc = a, !.op = req[r].op, !.version = req[r].version]
              \in RequestState
         /\ req'[r].pc = a /\ req'[r].op = req[r].op
         /\ req'[r].version = req[r].version
         /\ \A s \in Requests : s # r => req'[s] = req[s]
<1>1. req[r].op \in Operations /\ req[r].version \in 0..MaxVersion
  BY DEF TypeOK, RequestState
<1>. QED
  BY <1>1, IdleIsRequestState DEF TypeOK, RequestState, Idle

(* Every request that starts is sound and holds nothing.                   *)
LEMMA StartIInv ==
  ASSUME IInv, NEW r \in Requests, Start(r)
  PROVE  IInv'
<1>0. TypeOK /\ req \in [Requests -> RequestState] /\ Idle \in RequestState
  BY IdleIsRequestState DEF IInv, TypeOK
<1>. SUFFICES ASSUME NEW x \in RequestState, req[r].pc = "idle",
                     req' = [req EXCEPT ![r] = x],
                     x.pc \in {"acquire", "preRead", "fetch"},
                     x.pc = "fetch" <=> x.op = "order",
                     x.pc = "preRead" => x.op = "update",
                     x.op = "add" => x.fingerprint # Null /\ x.quantity > 0,
                     x.op \in {"update", "remove"} => x.line # Null,
                     UNCHANGED <<lines, version, clock, alive, cartLock, claimed,
                                 orders, settlements, put>>
              PROVE  IInv'
  <2>1. CASE StartAdd(r)
    <3>1. PICK f \in Fingerprints :
             req' = [req EXCEPT ![r] = [Idle EXCEPT !.pc = "acquire", !.op = "add",
                                                    !.fingerprint = f, !.quantity = 1]]
      BY <2>1 DEF StartAdd
    <3> DEFINE x == [Idle EXCEPT !.pc = "acquire", !.op = "add",
                                 !.fingerprint = f, !.quantity = 1]
    <3>2. 1 \in 0..MaxQuantity
      BY MaxQuantityAssumption
    <3>3. x \in RequestState
      BY <1>0, <3>2 DEF RequestState, Phases, Operations
    <3>4. /\ x.pc = "acquire" /\ x.op = "add" /\ x.quantity > 0
          /\ x.fingerprint # Null
      BY NullAssumption DEF Idle
    <3>. HIDE DEF x
    <3>. QED
      BY <2>1, <3>1, <3>3, <3>4 DEF StartAdd, x
  <2>2. CASE StartUpdate(r)
    <3>1. PICK l \in Lines, f \in Fingerprints \cup {Null}, q \in 0..MaxQuantity :
             req' = [req EXCEPT ![r] = [Idle EXCEPT !.pc = "preRead", !.op = "update",
                                          !.line = l, !.fingerprint = f, !.quantity = q]]
      BY <2>2 DEF StartUpdate
    <3>2. [Idle EXCEPT !.pc = "preRead", !.op = "update", !.line = l,
                       !.fingerprint = f, !.quantity = q] \in RequestState
      BY <1>0 DEF RequestState, Phases, Operations
    <3>. QED
      BY <2>2, <3>1, <3>2, NullAssumption DEF StartUpdate, Idle
  <2>3. CASE StartRemove(r)
    <3>1. PICK l \in Lines :
             req' = [req EXCEPT ![r] = [Idle EXCEPT !.pc = "acquire", !.op = "remove",
                                                    !.line = l]]
      BY <2>3 DEF StartRemove
    <3>2. [Idle EXCEPT !.pc = "acquire", !.op = "remove", !.line = l] \in RequestState
      BY <1>0 DEF RequestState, Phases, Operations
    <3>. QED
      BY <2>3, <3>1, <3>2, NullAssumption DEF StartRemove, Idle
  <2>4. CASE StartClear(r)
    <3>1. [Idle EXCEPT !.pc = "acquire", !.op = "clear"] \in RequestState
      BY <1>0 DEF RequestState, Phases, Operations
    <3>. QED
      BY <2>4, <3>1 DEF StartClear, Idle
  <2>5. CASE StartOrder(r)
    <3>1. [Idle EXCEPT !.pc = "fetch", !.op = "order"] \in RequestState
      BY <1>0 DEF RequestState, Phases, Operations
    <3>. QED
      BY <2>5, <3>1 DEF StartOrder, Idle
  <2>. QED
    BY <2>1, <2>2, <2>3, <2>4, <2>5 DEF Start
<1>1. req'[r] = x /\ \A s \in Requests : s # r => req'[s] = req[s]
  BY <1>0
<1>2. LockInv'
  BY <1>1 DEF IInv, LockInv, CartPhases
<1>3. Sound(r)'
  BY <1>1 DEF Sound
<1>4. cartLock' \in Requests \cup {Null}
  BY DEF IInv, TypeOK
<1>. QED
  BY <1>1, <1>2, <1>3, <1>4, Moves, ZenonT(60)
     DEF DonePhases, Answers, OrderPhases, Claimant, Answered

(* An order in flight has a cart, and once it has looked or created, it    *)
(* has an order in the database with exactly that content.                 *)
LEMMA OrderFacts ==
  ASSUME IInv, NEW r \in Requests, Orders(r)
  PROVE  /\ req[r].version \in Versions
         /\ req[r].ordered \in Cart /\ req[r].ordered # EmptyCart
         /\ req[r].ordered # Null
         /\ req[r].pc \notin {"lookUp", "create"} =>
              /\ orders[req[r].version] # Null
              /\ orders[req[r].version] = req[r].ordered
<1>1. /\ req[r].version \in 1..clock /\ req[r].ordered # EmptyCart
      /\ req[r].pc \notin {"lookUp", "create"} =>
           orders[req[r].version] = req[r].ordered
  BY DEF IInv, VersionInv
<1>2. clock \in 1..MaxVersion /\ req[r].ordered \in Cart
  BY DEF IInv, TypeOK, RequestState
<1>3. req[r].version \in Versions
  BY <1>1, <1>2, VersionsSuffice DEF Versions, Intake!Versions
<1>. QED
  BY <1>1, <1>2, <1>3, NullIsNoCart

(* A request that ends without success leaves nothing to hold.             *)
LEMMA EndsIInv ==
  ASSUME IInv, NEW r \in Requests, NEW a \in {"rejected", "unavailable", "crashed"},
         req' = [req EXCEPT ![r] = [Idle EXCEPT !.pc = a, !.op = req[r].op,
                                                !.version = req[r].version]],
         Running(r), a = "crashed" \/ req[r].pc \notin {"read", "write"},
         UNCHANGED <<lines, version, clock, alive, cartLock, claimed, orders,
                     settlements, put>>
  PROVE  IInv'
<1> DEFINE x == [Idle EXCEPT !.pc = a, !.op = req[r].op, !.version = req[r].version]
<1>0. TypeOK /\ a \in Phases
  BY DEF IInv, Phases, Answers
<1>1. /\ x \in RequestState /\ req'[r].pc = a /\ req'[r].op = req[r].op
      /\ req'[r].version = req[r].version
      /\ \A s \in Requests : s # r => req'[s] = req[s]
  BY <1>0, AnswerFacts
<1>2. x.pc = a /\ x.op = req[r].op /\ x.version = req[r].version
  BY DEF Idle
<1>3. LockInv' /\ cartLock' \in Requests \cup {Null}
  BY <1>1 DEF IInv, TypeOK, LockInv, CartPhases
<1>4. Sound(r)' /\ ~Answered(r)'
  BY <1>1 DEF Sound, Running, Answers, Answered
<1>5. \A v \in Versions : Claimant(r, v) =>
         x.op = "order" /\ x.version = v /\ x.pc \in {"read", "write", "crashed"}
  BY <1>2 DEF Claimant, Running
<1>. HIDE DEF x
<1>. QED
  BY <1>1, <1>2, <1>3, <1>4, <1>5, Moves, ZenonT(60)
     DEF DonePhases, Answers, OrderPhases, Running, x

(* Before the lock: what updateItem and the order look at, what they find. *)
LEMMA PreReadIInv == ASSUME IInv, NEW r \in Requests, PreRead(r) PROVE IInv'
<1>0. TypeOK /\ Sound(r) /\ cartLock \in Requests \cup {Null}
  BY DEF IInv, TypeOK, RequestsInv
<1>1. CASE Answer(r, "rejected")
  BY <1>1, EndsIInv DEF Answer, PreRead, Running, Answers
<1>2. CASE Goto(r, "acquire")
  <2> DEFINE x == [req[r] EXCEPT !.pc = "acquire"]
  <2>1. x \in RequestState /\ req' = [req EXCEPT ![r] = x]
    BY <1>0, <1>2, GotoFacts DEF Phases
  <2>2. /\ req'[r] = x /\ x.op = "update" /\ x.pc = "acquire" /\ x.line # Null
        /\ \A s \in Requests : s # r => req'[s] = req[s]
    BY <1>0, <2>1 DEF PreRead, TypeOK, RequestState, Sound, Running, Answers
  <2>3. LockInv' /\ Sound(r)'
    BY <2>2 DEF IInv, PreRead, LockInv, CartPhases, Sound
  <2>. HIDE DEF x
  <2>. QED
    BY <1>0, <2>1, <2>2, <2>3, Moves, ZenonT(60)
       DEF PreRead, DonePhases, Answers, OrderPhases, Claimant, Answered
<1>. QED
  BY <1>1, <1>2 DEF PreRead

\* Reading the cart without the lock changes one request only.
LEMMA FetchCartIInv == ASSUME IInv, NEW r \in Requests, FetchCart(r) PROVE IInv'
<1>0. TypeOK /\ Sound(r) /\ cartLock \in Requests \cup {Null}
  BY DEF IInv, TypeOK, RequestsInv
<1>1. CASE Answer(r, "rejected")
  BY <1>1, EndsIInv DEF Answer, FetchCart, Running, Answers
<1>2. CASE lines # EmptyCart
  <2> DEFINE x == [req[r] EXCEPT !.pc = "lookUp", !.version = version, !.ordered = lines]
  <2>0. x \in RequestState
    BY <1>0, ZenonT(60) DEF TypeOK, RequestState, Phases
  <2>1. req' = [req EXCEPT ![r] = x]
    <3>1. req' = [req EXCEPT ![r].pc = "lookUp", ![r].version = version,
                             ![r].ordered = lines]
      BY <1>2 DEF FetchCart
    <3>2. req \in [Requests -> RequestState]
      BY <1>0 DEF TypeOK
    <3>3. req'[r] = x /\ DOMAIN req' = Requests
      BY <3>1, <3>2
    <3>. QED
      BY <3>1, <3>2, <3>3
  <2>2. /\ req'[r] = x /\ x.op = "order" /\ x.pc = "lookUp" /\ x.version = version
        /\ x.ordered = lines
        /\ \A s \in Requests : s # r => req'[s] = req[s]
    BY <1>0, <2>1 DEF FetchCart, TypeOK, RequestState, Sound
  <2>3. LockInv' /\ Sound(r)'
    BY <2>2 DEF IInv, FetchCart, LockInv, CartPhases, Sound
  <2>. HIDE DEF x
  <2>. QED
    BY <1>0, <1>2, <2>0, <2>1, <2>2, <2>3, Moves, ZenonT(60)
       DEF FetchCart, DonePhases, Answers, OrderPhases, Claimant, Answered
<1>. QED
  BY <1>1, <1>2 DEF FetchCart

\* Looking for an earlier order of the key keeps the invariant.
LEMMA LookUpIInv == ASSUME IInv, NEW r \in Requests, LookUp(r) PROVE IInv'
<1>0. TypeOK /\ Sound(r) /\ cartLock \in Requests \cup {Null}
  BY DEF IInv, TypeOK, RequestsInv
<1> DEFINE pc == IF orders[req[r].version] # Null THEN "acquire" ELSE "create"
           x == [req[r] EXCEPT !.pc = pc]
<1>1. x \in RequestState /\ req' = [req EXCEPT ![r] = x]
  BY <1>0, GotoFacts DEF LookUp, Phases
<1>2. /\ req'[r] = x /\ x.op = "order" /\ x.pc = pc /\ x.version = req[r].version
      /\ x.ordered = req[r].ordered /\ pc \in {"acquire", "create"}
      /\ \A s \in Requests : s # r => req'[s] = req[s]
  BY <1>0, <1>1 DEF LookUp, TypeOK, RequestState, Sound
<1>3. LockInv' /\ Sound(r)' /\ Orders(r)
  BY <1>0, <1>2, ZenonT(60) DEF IInv, LookUp, LockInv, CartPhases, Sound, Orders, OrderPhases
<1>. HIDE DEF x
<1>. QED
  BY <1>0, <1>1, <1>2, <1>3, Moves, ZenonT(60)
     DEF LookUp, DonePhases, Answers, OrderPhases, Claimant, Answered

\* Taking the lock of the table keeps the invariant.
LEMMA AcquireIInv == ASSUME IInv, NEW r \in Requests, Acquire(r) PROVE IInv'
<1>0. TypeOK /\ Sound(r)
  BY DEF IInv, RequestsInv
<1> DEFINE pc == CASE req[r].op = "order" -> "claim"
                   [] req[r].op = "clear" -> "write"
                   [] OTHER -> "read"
           x == [req[r] EXCEPT !.pc = pc]
<1>1. /\ pc \in {"claim", "write", "read"}
      /\ pc = "claim" <=> req[r].op = "order"
      /\ pc = "write" <=> req[r].op = "clear"
  OBVIOUS
<1>. HIDE DEF pc
<1>2. Goto(r, pc)
  BY DEF Acquire, pc
<1>3. x \in RequestState /\ req' = [req EXCEPT ![r] = x]
  BY <1>0, <1>1, <1>2, GotoFacts DEF Phases
<1>4. /\ req'[r] = x /\ x.op = req[r].op /\ x.pc = pc /\ x.version = req[r].version
      /\ x.ordered = req[r].ordered
      /\ x.line = req[r].line /\ x.fingerprint = req[r].fingerprint
      /\ x.quantity = req[r].quantity
      /\ \A s \in Requests : s # r => req'[s] = req[s]
  BY <1>0, <1>3 DEF TypeOK, RequestState
<1>. HIDE DEF x
<1>5. LockInv' /\ cartLock' \in Requests \cup {Null}
  BY <1>4, NullAssumption DEF IInv, Acquire, CartLockFree, LockInv
<1>6. Sound(r)'
  BY <1>0, <1>1, <1>4 DEF Acquire, Sound, Running, Answers
<1>7. req[r].op = "order" =>
         Orders(r) /\ req[r].version \in Versions /\ orders[req[r].version] # Null
  BY OrderFacts DEF Acquire, Orders, OrderPhases
<1>. QED
  BY <1>1, <1>3, <1>4, <1>5, <1>6, <1>7, Moves, ZenonT(60)
     DEF Acquire, DonePhases, Answers, OrderPhases, Claimant, Answered

(* Under the lock: what is read is what is there.                          *)
LEMMA ReadCartIInv == ASSUME IInv, NEW r \in Requests, ReadCart(r) PROVE IInv'
<1>0. TypeOK /\ Sound(r) /\ cartLock \in Requests \cup {Null} /\ lines \in Cart
  BY DEF IInv, TypeOK, RequestsInv
<1>1. CASE req[r].op \in {"update", "remove"} /\ ~Present(lines, req[r].line)
  <2> DEFINE x == [req[r] EXCEPT !.pc = "release", !.answer = "rejected"]
  <2>1. x \in RequestState
    BY <1>0, ZenonT(60) DEF TypeOK, RequestState, Phases, Answers
  <2>2. req' = [req EXCEPT ![r] = x]
    BY <1>0, <1>1 DEF ReadCart, TypeOK
  <2>3. /\ req'[r] = x /\ x.pc = "release" /\ x.op = req[r].op
        /\ x.line = req[r].line /\ x.op # "order"
        /\ \A s \in Requests : s # r => req'[s] = req[s]
    BY <1>0, <1>1, <2>2 DEF TypeOK, RequestState
  <2>4. LockInv' /\ Sound(r)'
    BY <1>0, <1>1, <2>3 DEF IInv, ReadCart, LockInv, CartPhases, Sound, Running, Answers
  <2>. HIDE DEF x
  <2>. QED
    BY <1>0, <2>1, <2>2, <2>3, <2>4, Moves, ZenonT(60)
       DEF ReadCart, DonePhases, Answers, OrderPhases, Claimant, Answered
<1>2. CASE ~(req[r].op \in {"update", "remove"} /\ ~Present(lines, req[r].line))
  <2> DEFINE x == [req[r] EXCEPT !.pc = "write", !.cart = lines]
  <2>1. x \in RequestState
    BY <1>0, ZenonT(60) DEF TypeOK, RequestState, Phases
  <2>2. req' = [req EXCEPT ![r] = x]
    BY <1>0, <1>2 DEF ReadCart, TypeOK
  <2>3. /\ req'[r] = x /\ x.pc = "write" /\ x.op = req[r].op /\ x.cart = lines
        /\ x.line = req[r].line /\ x.fingerprint = req[r].fingerprint
        /\ x.quantity = req[r].quantity /\ x.version = req[r].version
        /\ x.ordered = req[r].ordered
        /\ \A s \in Requests : s # r => req'[s] = req[s]
    BY <1>0, <2>2 DEF TypeOK, RequestState
  <2>4. LockInv' /\ Sound(r)'
    BY <1>0, <1>2, <2>3, ZenonT(60) DEF IInv, ReadCart, LockInv, CartPhases, Sound, Running, Answers
  <2>5. x.op = "order" => Orders(r) /\ orders[req[r].version] # Null
    BY <2>3, OrderFacts DEF ReadCart, Orders, OrderPhases
  <2>. HIDE DEF x
  <2>. QED
    BY <1>0, <2>1, <2>2, <2>3, <2>4, <2>5, Moves, ZenonT(60)
       DEF ReadCart, DonePhases, Answers, OrderPhases, Claimant, Answered
<1>. QED
  BY <1>1, <1>2

\* Refusing a line whose options do not fit keeps the invariant.
LEMMA RefuseOptionsIInv ==
  ASSUME IInv, NEW r \in Requests, RefuseOptions(r) PROVE IInv'
<1>0. TypeOK /\ Sound(r) /\ cartLock \in Requests \cup {Null}
  BY DEF IInv, TypeOK, RequestsInv
<1> DEFINE x == [req[r] EXCEPT !.pc = "release", !.answer = "rejected"]
<1>1. x \in RequestState
  BY <1>0, ZenonT(60) DEF TypeOK, RequestState, Phases, Answers
<1>2. req' = [req EXCEPT ![r] = x]
  BY <1>0 DEF RefuseOptions, TypeOK
<1>3. /\ req'[r] = x /\ x.pc = "release" /\ x.op = "update" /\ x.line = req[r].line
      /\ \A s \in Requests : s # r => req'[s] = req[s]
  BY <1>0, <1>2 DEF RefuseOptions, TypeOK, RequestState
<1>4. LockInv' /\ Sound(r)'
  BY <1>0, <1>3
     DEF IInv, RefuseOptions, LockInv, CartPhases, Sound, Running, Answers
<1>. HIDE DEF x
<1>. QED
  BY <1>0, <1>1, <1>2, <1>3, <1>4, Moves, ZenonT(60)
     DEF RefuseOptions, DonePhases, Answers, OrderPhases, Claimant, Answered

(* The answer that was decided under the lock is the one given.            *)
LEMMA ReleaseIInv == ASSUME IInv, NEW r \in Requests, Release(r) PROVE IInv'
<1> DEFINE a == req[r].answer
           x == [Idle EXCEPT !.pc = a, !.op = req[r].op, !.version = req[r].version]
<1>0. TypeOK /\ a \in Answers /\ a \in Phases
  BY DEF IInv, TypeOK, RequestState, Phases
<1>1. req' = [req EXCEPT ![r] = x]
  BY DEF Release, Answer
<1>2. /\ x \in RequestState /\ req'[r].pc = a /\ req'[r].op = req[r].op
      /\ req'[r].version = req[r].version
      /\ \A s \in Requests : s # r => req'[s] = req[s]
  BY <1>0, <1>1, AnswerFacts
<1>3. x.pc = a /\ x.op = req[r].op /\ x.version = req[r].version
  BY DEF Idle
<1>. HIDE DEF x
<1>4. LockInv' /\ cartLock' \in Requests \cup {Null}
  BY <1>0, <1>2 DEF IInv, Release, LockInv, CartPhases, Answers
<1>5. Sound(r)'
  BY <1>0, <1>2 DEF Sound, Running, Answers
<1>6. alive /\ Answered(r)' => x.version \in Versions /\ Settled(r)'
  <2> SUFFICES ASSUME alive, Answered(r)' PROVE x.version \in Versions /\ Settled(r)'
    OBVIOUS
  <2>1. Answered(r)
    BY <1>0, <1>2 DEF Release, Answered, Answers
  <2>2. req[r].version \in Versions /\ Settled(r)
    BY <2>1 DEF IInv, AnswerInv
  <2>3. \A s \in Requests : req[s].pc = "crashed" => s # r
    BY DEF Release
  <2>. QED
    BY <1>2, <1>3, <2>2, <2>3 DEF Release, Settled
<1>. QED
  BY <1>0, <1>1, <1>2, <1>3, <1>4, <1>5, <1>6, Moves, ZenonT(60)
     DEF Release, DonePhases, Answers, OrderPhases, Claimant

(* A request that is refused, does not get the lock, or dies.              *)
LEMMA RefusedIInv ==
  ASSUME IInv, NEW r \in Requests, Refuse(r) \/ LockFails(r) \/ Crash(r)
  PROVE  IInv'
<1>1. CASE Refuse(r)
  BY <1>1, EndsIInv DEF Refuse, Answer, Running, Answers
<1>2. CASE LockFails(r)
  BY <1>2, EndsIInv DEF LockFails, Answer, Running, Answers
<1>3. CASE Crash(r)
  BY <1>3, EndsIInv DEF Crash
<1>. QED
  BY <1>1, <1>2, <1>3

-----------------------------------------------------------------------------
(* The order at a version is placed once, with the content of the cart at  *)
(* that version.                                                           *)
LEMMA CreateOrderIInv == ASSUME IInv, NEW r \in Requests, CreateOrder(r) PROVE IInv'
<1> DEFINE v == req[r].version
           x == [req[r] EXCEPT !.pc = "acquire"]
<1>0. TypeOK /\ Sound(r) /\ orders \in [Versions -> Cart \cup {Null}]
  BY DEF IInv, TypeOK, RequestsInv
<1>1. x \in RequestState /\ req' = [req EXCEPT ![r] = x]
  BY <1>0, GotoFacts DEF CreateOrder, Phases
<1>2. /\ req'[r] = x /\ x.pc = "acquire" /\ x.op = "order" /\ x.version = v
      /\ x.ordered = req[r].ordered
      /\ \A s \in Requests : s # r => req'[s] = req[s]
  BY <1>0, <1>1 DEF CreateOrder, TypeOK, RequestState, Sound
<1>3. /\ Orders(r) /\ v \in Versions /\ req[r].ordered \in Cart
      /\ req[r].ordered # Null
  <2>1. Orders(r)
    BY <1>0 DEF CreateOrder, Sound, Orders, OrderPhases
  <2>. QED
    BY <2>1, OrderFacts
<1>4. /\ orders' \in [Versions -> Cart \cup {Null}]
      /\ orders'[v] = req[r].ordered
      /\ \A w \in Versions : w # v => orders'[w] = orders[w]
  <2>1. orders[v] \in {Null, req[r].ordered}
    BY <1>3 DEF IInv, VersionInv
  <2>. QED
    BY <1>0, <1>3, <2>1 DEF CreateOrder
<1>. HIDE DEF x
<1>5. TypeOK'
  BY <1>0, <1>1, <1>4 DEF CreateOrder, TypeOK
<1>6. RequestsInv'
  BY <1>2 DEF IInv, RequestsInv, Sound, Running
<1>7. CountInv'
  BY <1>0, <1>2, DoneGrows DEF IInv, CreateOrder, DonePhases, Answers
<1>8. LockInv' /\ CartInv' /\ NoLostUpdate'
  BY <1>2 DEF IInv, CreateOrder, LockInv, CartInv, NoLostUpdate, CartPhases
<1>9. VersionInv'
  <2>1. \A s \in Requests : Orders(s)' <=> Orders(s)
    BY <1>2, <1>3 DEF Orders, OrderPhases
  <2>2. \A s \in Requests : /\ req'[s].version = req[s].version
                            /\ req'[s].ordered = req[s].ordered
                            /\ s # r => req'[s].pc = req[s].pc
    BY <1>2
  <2>3. \A s \in Requests : Orders(s) /\ req[s].version = v =>
           req[s].ordered = req[r].ordered
    BY <1>3 DEF IInv, VersionInv
  <2>4. \A s \in Requests : Orders(s) => req[s].version \in Versions
    BY OrderFacts
  <2>5. v \in 1..clock /\ (version = v => lines = req[r].ordered)
    BY <1>3 DEF IInv, VersionInv
  <2>6. UNCHANGED <<lines, version, clock>>
    BY DEF CreateOrder
  <2>7. ASSUME NEW s \in Requests, Orders(s)'
        PROVE  /\ orders'[req'[s].version] \in {Null, req'[s].ordered}
               /\ req'[s].pc \notin {"lookUp", "create"} =>
                    orders'[req'[s].version] = req'[s].ordered
    <3>1. CASE req[s].version = v
      BY <1>4, <2>1, <2>2, <2>3, <2>7, <3>1
    <3>2. CASE req[s].version # v
      BY <1>4, <2>1, <2>2, <2>4, <2>7, <3>2 DEF IInv, VersionInv
    <3>. QED
      BY <3>1, <3>2
  <2>8. ASSUME NEW s \in Requests, Orders(s)'
        PROVE  /\ req'[s].version \in 1..clock'
               /\ req'[s].ordered # EmptyCart
               /\ version' = req'[s].version => lines' = req'[s].ordered
               /\ \A t \in Requests :
                    Orders(t)' /\ req'[t].version = req'[s].version =>
                      req'[t].ordered = req'[s].ordered
    BY <2>1, <2>2, <2>6, <2>8 DEF IInv, VersionInv
  <2>9. ASSUME NEW w \in Versions, orders'[w] # Null
        PROVE  w <= clock' /\ (w = version' => orders'[w] = lines')
    <3>1. CASE w = v
      BY <1>4, <2>5, <2>6, <3>1
    <3>2. CASE w # v
      BY <1>4, <2>6, <2>9, <3>2 DEF IInv, VersionInv
    <3>. QED
      BY <3>1, <3>2
  <2>. QED
    BY <2>7, <2>8, <2>9 DEF VersionInv
<1>10. ClaimInv'
  <2>1. \A s \in Requests, w \in Versions : Claimant(s, w) => Claimant(s, w)'
    BY <1>2 DEF CreateOrder, Claimant
  <2>2. claimed \subseteq Versions
    BY <1>0 DEF TypeOK
  <2>3. \A s \in Requests : Orders(s)' /\ req'[s].pc \in {"read", "write"} =>
           Orders(s) /\ req[s].pc \in {"read", "write"} /\ req'[s] = req[s]
    BY <1>2 DEF Orders, OrderPhases
  <2>. QED
    BY <2>1, <2>2, <2>3 DEF IInv, CreateOrder, ClaimInv
<1>11. AnswerInv'
  BY <1>2 DEF IInv, CreateOrder, AnswerInv, Answered, Settled
<1>. QED
  BY <1>5, <1>6, <1>7, <1>8, <1>9, <1>10, <1>11 DEF IInv

(* The deduction of an order is claimed once, by the holder of the lock.   *)
LEMMA ClaimIInv == ASSUME IInv, NEW r \in Requests, Claim(r) PROVE IInv'
<1> DEFINE v == req[r].version
<1>0. /\ TypeOK /\ Sound(r) /\ cartLock \in Requests \cup {Null}
      /\ claimed \subseteq Versions /\ req[r].op = "order" /\ cartLock = r
  BY DEF IInv, TypeOK, RequestsInv, Claim, Sound, LockInv, CartPhases
<1>1. /\ Orders(r) /\ v \in Versions /\ orders[v] # Null
  <2>1. Orders(r)
    BY <1>0 DEF Claim, Orders, OrderPhases
  <2>. QED
    BY <2>1, OrderFacts DEF Claim
<1>2. \A s \in Requests : req[s].pc \in CartPhases => s = r
  BY <1>0 DEF IInv, LockInv
<1>3. CASE alive /\ Deducted(r)
  <2> DEFINE x == [req[r] EXCEPT !.pc = "release", !.answer = "ok"]
  <2>1. x \in RequestState
    <3>1. req[r] \in RequestState /\ "release" \in Phases /\ "ok" \in Answers
      BY <1>0 DEF TypeOK, Phases, Answers
    <3>. QED
      BY <3>1 DEF RequestState
  <2>2. req' = [req EXCEPT ![r] = x]
    BY <1>0, <1>3 DEF Claim, TypeOK
  <2>3. /\ req'[r] = x /\ x.pc = "release" /\ x.op = "order" /\ x.version = v
        /\ \A s \in Requests : s # r => req'[s] = req[s]
    BY <1>0, <2>2 DEF TypeOK, RequestState
  <2>. HIDE DEF x
  <2>4. LockInv' /\ Sound(r)'
    BY <1>0, <1>3, <2>3 DEF IInv, Claim, LockInv, Sound, Running, CartPhases
  <2>5. Settled(r)'
    <3>1. v \in claimed
      BY <1>3 DEF Deducted
    <3>2. settlements[v] = 1 \/ \E s \in Requests : Claimant(s, v)
      BY <1>3, <3>1 DEF IInv, ClaimInv
    <3>3. \A s \in Requests : Claimant(s, v) => req[s].pc = "crashed" /\ s # r
      BY <1>2 DEF Claim, Claimant, CartPhases
    <3>. QED
      BY <1>3, <2>3, <3>1, <3>2, <3>3 DEF Claim, Settled, Claimant
  <2>. QED
    BY <1>0, <1>1, <1>3, <2>1, <2>2, <2>3, <2>4, <2>5, Moves, ZenonT(60)
       DEF Claim, DonePhases, Answers, OrderPhases, Claimant
<1>4. CASE ~alive
  <2> DEFINE x == [req[r] EXCEPT !.pc = "read"]
  <2>1. x \in RequestState /\ req' = [req EXCEPT ![r] = x]
    BY <1>0, <1>4, GotoFacts DEF Claim, Phases
  <2>2. /\ req'[r] = x /\ x.pc = "read" /\ x.op = "order" /\ x.version = v
        /\ x.ordered = req[r].ordered
        /\ \A s \in Requests : s # r => req'[s] = req[s]
    BY <1>0, <2>1 DEF TypeOK, RequestState
  <2>. HIDE DEF x
  <2>3. LockInv' /\ Sound(r)'
    BY <1>0, <2>2 DEF IInv, Claim, LockInv, Sound, Running, CartPhases
  <2>. QED
    BY <1>0, <1>1, <1>4, <2>1, <2>2, <2>3, Moves, ZenonT(60)
       DEF Claim, DonePhases, Answers, OrderPhases, Claimant, Answered
<1>5. CASE alive /\ ~Deducted(r)
  <2> DEFINE x == [req[r] EXCEPT !.pc = "read"]
  <2>1. x \in RequestState /\ req' = [req EXCEPT ![r] = x]
    BY <1>0, <1>5, GotoFacts DEF Claim, Phases
  <2>2. /\ req'[r] = x /\ x.pc = "read" /\ x.op = "order" /\ x.version = v
        /\ x.ordered = req[r].ordered
        /\ \A s \in Requests : s # r => req'[s] = req[s]
    BY <1>0, <2>1 DEF TypeOK, RequestState
  <2>. HIDE DEF x
  <2>3. /\ claimed' = claimed \cup {v} /\ v \notin claimed
        /\ UNCHANGED <<lines, version, clock, alive, cartLock, orders, settlements, put>>
    BY <1>5 DEF Claim, Deducted
  <2>4. TypeOK'
    BY <1>0, <1>1, <2>1, <2>3 DEF TypeOK
  <2>5. RequestsInv'
    BY <1>0, <2>2 DEF IInv, RequestsInv, Sound, Running, Claim
  <2>6. CountInv'
    BY <1>0, <2>2, <2>3, DoneGrows DEF IInv, Claim, DonePhases, Answers
  <2>7. LockInv' /\ CartInv' /\ NoLostUpdate'
    BY <1>0, <2>2, <2>3 DEF IInv, LockInv, CartInv, NoLostUpdate
  <2>8. VersionInv'
    <3>1. \A s \in Requests : /\ Orders(s)' <=> Orders(s)
                              /\ req'[s].version = req[s].version
                              /\ req'[s].ordered = req[s].ordered
      BY <1>0, <1>1, <2>2 DEF Orders, OrderPhases
    <3>2. \A s \in Requests : req'[s].pc \notin {"lookUp", "create"} <=>
                              req[s].pc \notin {"lookUp", "create"}
      BY <2>2 DEF Claim
    <3>. QED
      BY <2>3, <3>1, <3>2 DEF IInv, VersionInv
  <2>9. ClaimInv'
    <3>1. settlements[v] = 0
      BY <1>1, <2>3 DEF IInv, ClaimInv
    <3>2. Claimant(r, v)'
      BY <2>2 DEF Claimant
    <3>3. \A s \in Requests, w \in Versions : Claimant(s, w) => Claimant(s, w)'
      BY <2>2 DEF Claim, Claimant
    <3>4. \A s \in Requests : req'[s].pc \in {"read", "write"} => s = r
      BY <1>2, <2>2 DEF CartPhases
    <3>. QED
      BY <1>0, <2>2, <2>3, <3>1, <3>2, <3>3, <3>4 DEF IInv, ClaimInv
  <2>10. AnswerInv'
    BY <2>2, <2>3 DEF IInv, Claim, AnswerInv, Answered, Settled
  <2>. QED
    BY <2>4, <2>5, <2>6, <2>7, <2>8, <2>9, <2>10 DEF IInv
<1>. QED
  BY <1>3, <1>4, <1>5

-----------------------------------------------------------------------------
(* What a write does: it deletes the cart, replaces it, or is refused, and *)
(* counts as the deduction of an order as long as the session lives.       *)
Wrote(r) ==
  /\ UNCHANGED <<alive, cartLock, claimed, orders>>
  /\ settlements' = IF req[r].op = "order" /\ alive
                      THEN [settlements EXCEPT ![req[r].version] = @ + 1]
                      ELSE settlements
  /\ \E cart \in NewCarts(r), a \in {"ok", "rejected"} :
       /\ req' = [req EXCEPT ![r].pc = "release", ![r].answer = a]
       /\ \/ /\ Deletes(r, cart) /\ a = "ok"
             /\ lines' = EmptyCart /\ version' = 0 /\ UNCHANGED <<clock, put>>
          \/ /\ ~Deletes(r, cart) /\ alive /\ a = "ok"
             /\ lines' = cart /\ clock' = clock + 1 /\ version' = clock + 1
             /\ put' \in [Lines -> Nat]
          \/ /\ ~Deletes(r, cart) /\ ~alive /\ a = "rejected"
             /\ UNCHANGED <<lines, version, clock, put>>

\* What a write of the cart comes to, whichever operation makes it.
LEMMA WriteCartWrote ==
  ASSUME IInv, NEW r \in Requests, WriteCart(r)
  PROVE  Wrote(r)
<1>0. /\ put \in [Lines -> Nat] /\ req[r].cart \in Cart
      /\ \A cart \in NewCarts(r) : cart \in Cart
  BY NewCartsAreCarts DEF IInv, TypeOK, RequestState, WriteCart
<1>1. PICK cart \in NewCarts(r) :
       IF Deletes(r, cart)
         THEN /\ lines' = EmptyCart /\ version' = 0
              /\ req' = [req EXCEPT ![r].pc = "release", ![r].answer = "ok"]
              /\ UNCHANGED <<clock, put>>
       ELSE IF alive
         THEN /\ clock' = clock + 1
              /\ lines' = cart /\ version' = clock'
              /\ put' = IF req[r].op = "order" THEN put
                        ELSE [l \in Lines |->
                                IF cart[l].quantity > req[r].cart[l].quantity
                                  THEN put[l] + cart[l].quantity - req[r].cart[l].quantity
                                  ELSE put[l]]
              /\ req' = [req EXCEPT ![r].pc = "release", ![r].answer = "ok"]
       ELSE /\ req' = [req EXCEPT ![r].pc = "release", ![r].answer = "rejected"]
            /\ UNCHANGED <<lines, version, clock, put>>
  BY DEF WriteCart
<1>2. \A l \in Lines : cart[l].quantity \in Nat /\ req[r].cart[l].quantity \in Nat
  BY <1>0, LineFacts
<1>3. ~Deletes(r, cart) /\ alive => put' \in [Lines -> Nat]
  <2> SUFFICES ASSUME ~Deletes(r, cart), alive PROVE put' \in [Lines -> Nat]
    OBVIOUS
  <2>1. CASE req[r].op = "order"
    BY <1>0, <1>1, <2>1
  <2>2. CASE req[r].op # "order"
    <3> DEFINE more(l) == IF cart[l].quantity > req[r].cart[l].quantity
                            THEN put[l] + cart[l].quantity - req[r].cart[l].quantity
                            ELSE put[l]
    <3>1. \A l \in Lines : more(l) \in Nat
      BY <1>0, <1>2
    <3>. HIDE DEF more
    <3>2. put' = [l \in Lines |-> more(l)]
      BY <1>1, <2>2 DEF more
    <3>. QED
      BY <3>1, <3>2
  <2>. QED
    BY <2>1, <2>2
<1>4. CASE Deletes(r, cart)
  BY <1>1, <1>4 DEF Wrote, WriteCart
<1>5. CASE ~Deletes(r, cart) /\ alive
  BY <1>1, <1>3, <1>5 DEF Wrote, WriteCart
<1>6. CASE ~Deletes(r, cart) /\ ~alive
  BY <1>1, <1>6 DEF Wrote, WriteCart
<1>. QED
  BY <1>4, <1>5, <1>6

(* The writes are fewer than the requests.                                 *)
LEMMA WriteCounts ==
  ASSUME TypeOK, CountInv, NEW r \in Requests, req[r].pc = "write",
         \A s \in Requests : s # r => req'[s] = req[s], req'[r].pc = "release"
  PROVE  /\ clock + 1 <= MaxVersion
         /\ clock + 1 <= 1 + Cardinality({s \in Requests : req'[s].pc \in DonePhases})
<1> DEFINE D == {s \in Requests : req[s].pc \in DonePhases}
           E == {s \in Requests : req'[s].pc \in DonePhases}
<1>1. E = D \cup {r} /\ r \notin D /\ E \subseteq Requests /\ D \subseteq Requests
  BY DEF DonePhases, Answers
<1>2. /\ IsFiniteSet(E) /\ IsFiniteSet(D)
      /\ Cardinality(E) <= Cardinality(Requests) /\ Cardinality(Requests) \in Nat
  BY <1>1, VersionsSuffice, FS_Subset, FS_CardinalityType
<1>3. Cardinality(E) = Cardinality(D) + 1 /\ Cardinality(D) \in Nat
  BY <1>1, <1>2, FS_AddElement, FS_CardinalityType
<1>. QED
  BY <1>2, <1>3, VersionsSuffice DEF CountInv, TypeOK

\* Writing the cart keeps the invariant.
LEMMA WriteCartIInv == ASSUME IInv, NEW r \in Requests, WriteCart(r) PROVE IInv'
<1> DEFINE v == req[r].version
<1>0. /\ TypeOK /\ Sound(r) /\ cartLock = r /\ req[r].pc = "write" /\ Wrote(r)
      /\ req[r] \in RequestState
  BY WriteCartWrote DEF IInv, TypeOK, RequestsInv, WriteCart, LockInv, CartPhases
<1>1. PICK cart \in NewCarts(r), a \in {"ok", "rejected"} :
       /\ req' = [req EXCEPT ![r].pc = "release", ![r].answer = a]
       /\ \/ /\ Deletes(r, cart) /\ a = "ok"
             /\ lines' = EmptyCart /\ version' = 0 /\ UNCHANGED <<clock, put>>
          \/ /\ ~Deletes(r, cart) /\ alive /\ a = "ok"
             /\ lines' = cart /\ clock' = clock + 1 /\ version' = clock + 1
             /\ put' \in [Lines -> Nat]
          \/ /\ ~Deletes(r, cart) /\ ~alive /\ a = "rejected"
             /\ UNCHANGED <<lines, version, clock, put>>
  BY <1>0 DEF Wrote
<1>2. \A s \in Requests : req[s].pc \in CartPhases => s = r
  BY <1>0 DEF IInv, LockInv
<1>3. /\ req' \in [Requests -> RequestState]
      /\ req'[r].pc = "release" /\ req'[r].op = req[r].op
      /\ req'[r].version = v /\ req'[r].line = req[r].line
      /\ req'[r].fingerprint = req[r].fingerprint
      /\ req'[r].quantity = req[r].quantity
      /\ \A s \in Requests : s # r => req'[s] = req[s]
  <2> DEFINE x == [req[r] EXCEPT !.pc = "release", !.answer = a]
  <2>1. x \in RequestState
    BY <1>0 DEF RequestState, Phases, Answers
  <2>2. req' = [req EXCEPT ![r] = x]
    BY <1>0, <1>1 DEF TypeOK
  <2>. QED
    BY <1>0, <2>1, <2>2 DEF TypeOK, RequestState
<1>4. cart \in Cart /\ EmptyCart \in Cart
  BY <1>0, NewCartsAreCarts, EmptyCartIsCart DEF IInv
<1>5. /\ UNCHANGED <<alive, cartLock, claimed, orders>>
      /\ settlements' = IF req[r].op = "order" /\ alive
                          THEN [settlements EXCEPT ![v] = @ + 1] ELSE settlements
  BY <1>0 DEF Wrote
<1>6. clock \in 1..MaxVersion /\ version \in 0..MaxVersion /\ MaxVersion \in Nat
  BY <1>0, VersionsSuffice DEF TypeOK
<1>7. clock' \in 1..MaxVersion /\ version' \in 0..MaxVersion /\ lines' \in Cart
      /\ put' \in [Lines -> Nat]
  <2>1. clock + 1 <= MaxVersion
    BY <1>0, <1>3, WriteCounts DEF IInv
  <2>2. lines \in Cart /\ put \in [Lines -> Nat]
    BY <1>0 DEF TypeOK
  <2>3. clock' \in 1..MaxVersion /\ version' \in 0..MaxVersion
    BY <1>1, <1>6, <2>1
  <2>. QED
    BY <1>1, <1>4, <2>2, <2>3
<1>8. req[r].op = "order" =>
         /\ Orders(r) /\ v \in Versions /\ orders[v] = req[r].ordered /\ orders[v] # Null
         /\ alive => v \in claimed /\ settlements[v] = 0
  <2>1. req[r].op = "order" => Orders(r)
    BY <1>0 DEF Orders, OrderPhases
  <2>. QED
    BY <1>0, <2>1, OrderFacts DEF IInv, ClaimInv
<1>9. settlements \in [Versions -> Nat]
  BY <1>0 DEF TypeOK
<1>10. TypeOK'
  BY <1>0, <1>3, <1>5, <1>7, <1>8, <1>9 DEF TypeOK
<1>11. RequestsInv'
  BY <1>0, <1>3 DEF IInv, RequestsInv, Sound, Running, Answers
<1>12. CountInv'
  <2>1. CASE clock' = clock
    BY <1>0, <1>3, <2>1, DoneGrows DEF IInv, DonePhases
  <2>2. CASE clock' = clock + 1
    BY <1>0, <1>3, <2>2, WriteCounts DEF IInv, CountInv
  <2>. QED
    BY <1>1, <2>1, <2>2
<1>13. LockInv'
  BY <1>0, <1>2, <1>3, <1>5 DEF LockInv, CartPhases
<1>14. NoLostUpdate'
  BY <1>2, <1>3 DEF NoLostUpdate, CartPhases
<1>15. CartInv'
  BY <1>1, <1>5, <1>6 DEF IInv, CartInv
<1>16. VersionInv'
  <2>1. \A s \in Requests : Orders(s)' => Orders(s) /\ req'[s] = req[s]
    BY <1>3 DEF Orders, OrderPhases
  <2>2. \A s \in Requests : Orders(s) => req[s].version \in Versions
    BY OrderFacts
  <2>3. \A w \in Versions : w # 0
    BY DEF Versions, Intake!Versions
  <2>4. \/ lines' = lines /\ version' = version /\ clock' = clock
        \/ version' = 0 /\ clock' = clock
        \/ version' = clock + 1 /\ clock' = clock + 1
    BY <1>1
  <2>5. \A s \in Requests : Orders(s) => req[s].version \in 1..clock
    BY DEF IInv, VersionInv
  <2>6. \A w \in Versions : orders[w] # Null => w <= clock /\ w \in Int
    BY DEF IInv, VersionInv, Versions, Intake!Versions
  <2>7. ASSUME NEW s \in Requests, Orders(s)'
        PROVE  /\ req'[s].version \in 1..clock'
               /\ version' = req'[s].version => lines' = req'[s].ordered
    BY <1>6, <2>1, <2>4, <2>5, <2>7 DEF IInv, VersionInv
  <2>8. ASSUME NEW s \in Requests, Orders(s)'
        PROVE  /\ req'[s].ordered # EmptyCart
               /\ orders'[req'[s].version] \in {Null, req'[s].ordered}
               /\ req'[s].pc \notin {"lookUp", "create"} =>
                    orders'[req'[s].version] = req'[s].ordered
               /\ \A t \in Requests :
                    Orders(t)' /\ req'[t].version = req'[s].version =>
                      req'[t].ordered = req'[s].ordered
    BY <1>5, <2>1, <2>8 DEF IInv, VersionInv
  <2>9. ASSUME NEW w \in Versions, orders'[w] # Null
        PROVE  w <= clock' /\ (w = version' => orders'[w] = lines')
    BY <1>5, <1>6, <2>3, <2>4, <2>6, <2>9 DEF IInv, VersionInv
  <2>. QED
    BY <2>7, <2>8, <2>9 DEF VersionInv
<1>17. ClaimInv'
  <2>1. /\ \A w \in Versions : settlements'[w] # settlements[w] =>
             /\ w = v /\ req[r].op = "order" /\ alive /\ settlements'[w] = 1
             /\ w \in claimed
        /\ req[r].op = "order" /\ alive => settlements'[v] = 1
    BY <1>5, <1>8, <1>9
  <2>2. \A s \in Requests, w \in Versions :
           s # r /\ Claimant(s, w) => Claimant(s, w)'
    BY <1>3 DEF Claimant
  <2>3. \A s \in Requests : Orders(s)' => req'[s].pc \notin {"read", "write"}
    BY <1>2, <1>3 DEF CartPhases
  <2>4. claimed \subseteq Versions
    BY <1>0 DEF TypeOK
  <2>5. ASSUME alive, NEW w \in claimed
        PROVE  settlements'[w] = 1 \/ \E s \in Requests : Claimant(s, w)'
    <3>1. settlements[w] = 1 \/ \E s \in Requests : Claimant(s, w)
      BY <2>5 DEF IInv, ClaimInv
    <3>2. Claimant(r, w) => settlements'[w] = 1
      BY <2>1, <2>5 DEF Claimant
    <3>. QED
      BY <2>1, <2>2, <2>4, <3>1, <3>2
  <2>6. \A w \in Versions : settlements'[w] # 0 => settlements'[w] = 1 /\ w \in claimed
    BY <2>1 DEF IInv, ClaimInv
  <2>. QED
    BY <1>5, <2>3, <2>5, <2>6 DEF ClaimInv
<1>18. AnswerInv'
  <2> SUFFICES ASSUME alive, NEW s \in Requests, Answered(s)'
               PROVE  req'[s].version \in Versions /\ Settled(s)'
    BY <1>5 DEF AnswerInv
  <2>1. CASE s = r
    BY <1>3, <1>5, <1>8, <1>9, <2>1 DEF Answered, Settled
  <2>2. CASE s # r
    <3>1. req[s].version \in Versions /\ Settled(s)
      BY <1>3, <2>2 DEF IInv, AnswerInv, Answered
    <3>2. settlements[req[s].version] = 1 => settlements'[req[s].version] = 1
      BY <1>5, <1>8, <1>9, <3>1
    <3>3. \A t \in Requests : req[t].pc = "crashed" => t # r
      BY <1>0
    <3>. QED
      BY <1>3, <1>5, <2>2, <3>1, <3>2, <3>3 DEF Settled
  <2>. QED
    BY <2>1, <2>2
<1>. QED
  BY <1>10, <1>11, <1>12, <1>13, <1>14, <1>15, <1>16, <1>17, <1>18 DEF IInv

-----------------------------------------------------------------------------
(* A lock expires with its dead holder, and a session with its cart.       *)
LEMMA ExpiresIInv == ASSUME IInv, LockExpires \/ SessionExpires PROVE IInv'
<1>1. CASE LockExpires
  <2>1. TypeOK'
    BY <1>1 DEF IInv, LockExpires, TypeOK
  <2>2. LockInv'
    BY <1>1 DEF IInv, LockExpires, LockInv, CartPhases
  <2>3. RequestsInv' /\ CountInv' /\ CartInv' /\ NoLostUpdate'
    BY <1>1 DEF IInv, LockExpires, RequestsInv, Sound, Running, CountInv, CartInv,
                NoLostUpdate
  <2>4. VersionInv'
    BY <1>1 DEF IInv, LockExpires, VersionInv, Orders
  <2>5. ClaimInv' /\ AnswerInv'
    BY <1>1 DEF IInv, LockExpires, ClaimInv, Claimant, AnswerInv, Answered, Settled, Orders
  <2>. QED
    BY <2>1, <2>2, <2>3, <2>4, <2>5 DEF IInv
<1>2. CASE SessionExpires
  <2>0. clock \in 1..MaxVersion /\ MaxVersion \in Nat
    BY VersionsSuffice DEF IInv, TypeOK
  <2>1. TypeOK'
    <3>1. 0 \in 0..MaxVersion /\ FALSE \in BOOLEAN
      BY <2>0
    <3>2. lines' \in Cart /\ version' \in 0..MaxVersion /\ alive' \in BOOLEAN
      BY <1>2, <3>1, EmptyCartIsCart DEF SessionExpires
    <3>3. UNCHANGED <<clock, cartLock, claimed, orders, req, settlements, put>>
      BY <1>2 DEF SessionExpires
    <3>. QED
      BY <3>2, <3>3 DEF IInv, TypeOK
  <2>2. RequestsInv' /\ CountInv' /\ LockInv'
    BY <1>2 DEF IInv, SessionExpires, RequestsInv, Sound, Running, CountInv, LockInv
  <2>3. CartInv' /\ NoLostUpdate'
    BY <1>2, <2>0 DEF IInv, SessionExpires, CartInv, NoLostUpdate
  <2>4. VersionInv'
    <3>1. \A s \in Requests : Orders(s) => req[s].version # 0
      BY <2>0 DEF IInv, VersionInv
    <3>2. \A w \in Versions : w # 0
      BY DEF Versions, Intake!Versions
    <3>. QED
      BY <1>2, <3>1, <3>2 DEF IInv, SessionExpires, VersionInv, Orders
  <2>5. ClaimInv' /\ AnswerInv'
    BY <1>2 DEF IInv, SessionExpires, ClaimInv, AnswerInv
  <2>. QED
    BY <2>1, <2>2, <2>3, <2>4, <2>5 DEF IInv
<1>. QED
  BY <1>1, <1>2

\* The inductive invariant holds at the start.
LEMMA InitIInv == Init => IInv
<1> SUFFICES ASSUME Init PROVE IInv
  OBVIOUS
<1>0. PICK l \in Lines, f \in Fingerprints :
        /\ lines = [EmptyCart EXCEPT ![l] = LineOf(f, 1)]
        /\ put = [k \in Lines |-> IF k = l THEN 1 ELSE 0]
  BY DEF Init
<1>1. lines \in Cart /\ Idle \in RequestState
  <2>1. LineOf(f, 1) \in Intake!Line
    BY LineOfIsLine
  <2>. QED
    BY <1>0, <2>1, EmptyCartIsCart, CartExcept, IdleIsRequestState
<1>2. MaxVersion \in Nat /\ MaxVersion >= 1
  <2>1. Cardinality(Requests) \in Nat
    BY VersionsSuffice, FS_CardinalityType
  <2>. QED
    BY <2>1, VersionsSuffice
<1>3. req = [r \in Requests |-> Idle]
  BY DEF Init
<1>4. \A r \in Requests : req[r].pc = "idle" /\ req[r].op = "clear"
  BY <1>3 DEF Idle
<1>5. TypeOK
  BY <1>0, <1>1, <1>2 DEF Init, TypeOK
<1>6. RequestsInv /\ LockInv /\ NoLostUpdate
  BY <1>4 DEF RequestsInv, Sound, Running, LockInv, CartPhases, NoLostUpdate
<1>7. CountInv
  <2>1. {r \in Requests : req[r].pc \in DonePhases} = {}
    BY <1>4 DEF DonePhases, Answers
  <2>. QED
    <3>1. Cardinality({r \in Requests : req[r].pc \in DonePhases}) = 0
      BY <2>1, FS_EmptySet
    <3>2. clock = 1
      BY DEF Init
    <3>. QED
      BY <3>1, <3>2 DEF CountInv
<1>8. CartInv
  BY DEF CartInv, Init
<1>9. VersionInv
  BY <1>4 DEF VersionInv, Orders, OrderPhases, Init
<1>10. ClaimInv /\ AnswerInv
  BY <1>4 DEF ClaimInv, AnswerInv, Answered, Orders, OrderPhases, Init
<1>. QED
  BY <1>5, <1>6, <1>7, <1>8, <1>9, <1>10 DEF IInv

\* Every step of a request keeps the inductive invariant.
LEMMA StepIInv == ASSUME IInv, NEW r \in Requests, Step(r) PROVE IInv'
BY PreReadIInv, FetchCartIInv, LookUpIInv, CreateOrderIInv, RefusedIInv, AcquireIInv,
   ClaimIInv, ReadCartIInv, RefuseOptionsIInv, WriteCartIInv, ReleaseIInv DEF Step

\* A stuttering step keeps the inductive invariant.
LEMMA StutterIInv == ASSUME IInv, UNCHANGED vars PROVE IInv'
<1>1. TypeOK' /\ RequestsInv' /\ CountInv' /\ LockInv' /\ CartInv' /\ NoLostUpdate'
  BY DEF IInv, vars, TypeOK, RequestsInv, Sound, Running, CountInv, LockInv, CartInv,
         NoLostUpdate
<1>2. VersionInv' /\ ClaimInv' /\ AnswerInv'
  BY DEF IInv, vars, VersionInv, ClaimInv, Claimant, AnswerInv, Answered, Settled, Orders
<1>. QED
  BY <1>1, <1>2 DEF IInv

\* Every step keeps the inductive invariant.
THEOREM NextIInv == IInv /\ [Next]_vars => IInv'
BY StartIInv, StepIInv, RefusedIInv, ExpiresIInv, StutterIInv DEF Next

\* The inductive invariant holds in every reachable state.
THEOREM CheckoutInvariant == Spec => []IInv
BY InitIInv, NextIInv, PTL DEF Spec

(* The state has the shape the code's types give it, and the number of     *)
(* writes stays below the bound on versions.                               *)
THEOREM TypeCorrect == Spec => []TypeOK
<1>1. IInv => TypeOK
  BY DEF IInv
<1>. QED
  BY <1>1, CheckoutInvariant, PTL

(* Whatever withCartLock is about to write was computed from the cart as   *)
(* it is: no device's change is lost.                                      *)
THEOREM NothingLost == Spec => []NoLostUpdate
<1>1. IInv => NoLostUpdate
  BY DEF IInv
<1>. QED
  BY <1>1, CheckoutInvariant, PTL

(* An order that createOrderByCustomer reports as placed has been taken    *)
(* off the cart, also when another request placed it; the only exception   *)
(* is one that died between claimDeduction and the write.                  *)
THEOREM SuccessIsSettled == Spec => []SuccessMeansSettled
<1>1. IInv => SuccessMeansSettled
  BY DEF IInv, AnswerInv, Answered, Settled, SuccessMeansSettled
<1>. QED
  BY <1>1, CheckoutInvariant, PTL

-----------------------------------------------------------------------------
(* Refinement: the write of an order takes it off the cart, createOrder    *)
(* places it, every other write and the expiry are edits, and nothing else *)
(* can be seen from outside.                                               *)
LEMMA WriteCartRefines ==
  ASSUME IInv, NEW r \in Requests, WriteCart(r)
  PROVE  Intake!Next \/ UNCHANGED Intake!intakeVars
<1> DEFINE v == req[r].version
<1>0. /\ Wrote(r) /\ TypeOK /\ IInv' /\ lines' \in Cart
      /\ settlements \in [Versions -> Nat] /\ req[r].op \in Operations
  BY WriteCartWrote, WriteCartIInv DEF IInv, TypeOK, RequestState
<1>1. CASE req[r].op = "order" /\ alive
  <2>1. /\ Orders(r) /\ v \in Versions /\ orders[v] = req[r].ordered /\ orders[v] # Null
        /\ settlements[v] = 0
    <3>1. Orders(r) /\ req[r].pc = "write"
      BY <1>1 DEF WriteCart, Orders, OrderPhases
    <3>. QED
      BY <1>1, <3>1, OrderFacts DEF IInv, ClaimInv
  <2>2. req[r].cart = lines
    BY <1>1 DEF IInv, NoLostUpdate, WriteCart
  <2>3. NewCarts(r) = {Intake!LinesLeft(lines, orders[v])}
    BY <1>1, <2>1, <2>2 DEF NewCarts
  <2>4. lines' = Intake!LinesLeft(lines, orders[v])
    BY <1>0, <1>1, <2>3 DEF Wrote, Deletes
  <2>5. settlements' = [settlements EXCEPT ![v] = 1] /\ UNCHANGED orders
    BY <1>0, <1>1, <2>1 DEF Wrote
  <2>6. Intake!Settle(v)
    BY <2>1, <2>4, <2>5 DEF Intake!Settle
  <2>. QED
    BY <2>1, <2>6 DEF Intake!Next, Versions
<1>2. CASE ~(req[r].op = "order" /\ alive)
  <2>1. lines' \in Intake!Cart /\ UNCHANGED <<orders, settlements>>
    BY <1>0, <1>2 DEF Wrote, Cart
  <2>. QED
    BY <2>1 DEF Intake!Next, Intake!Edit
<1>. QED
  BY <1>1, <1>2

\* createOrder is the placement of OrderIntake, or no step of it.
LEMMA CreateOrderRefines ==
  ASSUME IInv, NEW r \in Requests, CreateOrder(r)
  PROVE  Intake!Next \/ UNCHANGED Intake!intakeVars
<1> DEFINE v == req[r].version
<1>1. /\ Orders(r) /\ v \in Versions /\ req[r].ordered \in Cart \ {EmptyCart}
  <2>1. Orders(r)
    BY DEF IInv, RequestsInv, Sound, CreateOrder, Orders, OrderPhases
  <2>. QED
    BY <2>1, OrderFacts
<1>2. CASE orders[v] # Null
  BY <1>2 DEF CreateOrder, Intake!intakeVars
<1>3. CASE orders[v] = Null
  <2>1. orders' = [orders EXCEPT ![v] = req[r].ordered] /\ UNCHANGED <<lines, settlements>>
    BY <1>3 DEF CreateOrder
  <2>2. orders'[v] = req[r].ordered
    BY <1>1, <2>1 DEF IInv, TypeOK
  <2>3. Intake!Place(v)
    BY <1>1, <1>3, <2>1, <2>2 DEF Intake!Place, Cart, EmptyCart
  <2>. QED
    BY <1>1, <2>3 DEF Intake!Next, Versions
<1>. QED
  BY <1>2, <1>3

\* Every step is a step of OrderIntake or leaves its state alone.
LEMMA NextRefines ==
  ASSUME IInv, [Next]_vars
  PROVE  Intake!Next \/ UNCHANGED Intake!intakeVars
<1>1. CASE \E r \in Requests : Start(r)
  BY <1>1 DEF Start, StartAdd, StartUpdate, StartRemove, StartClear, StartOrder,
              Intake!intakeVars
<1>2. CASE \E r \in Requests : Crash(r)
  BY <1>2 DEF Crash, Intake!intakeVars
<1>3. ASSUME NEW r \in Requests, Step(r)
      PROVE  Intake!Next \/ UNCHANGED Intake!intakeVars
  <2>1. CASE CreateOrder(r)
    BY <2>1, CreateOrderRefines
  <2>2. CASE WriteCart(r)
    BY <2>2, WriteCartRefines
  <2>3. CASE PreRead(r) \/ FetchCart(r) \/ LookUp(r) \/ Refuse(r) \/ Acquire(r)
             \/ LockFails(r)
    BY <2>3 DEF PreRead, FetchCart, LookUp, Refuse, Acquire, LockFails, Intake!intakeVars
  <2>4. CASE Claim(r) \/ ReadCart(r) \/ RefuseOptions(r) \/ Release(r)
    BY <2>4 DEF Claim, ReadCart, RefuseOptions, Release, Intake!intakeVars
  <2>. QED
    BY <1>3, <2>1, <2>2, <2>3, <2>4 DEF Step
<1>4. CASE LockExpires
  BY <1>4 DEF LockExpires, Intake!intakeVars
<1>5. CASE SessionExpires
  BY <1>5, EmptyCartIsCart DEF SessionExpires, Intake!Next, Intake!Edit, Cart
<1>6. CASE UNCHANGED vars
  BY <1>6 DEF vars, Intake!intakeVars
<1>. QED
  BY <1>1, <1>2, <1>3, <1>4, <1>5, <1>6 DEF Next

(* The checkout of a table, with its locks, retries, duplicates and        *)
(* crashes, implements OrderIntake: a version of the cart becomes at most  *)
(* one order, which leaves the cart at most once.                          *)
THEOREM ImplementsIntake == Spec => RefinesIntake
<1>1. Init => Intake!Init
  <2> SUFFICES ASSUME Init PROVE Intake!Init
    OBVIOUS
  <2>1. lines \in Intake!Cart
    BY InitIInv DEF IInv, TypeOK, Cart
  <2>. QED
    BY <2>1 DEF Init, Intake!Init, Versions
<1>2. IInv /\ [Next]_vars => [Intake!Next]_(Intake!intakeVars)
  BY NextRefines
<1>. QED
  BY <1>1, <1>2, CheckoutInvariant, PTL DEF Spec, RefinesIntake, Intake!Spec
=============================================================================

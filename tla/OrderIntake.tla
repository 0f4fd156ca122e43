---------------------------- MODULE OrderIntake ----------------------------
(***************************************************************************)
(* What the checkout of a table promises, without locks, retries, requests *)
(* or crashes.  The devices at a table share one cart.  Whatever the cart  *)
(* holds at one version becomes at most one order, and the quantities of   *)
(* that order leave the cart at most once, only after the order exists,    *)
(* and from the cart as it is at that moment.                              *)
(***************************************************************************)
EXTENDS Integers

CONSTANTS
  Lines,        \* ids of cart lines
  Fingerprints, \* a menu with a choice of options
  MaxVersion,   \* bound: the number of writes of the cart
  Null          \* no value

VARIABLES
  lines,        \* [Lines -> what the line holds]: the cart
  orders,       \* [Versions -> the lines ordered at that version, or Null]
  settlements   \* [Versions -> how often the order has been taken off the cart]

intakeVars == <<lines, orders, settlements>>

-----------------------------------------------------------------------------
Versions == 1..MaxVersion
NoLine == [fingerprint |-> Null, quantity |-> 0]
Line == {NoLine} \cup [fingerprint : Fingerprints, quantity : Nat \ {0}]
Cart == [Lines -> Line]
EmptyCart == [l \in Lines |-> NoLine]

(* The lines left when the quantities ordered are taken off, line by line.   *)
LinesLeft(cart, ordered) ==
  [l \in Lines |->
     IF ordered[l].quantity = 0 THEN cart[l]
     ELSE IF cart[l].quantity > ordered[l].quantity
       THEN [cart[l] EXCEPT !.quantity = @ - ordered[l].quantity]
     ELSE NoLine]

-----------------------------------------------------------------------------
Init ==
  /\ lines \in Cart
  /\ orders = [v \in Versions |-> Null]
  /\ settlements = [v \in Versions |-> 0]

(* A device changes the cart, or the cart expires.  *)
Edit ==
  /\ lines' \in Cart
  /\ UNCHANGED <<orders, settlements>>

Place(v) ==
  /\ orders[v] = Null
  /\ orders'[v] \in Cart \ {EmptyCart}
  /\ orders' = [orders EXCEPT ![v] = orders'[v]]
  /\ UNCHANGED <<lines, settlements>>

Settle(v) ==
  /\ orders[v] # Null
  /\ settlements[v] = 0
  /\ lines' = LinesLeft(lines, orders[v])
  /\ settlements' = [settlements EXCEPT ![v] = 1]
  /\ UNCHANGED orders

Next == Edit \/ \E v \in Versions : Place(v) \/ Settle(v)

Spec == Init /\ [][Next]_intakeVars
=============================================================================

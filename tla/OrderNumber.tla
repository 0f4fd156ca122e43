---------------------------- MODULE OrderNumber ----------------------------
(***************************************************************************)
(* How concurrent orders of one store and business date get their number   *)
(* (order-number.ts and createOrderCore in orders.service.ts): a           *)
(* transaction takes the highest number it sees plus one, the unique key   *)
(* (store, business date, order_seq) refuses it to all but one, and the    *)
(* losers try again, up to ORDER_SEQ_MAX_RETRY times.  A second unique     *)
(* key, idempotency_key, turns a repeated order into the first one.        *)
(***************************************************************************)
EXTENDS Integers, FiniteSets

CONSTANTS
  Requests,   \* requests that place an order
  Keys,       \* idempotency keys of customers' orders
  MaxRetry,   \* ORDER_SEQ_MAX_RETRY
  Null        \* an order by the owner has no key

ASSUME RetryAssumption == MaxRetry \in Nat
ASSUME KeysAssumption == Null \notin Keys

VARIABLES
  orders,     \* the rows of the order table: [seq, key]
  req         \* [Requests -> state of the request]

vars == <<orders, req>>

-----------------------------------------------------------------------------
Order == [seq : Nat \ {0}, key : Keys \cup {Null}]
Phases == {"idle", "lookUp", "number", "insert", "findExisting",
           "created", "deduplicated", "conflict", "failed"}
RequestState == [pc : Phases, key : Keys \cup {Null},
                 attempt : 0..MaxRetry,
                 seq : Nat,      \* the number taken
                 before : Nat]   \* history: how many orders there were at its start

Idle == [pc |-> "idle", key |-> Null, attempt |-> 0, seq |-> 0, before |-> 0]

SeqTaken(n) == \E o \in orders : o.seq = n
KeyTaken(k) == k # Null /\ \E o \in orders : o.key = k

-----------------------------------------------------------------------------
(* Mutated forms of the definitions below.                                   *)
OnlyKeyRefuses(r) == IF KeyTaken(req[r].key) THEN {"key"} ELSE {}
OnlySeqRefuses(r) == IF SeqTaken(req[r].seq) THEN {"seq"} ELSE {}
RetryNever(r) == FALSE

(* nextOrderSeq: the highest number in the snapshot, plus one.               *)
LastSeq == CHOOSE n \in {o.seq : o \in orders} : \A o \in orders : o.seq <= n
NextSeq == IF orders = {} THEN 1 ELSE LastSeq + 1

(* The unique keys that refuse the row.  When both do, MySQL reports one.    *)
Refusals(r) == (IF SeqTaken(req[r].seq) THEN {"seq"} ELSE {})
                 \cup (IF KeyTaken(req[r].key) THEN {"key"} ELSE {})

MayRetry(r) == req[r].attempt < MaxRetry

Init ==
  /\ orders = {}
  /\ req = [r \in Requests |-> Idle]

Goto(r, pc) == req' = [req EXCEPT ![r].pc = pc]

(* An answered request keeps what it was about and nothing else.             *)
Answer(r, pc) ==
  req' = [req EXCEPT ![r] = [Idle EXCEPT !.pc = pc, !.key = req[r].key,
                                         !.before = req[r].before]]

(* createOrderByOwner has no key and looks nothing up.                       *)
Start(r) ==
  /\ req[r].pc = "idle"
  /\ \E k \in Keys \cup {Null} :
       req' = [req EXCEPT ![r] = [Idle EXCEPT !.pc = IF k = Null THEN "number" ELSE "lookUp",
                                              !.key = k, !.before = Cardinality(orders)]]
  /\ UNCHANGED orders

LookUp(r) ==
  /\ req[r].pc = "lookUp"
  /\ IF KeyTaken(req[r].key) THEN Answer(r, "deduplicated") ELSE Goto(r, "number")
  /\ UNCHANGED orders

(* The transaction is refused for another reason, or rolled back.            *)
Fail(r) ==
  /\ req[r].pc \in {"number", "insert"}
  /\ Answer(r, "failed")
  /\ UNCHANGED orders

(* The snapshot of the transaction is that of its first read, the session;   *)
(* this step stands for all the transaction reads.                           *)
TakeNumber(r) ==
  /\ req[r].pc = "number"
  /\ req' = [req EXCEPT ![r].pc = "insert", ![r].seq = NextSeq]
  /\ UNCHANGED orders

Insert(r) ==
  /\ req[r].pc = "insert" /\ Refusals(r) = {}
  /\ orders' = orders \cup {[seq |-> req[r].seq, key |-> req[r].key]}
  /\ Answer(r, "created")

(* isOrderSeqConflict: a new transaction with a new number, or               *)
(* ORDER_NUMBER_CONFLICT.                                                    *)
SeqRefused(r) ==
  /\ req[r].pc = "insert" /\ "seq" \in Refusals(r)
  /\ IF MayRetry(r)
       THEN req' = [req EXCEPT ![r].pc = "number", ![r].attempt = @ + 1]
       ELSE Answer(r, "conflict")
  /\ UNCHANGED orders

(* isIdempotencyKeyConflict: the order with that key is read ...             *)
KeyRefused(r) ==
  /\ req[r].pc = "insert" /\ "key" \in Refusals(r)
  /\ Goto(r, "findExisting")
  /\ UNCHANGED orders

(* ... and answered; were it not there, the error would go to the customer.  *)
FindExisting(r) ==
  /\ req[r].pc = "findExisting"
  /\ Answer(r, IF KeyTaken(req[r].key) THEN "deduplicated" ELSE "failed")
  /\ UNCHANGED orders

Step(r) ==
  \/ LookUp(r) \/ Fail(r) \/ TakeNumber(r) \/ Insert(r)
  \/ SeqRefused(r) \/ KeyRefused(r) \/ FindExisting(r)

Next == \E r \in Requests : Start(r) \/ Step(r)

Spec == Init /\ [][Next]_vars

-----------------------------------------------------------------------------
TypeOK ==
  /\ orders \subseteq Order
  /\ req \in [Requests -> RequestState]

(* The day's numbers are 1, 2, 3, ... without a gap or a repetition, however *)
(* many orders compete for the same one and however many of them fail.       *)
NumbersAreConsecutive ==
  /\ {o.seq : o \in orders} = 1..Cardinality(orders)
  /\ \A o, p \in orders : o.seq = p.seq => o = p

(* A repeated order is one order: all the requests with one key that are     *)
(* told an order exists are told of the same one.                            *)
OneOrderPerKey ==
  /\ \A o, p \in orders : o.key = p.key /\ o.key # Null => o = p
  /\ \A r \in Requests : req[r].pc \in {"created", "deduplicated"} /\ req[r].key # Null
       => \E o \in orders : o.key = req[r].key

(* ORDER_NUMBER_CONFLICT is only answered to a request that lost its number  *)
(* to another order MaxRetry + 1 times.                                      *)
ConflictAfterLosingAll ==
  \A r \in Requests : req[r].pc = "conflict" =>
    Cardinality(orders) - req[r].before > MaxRetry
=============================================================================

---------------------------- MODULE SignInProofs ----------------------------
(***************************************************************************)
(* Theorems of SignIn, for any number of devices and requests and every    *)
(* limit and lifetime: types, why a session is lost, why the cookie of a   *)
(* device stops working, and how many sessions there can be.               *)
(***************************************************************************)
EXTENDS SignIn, FiniteSetTheorems, WellFoundedInduction, TLAPS

\* What pruneTokens deletes has been crowded out, even if it was read before
\* other rows came and went.
CrowdInv ==
    /\ IsFiniteSet(rows)
    /\ Crowded(rows, id) \subseteq crowded
    /\ \A r \in Requests : reqs[r].old \subseteq crowded

\* A token is in the cookies of one device and is presented by it alone, and
\* no one has it before its request is done.
OwnInv ==
    /\ \A d, e \in Devices : cookie[d] = cookie[e] => d = e \/ cookie[d] = None
    /\ \A d \in Devices, r \in Requests :
          reqs[r].given = cookie[d] => reqs[r].device = d \/ cookie[d] = None
    /\ \A r \in Requests : reqs[r].pc # "done" =>
          /\ \A d \in Devices : cookie[d] # r
          /\ \A s \in Requests : reqs[s].given # r

\* What is registered and not answered yet is still there; a request that
\* has not arrived has presented nothing.
FreshInv ==
    \A r \in Requests :
        /\ reqs[r].pc \in {"prune", "overflow", "trim", "lastSignIn", "answer"} =>
              r \in rows \/ Expired(r) \/ r \in crowded
        /\ reqs[r].pc = "ready" => reqs[r].given = None

IInv == TypeOK /\ CrowdInv /\ OwnInv /\ FreshInv /\ CookieWorks

-----------------------------------------------------------------------------
(* Deleting rows crowds no row out.                                        *)
LEMMA CrowdedShrinks ==
  ASSUME NEW R, NEW S, IsFiniteSet(R), S \subseteq R, NEW i
  PROVE  Crowded(S, i) \subseteq Crowded(R, i)
<1> SUFFICES ASSUME NEW t \in Crowded(S, i) PROVE t \in Crowded(R, i)
  OBVIOUS
<1> DEFINE A == {u \in S : i[u] > i[t]}
           B == {u \in R : i[u] > i[t]}
<1>1. A \subseteq B /\ IsFiniteSet(B)
  BY FS_Subset
<1>2. IsFiniteSet(A) /\ Cardinality(A) <= Cardinality(B)
  BY <1>1, FS_Subset
<1>3. Cardinality(A) \in Nat /\ Cardinality(B) \in Nat
  BY <1>1, <1>2, FS_CardinalityType
<1>4. Cardinality(A) >= MaxActive
  BY DEF Crowded
<1>5. Cardinality(B) >= MaxActive
  BY <1>2, <1>3, <1>4, SignInAssumption
<1>. QED
  BY <1>5 DEF Crowded

(* What Goes leaves of the requests.                                       *)
LEMMA GoesFacts ==
  ASSUME TypeOK, NEW r \in Requests, NEW pc \in States, Goes(r, pc)
  PROVE  /\ reqs' \in [Requests -> [pc : States, device : Devices,
                                    given : Tokens \cup {None},
                                    old : SUBSET Tokens]]
         /\ reqs'[r].pc = pc /\ reqs'[r].device = reqs[r].device
         /\ reqs'[r].given = reqs[r].given /\ reqs'[r].old = {}
         /\ \A s \in Requests : s # r => reqs'[s] = reqs[s]
BY DEF TypeOK, Goes

(* A step of the requests that leaves rows, cookies and expiries alone.    *)
LEMMA Stays ==
  ASSUME IInv, NEW r \in Requests, NEW pc \in States, Goes(r, pc),
         UNCHANGED <<now, db, expires, cookie>>, trimmed' \subseteq Requests,
         reqs[r].pc # "done", pc \notin {"done", "consume", "ready"},
         pc \in {"prune", "overflow", "trim", "lastSignIn", "answer"} =>
             reqs[r].pc \in {"prune", "overflow", "trim", "lastSignIn", "answer"},
         pc = "refused" => reqs[r].pc = "consume"
  PROVE  IInv'
<1>1. TypeOK'
  BY GoesFacts DEF IInv, TypeOK, db
<1>2. CrowdInv'
  BY GoesFacts DEF IInv, CrowdInv, Crowded, db
<1>3. OwnInv'
  BY GoesFacts DEF IInv, OwnInv, db
<1>4. FreshInv'
  BY GoesFacts DEF IInv, FreshInv, Expired, db
<1>5. CookieWorks'
  <2> SUFFICES ASSUME NEW d \in Devices, cookie[d] # None,
                      cookie[d] \notin rows, ~Expired(cookie[d]),
                      cookie[d] \notin crowded
               PROVE  \E s \in Requests :
                         /\ reqs'[s].device = d /\ reqs'[s].given = cookie[d]
                         /\ reqs'[s].pc \notin {"done", "refused", "consume"}
    BY DEF CookieWorks, Expired, db
  <2>1. PICK s \in Requests :
           /\ reqs[s].device = d /\ reqs[s].given = cookie[d]
           /\ reqs[s].pc \notin {"done", "refused", "consume"}
    BY DEF IInv, CookieWorks
  <2>2. pc # "consume" \/ s # r
    OBVIOUS
  <2>. QED
    BY <2>1, <2>2, GoesFacts DEF IInv
<1>. QED
  BY <1>1, <1>2, <1>3, <1>4, <1>5 DEF IInv

-----------------------------------------------------------------------------
\* The inductive invariant holds at the start.
THEOREM InitIInv == Init => IInv
<1> SUFFICES ASSUME Init PROVE IInv
  OBVIOUS
<1>1. PICK s \in Stocks : /\ rows = s.rows /\ id = s.id /\ last = s.last
                          /\ expires = s.expires /\ cookie = s.cookie
  BY DEF Init
<1>2. PICK owner \in [Requests -> Devices] :
         reqs = [r \in Requests |-> Ready(owner[r])]
  BY DEF Init
<1>3. /\ s.rows \subseteq Seeds /\ IsFiniteSet(s.rows)
      /\ Cardinality(s.rows) <= MaxActive
      /\ s.last \in Nat /\ s.id \in [Tokens -> Nat]
      /\ s.expires \in [Tokens -> Nat]
      /\ s.cookie \in [Devices -> s.rows \cup {None}]
      /\ \A d, e \in Devices :
            s.cookie[d] = s.cookie[e] => d = e \/ s.cookie[d] = None
      /\ None \notin Tokens /\ Requests \cap Seeds = {}
      /\ MaxActive \in Nat \ {0}
  BY SignInAssumption
<1>4. now = 0 /\ crowded = {} /\ trimmed = {}
  BY DEF Init
<1>5. \A r \in Requests : /\ reqs[r].pc = "ready" /\ reqs[r].given = None
                          /\ reqs[r].old = {} /\ reqs[r].device \in Devices
  BY <1>2 DEF Ready
<1>6. TypeOK
  BY <1>1, <1>2, <1>3, <1>4 DEF TypeOK, Ready, States, Tokens
<1>7. CrowdInv
  <2>1. ASSUME NEW t \in rows
        PROVE  ~ (Cardinality({u \in rows : id[u] > id[t]}) >= MaxActive)
    <3> DEFINE A == {u \in rows : id[u] > id[t]}
    <3>1. A \subseteq rows \ {t} /\ IsFiniteSet(rows)
      BY <1>1, <1>3, <1>6 DEF TypeOK, Tokens
    <3>2. IsFiniteSet(rows \ {t})
          /\ Cardinality(rows \ {t}) = Cardinality(rows) - 1
      BY <3>1, FS_RemoveElement
    <3>3. Cardinality(A) <= Cardinality(rows \ {t}) /\ IsFiniteSet(A)
      BY <3>1, <3>2, FS_Subset
    <3>4. Cardinality(A) \in Nat /\ Cardinality(rows) \in Nat
      BY <3>1, <3>3, FS_CardinalityType
    <3>5. Cardinality(rows) <= MaxActive
      BY <1>1, <1>3
    <3>6. Cardinality(A) < MaxActive
      BY <3>2, <3>3, <3>4, <3>5, <1>3
    <3>. QED
      BY <3>4, <3>6, <1>3
  <2>. QED
    BY <2>1, <1>1, <1>3, <1>5 DEF CrowdInv, Crowded
<1>8. OwnInv
  BY <1>1, <1>3, <1>5 DEF OwnInv, Tokens
<1>9. FreshInv /\ CookieWorks
  BY <1>1, <1>3, <1>5 DEF FreshInv, CookieWorks
<1>. QED
  BY <1>6, <1>7, <1>8, <1>9 DEF IInv

-----------------------------------------------------------------------------
(* The steps that change rows, cookies, expiries or the clock.             *)
LEMMA TickKeeps == IInv /\ Tick => IInv'
<1> SUFFICES ASSUME IInv, Tick PROVE IInv'
  OBVIOUS
<1>1. \A t \in Tokens : Expired(t) => Expired(t)'
  BY DEF IInv, TypeOK, Tick, Expired
<1>2. TypeOK' /\ CrowdInv' /\ OwnInv'
  BY DEF IInv, TypeOK, CrowdInv, Crowded, OwnInv, Tick, db
<1>3. FreshInv'
  BY <1>1 DEF IInv, FreshInv, Tick, db, Tokens
<1>4. CookieWorks'
  BY <1>1 DEF IInv, TypeOK, CookieWorks, Tick, db
<1>. QED
  BY <1>2, <1>3, <1>4 DEF IInv

\* Starting a sign-in keeps the inductive invariant.
LEMMA SignInKeeps ==
  ASSUME IInv, NEW r \in Requests, SignInWithPassword(r)
  PROVE  IInv'
<1>1. /\ expires' \in [Tokens -> Nat]
      /\ \A t \in Tokens : t # r => expires'[t] = expires[t]
  BY SignInAssumption DEF IInv, TypeOK, SignInWithPassword, GenerateToken, Tokens
<1>2. Goes(r, "register") /\ reqs[r].pc = "ready" /\ "register" \in States
  BY DEF SignInWithPassword, States
<1>3. UNCHANGED <<now, rows, id, last, crowded, cookie, trimmed>>
  BY DEF SignInWithPassword, db
<1>4. TypeOK' /\ CrowdInv' /\ OwnInv'
  BY <1>1, <1>2, <1>3, GoesFacts, SMTT(60) DEF IInv, TypeOK, CrowdInv, Crowded, OwnInv
<1>5. FreshInv'
  BY <1>1, <1>2, <1>3, GoesFacts DEF IInv, FreshInv, Expired, Tokens
<1>6. \A d \in Devices : cookie[d] # None => Expired(cookie[d])' = Expired(cookie[d])
  BY <1>1, <1>2, <1>3 DEF IInv, TypeOK, OwnInv, Expired
<1>7. CookieWorks'
  BY <1>2, <1>3, <1>6, GoesFacts DEF IInv, CookieWorks, TypeOK
<1>. QED
  BY <1>4, <1>5, <1>7 DEF IInv

\* Sending a token to be exchanged keeps the inductive invariant.
LEMMA SendKeeps ==
  ASSUME IInv, NEW r \in Requests, SendRefresh(r)
  PROVE  IInv'
<1> DEFINE t == cookie[reqs[r].device]
<1>1. t # None /\ t \in Tokens /\ reqs[r].device \in Devices
  BY DEF SendRefresh, Presented, IInv, TypeOK
<1>2. /\ reqs[r].pc = "ready"
      /\ reqs' \in [Requests -> [pc : States, device : Devices,
                                 given : Tokens \cup {None},
                                 old : SUBSET Tokens]]
      /\ reqs'[r].pc = "consume" /\ reqs'[r].device = reqs[r].device
      /\ reqs'[r].given = t /\ reqs'[r].old = {}
      /\ \A s \in Requests : s # r => reqs'[s] = reqs[s]
  BY <1>1 DEF SendRefresh, Presented, IInv, TypeOK, States
<1>3. UNCHANGED <<now, rows, id, last, crowded, expires, cookie, trimmed>>
  BY DEF SendRefresh, db
<1> HIDE DEF t
<1>4. TypeOK' /\ CrowdInv' /\ FreshInv'
  BY <1>2, <1>3 DEF IInv, TypeOK, CrowdInv, Crowded, FreshInv, Expired
<1>5. OwnInv'
  BY <1>1, <1>2, <1>3 DEF IInv, OwnInv, t
<1>6. CookieWorks'
  <2> SUFFICES ASSUME NEW d \in Devices, cookie[d] # None,
                      cookie[d] \notin rows, ~Expired(cookie[d]),
                      cookie[d] \notin crowded
               PROVE  \E s \in Requests :
                         /\ reqs'[s].device = d /\ reqs'[s].given = cookie[d]
                         /\ reqs'[s].pc \notin {"done", "refused", "consume"}
    BY <1>3 DEF CookieWorks, Expired
  <2>1. PICK s \in Requests :
           /\ reqs[s].device = d /\ reqs[s].given = cookie[d]
           /\ reqs[s].pc \notin {"done", "refused", "consume"}
    BY DEF IInv, CookieWorks
  <2>2. CASE s # r
    BY <2>1, <2>2, <1>2
  <2>3. CASE s = r
    \* A ready request has presented nothing.
    BY <2>1, <2>3, <1>2, <1>1 DEF IInv, FreshInv
  <2>. QED
    BY <2>2, <2>3
<1>. QED
  BY <1>4, <1>5, <1>6 DEF IInv

\* Consuming the token keeps the inductive invariant.
LEMMA ConsumeKeeps ==
  ASSUME IInv, NEW r \in Requests, Consume(r)
  PROVE  IInv'
<1> DEFINE t == reqs[r].given
<1>1. /\ reqs[r].pc = "consume" /\ t \in rows /\ rows' = rows \ {t}
      /\ Goes(r, "register") /\ "register" \in States
      /\ UNCHANGED <<now, id, last, crowded, cookie, trimmed>>
  BY DEF Consume, States
<1>2. /\ expires' \in [Tokens -> Nat]
      /\ \A u \in Tokens : u # r => expires'[u] = expires[u]
  BY SignInAssumption DEF IInv, TypeOK, Consume, GenerateToken, Tokens
<1>3. t \in Tokens /\ None \notin Tokens
  BY <1>1, SignInAssumption DEF IInv, TypeOK
<1> HIDE DEF t
<1>4. TypeOK'
  BY <1>1, <1>2, GoesFacts DEF IInv, TypeOK
<1>5. CrowdInv'
  <2>1. IsFiniteSet(rows') /\ Crowded(rows', id) \subseteq Crowded(rows, id)
    BY <1>1, CrowdedShrinks, FS_Subset DEF IInv, CrowdInv
  <2>2. Crowded(rows, id)' = Crowded(rows', id)
    BY <1>1 DEF Crowded
  <2>. QED
    BY <1>1, <2>1, <2>2, GoesFacts DEF IInv, CrowdInv
<1>6. OwnInv'
  BY <1>1, GoesFacts DEF IInv, OwnInv
<1>7. FreshInv'
  <2>4. \A s \in Requests : reqs'[s].pc = "ready" => reqs'[s].given = None
    BY <1>1, GoesFacts DEF IInv, FreshInv
  <2> SUFFICES ASSUME NEW s \in Requests,
                      reqs'[s].pc \in {"prune", "overflow", "trim",
                                      "lastSignIn", "answer"}
               PROVE  s \in rows' \/ Expired(s)' \/ s \in crowded
    BY <1>1, <2>4 DEF FreshInv
  <2>1. s # r /\ reqs'[s] = reqs[s]
    BY <1>1, GoesFacts DEF IInv
  <2>2. s # t
    BY <2>1 DEF IInv, OwnInv, t
  <2>3. Expired(s)' = Expired(s)
    BY <1>1, <1>2, <2>1 DEF Expired, Tokens
  <2>. QED
    BY <1>1, <2>1, <2>2, <2>3 DEF IInv, FreshInv
<1>8. CookieWorks'
  <2> SUFFICES ASSUME NEW d \in Devices, cookie[d] # None,
                      cookie[d] \notin rows', ~Expired(cookie[d])',
                      cookie[d] \notin crowded
               PROVE  \E s \in Requests :
                         /\ reqs'[s].device = d /\ reqs'[s].given = cookie[d]
                         /\ reqs'[s].pc \notin {"done", "refused", "consume"}
    BY <1>1 DEF CookieWorks, Expired
  <2>1. CASE cookie[d] = t
    <3>1. reqs[r].device = d
      BY <2>1, <1>3 DEF IInv, OwnInv, t
    <3>. QED
      BY <2>1, <3>1, <1>1, GoesFacts DEF IInv, t
  <2>2. CASE cookie[d] # t
    <3>1. cookie[d] \in Tokens /\ cookie[d] # r
      BY <1>1 DEF IInv, TypeOK, OwnInv
    <3>2. ~Expired(cookie[d]) /\ cookie[d] \notin rows
      BY <1>1, <1>2, <3>1, <2>2 DEF Expired
    <3>3. PICK s \in Requests :
             /\ reqs[s].device = d /\ reqs[s].given = cookie[d]
             /\ reqs[s].pc \notin {"done", "refused", "consume"}
      BY <3>2 DEF IInv, CookieWorks
    <3>4. s # r
      BY <3>3, <1>1
    <3>. QED
      BY <3>3, <3>4, <1>1, GoesFacts DEF IInv
  <2>. QED
    BY <2>1, <2>2
<1>. QED
  BY <1>4, <1>5, <1>6, <1>7, <1>8 DEF IInv

\* Registering the next session keeps the inductive invariant.
LEMMA RegisterKeeps ==
  ASSUME IInv, NEW r \in Requests, Register(r)
  PROVE  IInv'
<1>1. /\ reqs[r].pc = "register" /\ rows' = rows \cup {r}
      /\ last' = last + 1 /\ id' = [id EXCEPT ![r] = last + 1]
      /\ crowded' = crowded \cup Crowded(rows', id')
      /\ Goes(r, "prune") /\ "prune" \in States
      /\ UNCHANGED <<now, expires, cookie, trimmed>>
  BY DEF Register, States
<1>2. Crowded(rows, id)' = Crowded(rows', id')
  BY DEF Crowded
<1>3. Crowded(rows', id') \subseteq rows' /\ rows' \subseteq Tokens
  BY <1>1 DEF Crowded, IInv, TypeOK, Tokens
<1>4. TypeOK'
  <2>1. last' \in Nat /\ id' \in [Tokens -> Nat]
    BY <1>1 DEF IInv, TypeOK, Tokens
  <2>2. crowded' \subseteq Tokens
    BY <1>1, <1>3 DEF IInv, TypeOK
  <2>. QED
    BY <1>1, <1>3, <2>1, <2>2, GoesFacts DEF IInv, TypeOK
<1>5. CrowdInv'
  <2>1. IsFiniteSet(rows')
    BY <1>1, FS_AddElement DEF IInv, CrowdInv
  <2>. QED
    BY <1>1, <1>2, <2>1, GoesFacts DEF IInv, CrowdInv
<1>6. OwnInv'
  BY <1>1, GoesFacts DEF IInv, OwnInv
<1>7. FreshInv'
  BY <1>1, GoesFacts DEF IInv, FreshInv, Expired
<1>8. CookieWorks'
  BY <1>1, GoesFacts DEF IInv, CookieWorks, Expired
<1>. QED
  BY <1>4, <1>5, <1>6, <1>7, <1>8 DEF IInv

\* Rows are deleted that have expired or been crowded out.
LEMMA PruneKeeps ==
  ASSUME IInv, NEW r \in Requests, NEW pc \in {"overflow", "lastSignIn"},
         reqs[r].pc \in {"prune", "trim"}, Goes(r, pc), rows' \subseteq rows,
         \A t \in rows \ rows' : Expired(t) \/ t \in crowded,
         trimmed' \subseteq Requests,
         UNCHANGED <<now, id, last, crowded, expires, cookie>>
  PROVE  IInv'
<1>1. pc \in States
  BY DEF States
<1>2. TypeOK' /\ OwnInv'
  <2>1. TypeOK'
    BY <1>1, GoesFacts DEF IInv, TypeOK
  <2>2. pc # "done" /\ reqs[r].pc # "done"
    OBVIOUS
  <2>3. OwnInv'
    BY <1>1, <2>2, GoesFacts DEF IInv, OwnInv
  <2>. QED
    BY <2>1, <2>3
<1>3. CrowdInv'
  <2>1. IsFiniteSet(rows') /\ Crowded(rows', id) \subseteq Crowded(rows, id)
    BY CrowdedShrinks, FS_Subset DEF IInv, CrowdInv
  <2>2. Crowded(rows, id)' = Crowded(rows', id)
    BY DEF Crowded
  <2>. QED
    BY <1>1, <2>1, <2>2, GoesFacts DEF IInv, CrowdInv
<1>4. \A t \in rows \ rows' : Expired(t)' \/ t \in crowded
  BY DEF Expired
<1>5. FreshInv'
  BY <1>1, <1>4, GoesFacts DEF IInv, FreshInv, Expired
<1>6. CookieWorks'
  BY <1>1, <1>4, GoesFacts DEF IInv, CookieWorks, Expired
<1>. QED
  BY <1>2, <1>3, <1>5, <1>6 DEF IInv

\* What is found in excess has been crowded out.
LEMMA FindKeeps ==
  ASSUME IInv, NEW r \in Requests, FindOverflow(r)
  PROVE  IInv'
<1>1. /\ reqs[r].pc = "overflow"
      /\ UNCHANGED <<now, rows, id, last, crowded, expires, cookie, trimmed>>
      /\ Overflow(rows, id) \subseteq rows
      /\ Overflow(rows, id) \subseteq crowded
  BY DEF FindOverflow, Overflow, Crowded, IInv, CrowdInv, db
<1>2. /\ reqs' \in [Requests -> [pc : States, device : Devices,
                                 given : Tokens \cup {None},
                                 old : SUBSET Tokens]]
      /\ reqs'[r].pc = "trim" /\ reqs'[r].device = reqs[r].device
      /\ reqs'[r].given = reqs[r].given
      /\ reqs'[r].old \subseteq crowded
      /\ \A s \in Requests : s # r => reqs'[s] = reqs[s]
  BY <1>1 DEF FindOverflow, IInv, TypeOK, States
<1>3. TypeOK' /\ CrowdInv' /\ OwnInv'
  BY <1>1, <1>2, SMTT(60) DEF IInv, TypeOK, CrowdInv, Crowded, OwnInv
<1>4. FreshInv' /\ CookieWorks'
  BY <1>1, <1>2 DEF IInv, FreshInv, CookieWorks, Expired
<1>. QED
  BY <1>3, <1>4 DEF IInv

\* The answer with a new cookie keeps the inductive invariant.
LEMMA SetCookieKeeps ==
  ASSUME IInv, NEW r \in Requests, SetCookie(r)
  PROVE  IInv'
<1>1. /\ reqs[r].pc = "answer" /\ Goes(r, "done") /\ "done" \in States
      /\ cookie' = [cookie EXCEPT ![reqs[r].device] = r]
      /\ UNCHANGED <<now, rows, id, last, crowded, expires, trimmed>>
  BY DEF SetCookie, States, db
<1>2. /\ reqs[r].device \in Devices /\ r \in Tokens /\ r # None
      /\ cookie' \in [Devices -> Tokens \cup {None}]
      /\ cookie'[reqs[r].device] = r
      /\ \A d \in Devices : d # reqs[r].device => cookie'[d] = cookie[d]
  BY <1>1, SignInAssumption DEF IInv, TypeOK, Tokens
<1>3. TypeOK' /\ CrowdInv' /\ FreshInv'
  BY <1>1, <1>2, GoesFacts
  DEF IInv, TypeOK, CrowdInv, Crowded, FreshInv, Expired
<1>4. OwnInv'
  <2>1. /\ \A d \in Devices : cookie[d] # r
        /\ \A s \in Requests : reqs[s].given # r
    BY <1>1 DEF IInv, OwnInv
  <2>2. \A s \in Requests : /\ reqs'[s].given = reqs[s].given
                            /\ reqs'[s].device = reqs[s].device
                            /\ s # r => reqs'[s].pc = reqs[s].pc
    BY <1>1, GoesFacts DEF IInv
  <2>3. \A d, e \in Devices :
           cookie'[d] = cookie'[e] => d = e \/ cookie'[d] = None
    BY <1>2, <2>1 DEF IInv, OwnInv
  <2>4. \A d \in Devices, s \in Requests :
           reqs'[s].given = cookie'[d] =>
               reqs'[s].device = d \/ cookie'[d] = None
    BY <1>2, <2>1, <2>2 DEF IInv, OwnInv
  <2>5. \A s \in Requests : reqs'[s].pc # "done" =>
           /\ \A d \in Devices : cookie'[d] # s
           /\ \A q \in Requests : reqs'[q].given # s
    BY <1>1, <1>2, <2>2, GoesFacts DEF IInv, OwnInv
  <2>. QED
    BY <2>3, <2>4, <2>5 DEF OwnInv
<1>5. CookieWorks'
  <2> SUFFICES ASSUME NEW d \in Devices, cookie'[d] # None,
                      cookie'[d] \notin rows, ~Expired(cookie'[d]),
                      cookie'[d] \notin crowded
               PROVE  \E s \in Requests :
                         /\ reqs'[s].device = d /\ reqs'[s].given = cookie'[d]
                         /\ reqs'[s].pc \notin {"done", "refused", "consume"}
    BY <1>1 DEF CookieWorks, Expired
  <2>1. d # reqs[r].device
    BY <1>1, <1>2 DEF IInv, FreshInv
  <2>2. PICK s \in Requests :
           /\ reqs[s].device = d /\ reqs[s].given = cookie[d]
           /\ reqs[s].pc \notin {"done", "refused", "consume"}
    BY <2>1, <1>2 DEF IInv, CookieWorks
  <2>. QED
    BY <2>1, <2>2, <1>1, <1>2, GoesFacts DEF IInv
<1>. QED
  BY <1>3, <1>4, <1>5 DEF IInv

\* The answer that clears the cookie keeps the inductive invariant.
LEMMA ClearCookieKeeps ==
  ASSUME IInv, NEW r \in Requests, ClearCookie(r)
  PROVE  IInv'
<1>1. /\ reqs[r].pc = "clear" /\ Goes(r, "done") /\ "done" \in States
      /\ cookie' = [cookie EXCEPT ![reqs[r].device] = None]
      /\ UNCHANGED <<now, rows, id, last, crowded, expires, trimmed>>
  BY DEF ClearCookie, States, db
<1>2. /\ cookie' \in [Devices -> Tokens \cup {None}]
      /\ \A d \in Devices : cookie'[d] = cookie[d] \/ cookie'[d] = None
      /\ cookie'[reqs[r].device] = None
  BY <1>1 DEF IInv, TypeOK
<1>3. TypeOK' /\ CrowdInv' /\ FreshInv'
  BY <1>1, <1>2, GoesFacts, SMTT(60)
  DEF IInv, TypeOK, CrowdInv, Crowded, FreshInv, Expired
<1>4. None \notin Requests
  BY SignInAssumption DEF Tokens
<1>5. OwnInv'
  BY <1>1, <1>2, <1>4, GoesFacts DEF IInv, OwnInv
<1>6. CookieWorks'
  <2> SUFFICES ASSUME NEW d \in Devices, cookie'[d] # None,
                      cookie'[d] \notin rows, ~Expired(cookie'[d]),
                      cookie'[d] \notin crowded
               PROVE  \E s \in Requests :
                         /\ reqs'[s].device = d /\ reqs'[s].given = cookie'[d]
                         /\ reqs'[s].pc \notin {"done", "refused", "consume"}
    BY <1>1 DEF CookieWorks, Expired
  <2>1. cookie'[d] = cookie[d] /\ d # reqs[r].device
    BY <1>2
  <2>2. PICK s \in Requests :
           /\ reqs[s].device = d /\ reqs[s].given = cookie[d]
           /\ reqs[s].pc \notin {"done", "refused", "consume"}
    BY <2>1 DEF IInv, CookieWorks
  <2>. QED
    BY <2>1, <2>2, <1>1, GoesFacts DEF IInv
<1>. QED
  BY <1>3, <1>5, <1>6 DEF IInv

-----------------------------------------------------------------------------
\* Every step keeps the inductive invariant.
THEOREM StepKeeps == IInv /\ [Next]_vars => IInv'
<1> SUFFICES ASSUME IInv, [Next]_vars PROVE IInv'
  OBVIOUS
<1>1. CASE UNCHANGED vars
  <2>1. UNCHANGED <<now, rows, id, last, crowded, expires, cookie, reqs, trimmed>>
    BY <1>1 DEF vars, db
  <2>2. TypeOK' /\ CrowdInv' /\ OwnInv'
    BY <2>1 DEF IInv, TypeOK, CrowdInv, Crowded, OwnInv
  <2>3. FreshInv' /\ CookieWorks'
    BY <2>1 DEF IInv, FreshInv, CookieWorks, Expired
  <2>. QED
    BY <2>2, <2>3 DEF IInv
<1>2. CASE Tick
  BY <1>2, TickKeeps
<1>3. ASSUME NEW r \in Requests, Step(r) PROVE IInv'
  <2>1. CASE SignInWithPassword(r)
    BY <2>1, SignInKeeps
  <2>2. CASE SendRefresh(r)
    BY <2>2, SendKeeps
  <2>3. CASE Consume(r)
    BY <2>3, ConsumeKeeps
  <2>4. CASE Register(r)
    BY <2>4, RegisterKeeps
  <2>5. CASE SetCookie(r)
    BY <2>5, SetCookieKeeps
  <2>6. CASE ClearCookie(r)
    BY <2>6, ClearCookieKeeps
  <2>7. CASE DeleteExpired(r)
    BY <2>7, PruneKeeps DEF DeleteExpired, IInv, TypeOK
  <2>8. CASE DeleteOverflow(r)
    BY <2>8, PruneKeeps DEF DeleteOverflow, IInv, TypeOK, CrowdInv
  <2>9. CASE FindOverflow(r)
    BY <2>9, FindKeeps
  <2>10. CASE RefreshFailed(r)
    BY <2>10, Stays DEF RefreshFailed, IInv, TypeOK, States
  <2>11. CASE NotAuthenticated(r)
    BY <2>11, Stays DEF NotAuthenticated, IInv, TypeOK, States
  <2>12. CASE RegisterFails(r)
    BY <2>12, Stays DEF RegisterFails, IInv, TypeOK, States
  <2>13. CASE NoOverflow(r)
    BY <2>13, Stays DEF NoOverflow, IInv, TypeOK, States
  <2>14. CASE PruneFails(r)
    BY <2>14, Stays DEF PruneFails, IInv, TypeOK, States
  <2>15. CASE UpdateLastSignIn(r)
    BY <2>15, Stays DEF UpdateLastSignIn, IInv, TypeOK, States
  <2>16. CASE Dies(r)
    BY <2>16, Stays DEF Dies, IInv, TypeOK, States
  <2>. QED
    BY <1>3, <2>1, <2>2, <2>3, <2>4, <2>5, <2>6, <2>7, <2>8, <2>9, <2>10,
       <2>11, <2>12, <2>13, <2>14, <2>15, <2>16 DEF Step
<1>. QED
  BY <1>1, <1>2, <1>3 DEF Next

(* The inductive invariant.                                                *)
THEOREM IInvHolds == Spec => []IInv
<1>. QED
  BY InitIInv, StepKeeps, PTL DEF Spec

(* Types, for any devices, requests, limit and lifetime.                   *)
THEOREM TypeCorrect == Spec => []TypeOK
<1>1. IInv => TypeOK
  BY DEF IInv
<1>. QED
  BY <1>1, IInvHolds, PTL

(* The token in a device's cookies can be exchanged, or there is one of    *)
(* four reasons why not; the answers may come in any order or not at all.  *)
THEOREM CookiesWork == Spec => []CookieWorks
<1>1. IInv => CookieWorks
  BY DEF IInv
<1>. QED
  BY <1>1, IInvHolds, PTL

(* No session is lost to others' sign-ins and stale reads before MaxActive *)
(* newer ones have been there at once.                                     *)
THEOREM LossHasCause == Spec => LostForCause
<1> DEFINE A == \A t \in rows \ rows' :
                   \/ Expired(t)
                   \/ t \in crowded
                   \/ \E r \in Requests :
                         /\ reqs[r].pc = "consume" /\ reqs[r].given = t
                         /\ reqs'[r].pc = "register"
<1>1. ASSUME IInv, [Next]_vars PROVE [A]_vars
  <2>1. CASE UNCHANGED vars
    BY <2>1
  <2>2. CASE Tick
    BY <2>2 DEF Tick, db
  <2>3. ASSUME NEW r \in Requests, Step(r) PROVE A
    <3>1. CASE Consume(r)
      <4>1. /\ reqs[r].pc = "consume" /\ rows' = rows \ {reqs[r].given}
            /\ Goes(r, "register") /\ "register" \in States
        BY <3>1 DEF Consume, States
      <4>2. reqs'[r].pc = "register"
        BY <4>1, <1>1, GoesFacts DEF IInv
      <4>. QED
        BY <4>1, <4>2
    <3>2. CASE Register(r)
      BY <3>2 DEF Register
    <3>3. CASE DeleteExpired(r)
      BY <3>3 DEF DeleteExpired
    <3>4. CASE DeleteOverflow(r)
      BY <3>4, <1>1 DEF DeleteOverflow, IInv, CrowdInv
    <3>5. CASE UNCHANGED rows
      BY <3>5
    <3>. QED
      BY <2>3, <3>1, <3>2, <3>3, <3>4, <3>5
      DEF Step, SignInWithPassword, SendRefresh, RefreshFailed,
          NotAuthenticated, RegisterFails, FindOverflow, NoOverflow,
          PruneFails, UpdateLastSignIn, Dies, SetCookie, ClearCookie, db
  <2>. QED
    BY <1>1, <2>1, <2>2, <2>3 DEF Next
<1>. QED
  BY <1>1, IInvHolds, PTL DEF Spec, LostForCause

-----------------------------------------------------------------------------
(* The bound on the sessions.  Whoever prunes reads the rows up to some    *)
(* id, and of those no more than MaxActive are left from then on; the rows *)
(* above are of requests that have not pruned yet.                         *)
UpTo(m, R, i) == {t \in R : i[t] <= m}
Few(m, R, i) == Cardinality(UpTo(m, R, i)) <= MaxActive

IdInv ==
    /\ \A t \in Tokens : id[t] <= last
    /\ \A t, u \in rows : id[t] = id[u] => t = u
    /\ \A r \in Requests : reqs[r].pc \in {"ready", "consume", "register"} =>
          id[r] = 0 /\ r \notin trimmed /\ r \notin rows

TrimInv ==
    \E m \in 0 .. last :
        /\ Few(m, rows, id)
        /\ \A r \in trimmed : id[r] <= m
        /\ \A t \in rows : id[t] > m => t \in Requests

ReadInv ==
    \A r \in Requests : reqs[r].pc = "trim" =>
        \E m \in 0 .. last : id[r] <= m /\ Few(m, rows \ reqs[r].old, id)

BoundInv == IdInv /\ TrimInv /\ ReadInv

(* A non-empty set of numbers has a least one.                             *)
LEMMA LeastNumber ==
  ASSUME NEW N \in SUBSET Nat, N # {}
  PROVE  \E n \in N : \A k \in N : n <= k
<1>1. IsWellFoundedOn(OpToRel(<, Nat), Nat)
  BY NatLessThanWellFounded
<1>2. PICK n \in N : \A k \in N : ~(<<k, n>> \in OpToRel(<, Nat))
  BY <1>1, WFMin
<1>3. \A k \in N : ~(k < n)
  BY <1>2 DEF OpToRel
<1>. QED
  BY <1>3

(* What is left of a set without what pruneTokens finds too many in it.    *)
LEMMA OverflowLeaves ==
  ASSUME NEW R, IsFiniteSet(R), NEW i, \A t \in R : i[t] \in Nat,
         \A t, u \in R : i[t] = i[u] => t = u
  PROVE  Cardinality(R \ Overflow(R, i)) <= MaxActive
<1> DEFINE K == R \ Overflow(R, i)
<1>1. CASE K = {}
  <2>1. Cardinality(K) = 0
    BY <1>1, FS_EmptySet
  <2>. QED
    BY <2>1, SignInAssumption
<1>2. CASE K # {}
  <2> DEFINE N == {i[t] : t \in K}
  <2>1. N \in SUBSET Nat /\ N # {}
    BY <1>2
  <2>2. PICK n \in N : \A k \in N : n <= k
    BY <2>1, LeastNumber
  <2>3. PICK t \in K : i[t] = n
    BY <2>2
  <2> DEFINE newer == {u \in R : i[u] > i[t]}
  <2>4. IsFiniteSet(newer) /\ Cardinality(newer) \in Nat
    BY FS_Subset, FS_CardinalityType
  <2>5. Cardinality(newer) < MaxActive
    BY <2>4, SignInAssumption DEF Overflow
  <2>6. K \subseteq newer \cup {t}
    <3> SUFFICES ASSUME NEW u \in K, u # t PROVE i[u] > i[t]
      OBVIOUS
    <3>1. n <= i[u] /\ i[u] # i[t] /\ i[u] \in Nat /\ i[t] \in Nat
      BY <2>2, <2>3
    <3>. QED
      BY <2>3, <3>1
  <2>7. t \notin newer
    BY <2>3
  <2>8. /\ IsFiniteSet(newer \cup {t})
        /\ Cardinality(newer \cup {t}) = Cardinality(newer) + 1
    BY <2>4, <2>7, FS_AddElement
  <2>9. Cardinality(K) <= Cardinality(newer \cup {t}) /\ IsFiniteSet(K)
    BY <2>6, <2>8, FS_Subset
  <2>10. Cardinality(K) \in Nat
    BY <2>9, FS_CardinalityType
  <2>. QED
    BY <2>4, <2>5, <2>8, <2>9, <2>10, SignInAssumption
<1>. QED
  BY <1>1, <1>2

(* A set with few up to m has few when there are fewer of them.            *)
LEMMA FewShrinks ==
  ASSUME NEW m, NEW R, IsFiniteSet(R), NEW i, NEW S, NEW j,
         Few(m, R, i), UpTo(m, S, j) \subseteq UpTo(m, R, i)
  PROVE  Few(m, S, j)
<1>1. UpTo(m, R, i) \subseteq R
  BY DEF UpTo
<1>2. /\ IsFiniteSet(UpTo(m, R, i)) /\ IsFiniteSet(UpTo(m, S, j))
      /\ Cardinality(UpTo(m, S, j)) <= Cardinality(UpTo(m, R, i))
  BY <1>1, FS_Subset
<1>3. Cardinality(UpTo(m, S, j)) \in Nat /\ Cardinality(UpTo(m, R, i)) \in Nat
  BY <1>2, FS_CardinalityType
<1>. QED
  BY <1>2, <1>3, SignInAssumption DEF Few

(* The bound that the rows have when one has read and deleted.             *)
LEMMA BoundFollows == IInv /\ BoundInv => SessionsBounded
<1> SUFFICES ASSUME IInv, BoundInv PROVE SessionsBounded
  OBVIOUS
<1> DEFINE P == {r \in Requests : id[r] # 0 /\ r \notin trimmed}
<1>1. PICK m \in 0 .. last :
         /\ Few(m, rows, id)
         /\ \A r \in trimmed : id[r] <= m
         /\ \A t \in rows : id[t] > m => t \in Requests
  BY DEF BoundInv, TrimInv
<1> DEFINE U == UpTo(m, rows, id)
<1>2. last \in Nat /\ \A t \in rows : id[t] \in Nat
  BY DEF IInv, TypeOK
<1>3. rows \subseteq U \cup P
  BY <1>1, <1>2 DEF UpTo
<1>4. IsFiniteSet(P) /\ IsFiniteSet(rows) /\ IsFiniteSet(U)
  BY FS_Subset, SignInAssumption DEF IInv, CrowdInv, UpTo
<1> HIDE DEF U, P
<1>5. /\ IsFiniteSet(U \cup P)
      /\ Cardinality(U \cup P) =
           Cardinality(U) + Cardinality(P) - Cardinality(U \cap P)
  BY <1>4, FS_Union
<1>6. Cardinality(rows) <= Cardinality(U \cup P)
  BY <1>3, <1>5, FS_Subset
<1>7. /\ Cardinality(U \cap P) \in Nat /\ Cardinality(rows) \in Nat
      /\ Cardinality(U) \in Nat /\ Cardinality(P) \in Nat
  BY <1>4, FS_Intersection, FS_CardinalityType
<1>8. Cardinality(U) <= MaxActive
  BY <1>1 DEF U, Few
<1>. QED
  BY <1>5, <1>6, <1>7, <1>8, SignInAssumption DEF SessionsBounded, P

-----------------------------------------------------------------------------
(* The bound holds of the sessions that there are to begin with.           *)
LEMMA InitBoundInv == Init => BoundInv
<1> SUFFICES ASSUME Init PROVE BoundInv
  OBVIOUS
<1>1. PICK s \in Stocks : /\ rows = s.rows /\ id = s.id /\ last = s.last
                          /\ expires = s.expires /\ cookie = s.cookie
  BY DEF Init
<1>2. /\ rows \subseteq Seeds /\ Cardinality(rows) <= MaxActive
      /\ last \in Nat /\ \A t \in Tokens : id[t] <= last
      /\ id \in [Tokens -> Nat] /\ \A r \in Requests : id[r] = 0
      /\ \A t, u \in rows : id[t] = id[u] => t = u
  BY <1>1, SignInAssumption
<1>3. trimmed = {} /\ \A r \in Requests : reqs[r].pc = "ready"
  BY DEF Init, Ready
<1>4. IdInv
  BY <1>2, <1>3, SignInAssumption DEF IdInv
<1>5. TrimInv
  <2>1. \A t \in rows : id[t] <= last /\ ~(id[t] > last)
    BY <1>2 DEF Tokens
  <2>2. UpTo(last, rows, id) = rows
    BY <2>1 DEF UpTo
  <2>3. Few(last, rows, id) /\ last \in 0 .. last
    BY <1>2, <2>2 DEF Few
  <2>. QED
    BY <1>3, <2>1, <2>3 DEF TrimInv
<1>6. ReadInv
  BY <1>3 DEF ReadInv
<1>. QED
  BY <1>4, <1>5, <1>6 DEF BoundInv

(* What a reader has found stays enough, as rows go and others are added   *)
(* above the last id.                                                      *)
LEMMA ReaderKeeps ==
  ASSUME IInv, BoundInv, NEW q \in Requests, reqs[q].pc = "trim",
         last' \in Nat, last <= last', id'[q] = id[q], NEW old,
         old = reqs[q].old,
         \A t \in rows' : /\ id'[t] \in Nat
                          /\ (t \in rows /\ id'[t] = id[t]) \/ id'[t] > last
  PROVE  \E m \in 0 .. last' : id'[q] <= m /\ Few(m, rows' \ old, id')
<1>1. PICK m \in 0 .. last : id[q] <= m /\ Few(m, rows \ old, id)
  BY DEF BoundInv, ReadInv
<1>2. UpTo(m, rows' \ old, id') \subseteq UpTo(m, rows \ old, id)
  BY <1>1 DEF UpTo, IInv, TypeOK
<1>3. IsFiniteSet(rows \ old)
  BY FS_Subset DEF IInv, CrowdInv
<1>4. Few(m, rows' \ old, id')
  BY <1>1, <1>2, <1>3, FewShrinks
<1>5. m \in 0 .. last'
  BY DEF IInv, TypeOK
<1>. QED
  BY <1>1, <1>4, <1>5

(* A step that registers nothing, trims nothing more and reads nothing.    *)
LEMMA RowsShrink ==
  ASSUME IInv, BoundInv, NEW r \in Requests,
         rows' \subseteq rows, UNCHANGED <<id, last, trimmed>>,
         \A q \in Requests : q # r => reqs'[q] = reqs[q],
         reqs'[r].pc \in {"ready", "consume", "register"} =>
             reqs[r].pc \in {"ready", "consume", "register"},
         reqs'[r].pc # "trim"
  PROVE  BoundInv'
<1>0. IsFiniteSet(rows) /\ last \in Nat /\ \A t \in rows : id[t] \in Nat
  BY DEF IInv, CrowdInv, TypeOK
<1>1. IdInv'
  BY DEF BoundInv, IdInv
<1>2. TrimInv'
  <2>1. PICK m \in 0 .. last : /\ Few(m, rows, id)
                               /\ \A q \in trimmed : id[q] <= m
                               /\ \A t \in rows : id[t] > m => t \in Requests
    BY DEF BoundInv, TrimInv
  <2>2. UpTo(m, rows', id') \subseteq UpTo(m, rows, id)
    BY DEF UpTo
  <2>3. Few(m, rows', id')
    BY <1>0, <2>1, <2>2, FewShrinks
  <2>. QED
    BY <2>1, <2>3 DEF TrimInv
<1>3. ReadInv'
  <2> SUFFICES ASSUME NEW q \in Requests, reqs'[q].pc = "trim"
               PROVE  \E m \in 0 .. last' :
                         id'[q] <= m /\ Few(m, rows' \ reqs'[q].old, id')
    BY DEF ReadInv
  <2>1. q # r /\ reqs'[q] = reqs[q]
    OBVIOUS
  <2>. QED
    BY <1>0, <2>1, ReaderKeeps
<1>. QED
  BY <1>1, <1>2, <1>3 DEF BoundInv

(* What registers takes an id above all others.                            *)
LEMMA RegisterBound ==
  ASSUME IInv, BoundInv, NEW r \in Requests, Register(r)
  PROVE  BoundInv'
<1>1. /\ last' = last + 1 /\ id' = [id EXCEPT ![r] = last + 1]
      /\ rows' = rows \cup {r} /\ trimmed' = trimmed
      /\ reqs[r].pc = "register"
  BY DEF Register
<1>2. /\ reqs'[r].pc = "prune"
      /\ \A q \in Requests : q # r => reqs'[q] = reqs[q]
  BY GoesFacts DEF Register, IInv, States
<1>3. /\ IsFiniteSet(rows) /\ last \in Nat /\ id \in [Tokens -> Nat]
      /\ r \in Tokens /\ Requests \subseteq Tokens /\ rows \subseteq Tokens
      /\ trimmed \subseteq Requests
  BY DEF IInv, CrowdInv, TypeOK, Tokens
<1>4. r \notin rows /\ r \notin trimmed
  BY <1>1 DEF BoundInv, IdInv
<1>5. id'[r] = last + 1 /\ \A t \in Tokens : t # r => id'[t] = id[t]
  BY <1>1, <1>3
<1>6. \A t \in rows' : /\ id'[t] \in Nat
                       /\ (t \in rows /\ id'[t] = id[t]) \/ id'[t] > last
  BY <1>1, <1>3, <1>4, <1>5
<1>7. IdInv'
  <2>1. \A t \in Tokens : id[t] <= last
    BY DEF BoundInv, IdInv
  <2>2. \A t \in Tokens : id'[t] <= last'
    BY <1>1, <1>3, <1>5, <2>1
  <2>3. \A t, u \in rows' : id'[t] = id'[u] => t = u
    <3>1. \A t \in rows : id'[t] = id[t] /\ id[t] <= last /\ id[t] \in Nat
      BY <1>3, <1>4, <1>5, <2>1
    <3>2. \A t \in rows : id'[t] # id'[r]
      BY <1>3, <1>5, <3>1
    <3>. QED
      BY <1>1, <3>1, <3>2 DEF BoundInv, IdInv
  <2>4. \A q \in Requests : reqs'[q].pc \in {"ready", "consume", "register"} =>
           id'[q] = 0 /\ q \notin trimmed' /\ q \notin rows'
    BY <1>1, <1>2, <1>3, <1>5 DEF BoundInv, IdInv
  <2>. QED
    BY <2>2, <2>3, <2>4 DEF IdInv
<1>8. TrimInv'
  <2>1. PICK m \in 0 .. last : /\ Few(m, rows, id)
                               /\ \A q \in trimmed : id[q] <= m
                               /\ \A t \in rows : id[t] > m => t \in Requests
    BY DEF BoundInv, TrimInv
  <2>2. m \in 0 .. last'
    BY <1>1, <1>3
  <2>3. UpTo(m, rows', id') \subseteq UpTo(m, rows, id)
    BY <1>3, <1>6 DEF UpTo
  <2>4. Few(m, rows', id')
    BY <1>3, <2>1, <2>3, FewShrinks
  <2>5. \A q \in trimmed' : id'[q] <= m
    BY <1>1, <1>3, <1>4, <1>5, <2>1
  <2>6. \A t \in rows' : id'[t] > m => t \in Requests
    BY <1>1, <1>3, <1>4, <1>5, <2>1
  <2>. QED
    BY <2>2, <2>4, <2>5, <2>6 DEF TrimInv
<1>9. ReadInv'
  <2> SUFFICES ASSUME NEW q \in Requests, reqs'[q].pc = "trim"
               PROVE  \E m \in 0 .. last' :
                         id'[q] <= m /\ Few(m, rows' \ reqs'[q].old, id')
    BY DEF ReadInv
  <2>1. q # r /\ reqs'[q] = reqs[q] /\ id'[q] = id[q]
    BY <1>2, <1>3, <1>5
  <2>2. reqs[q].pc = "trim" /\ last' \in Nat /\ last <= last'
    BY <1>1, <1>3, <2>1
  <2>3. \E m \in 0 .. last' : id'[q] <= m /\ Few(m, rows' \ reqs[q].old, id')
    BY <1>6, <2>1, <2>2, ReaderKeeps
  <2>. QED
    BY <2>1, <2>3
<1>. QED
  BY <1>7, <1>8, <1>9 DEF BoundInv

(* What is read leaves MaxActive rows of all that there are.               *)
LEMMA FindBound ==
  ASSUME IInv, BoundInv, NEW r \in Requests, FindOverflow(r)
  PROVE  BoundInv'
<1>1. UNCHANGED <<rows, id, last, trimmed>>
  BY DEF FindOverflow, db
<1>2. /\ reqs'[r].pc = "trim" /\ reqs'[r].old = Overflow(rows, id)
      /\ \A q \in Requests : q # r => reqs'[q] = reqs[q]
  BY DEF FindOverflow, IInv, TypeOK
<1>3. /\ IsFiniteSet(rows) /\ last \in Nat /\ \A t \in rows : id[t] \in Nat
      /\ r \in Tokens
  BY DEF IInv, CrowdInv, TypeOK, Tokens
<1>4. IdInv'
  BY <1>1, <1>2 DEF BoundInv, IdInv
<1>5. TrimInv'
  BY <1>1 DEF BoundInv, TrimInv
<1>6. ReadInv'
  <2> SUFFICES ASSUME NEW q \in Requests, reqs'[q].pc = "trim"
               PROVE  \E m \in 0 .. last' :
                         id'[q] <= m /\ Few(m, rows' \ reqs'[q].old, id')
    BY DEF ReadInv
  <2>1. CASE q # r
    BY <1>1, <1>2, <1>3, <2>1, ReaderKeeps
  <2>2. CASE q = r
    <3> DEFINE K == rows \ Overflow(rows, id)
    <3>1. IsFiniteSet(K) /\ Cardinality(K) <= MaxActive
      BY <1>3, OverflowLeaves, FS_Subset DEF BoundInv, IdInv
    <3>2. UpTo(last, K, id) = K /\ id[r] <= last
      BY <1>3 DEF UpTo, BoundInv, IdInv, IInv, TypeOK
    <3>3. Few(last, K, id) /\ last \in 0 .. last
      BY <1>3, <3>1, <3>2 DEF Few
    <3>. QED
      BY <1>1, <1>2, <2>2, <3>2, <3>3
  <2>. QED
    BY <2>1, <2>2
<1>. QED
  BY <1>4, <1>5, <1>6 DEF BoundInv

(* Nothing is too many: the rows are few as they are.                      *)
LEMMA NoOverflowBound ==
  ASSUME IInv, BoundInv, NEW r \in Requests, NoOverflow(r)
  PROVE  BoundInv'
<1>1. /\ UNCHANGED <<rows, id, last>> /\ trimmed' = trimmed \cup {r}
      /\ reqs[r].pc = "overflow" /\ Overflow(rows, id) = {}
  BY DEF NoOverflow, db
<1>2. /\ reqs'[r].pc = "lastSignIn"
      /\ \A q \in Requests : q # r => reqs'[q] = reqs[q]
  BY GoesFacts DEF NoOverflow, IInv, States
<1>3. /\ IsFiniteSet(rows) /\ last \in Nat /\ \A t \in rows : id[t] \in Nat
      /\ rows \subseteq Tokens /\ Requests \subseteq Tokens
      /\ trimmed' \subseteq Requests
  BY <1>1 DEF IInv, CrowdInv, TypeOK, Tokens
<1>4. IdInv'
  BY <1>1, <1>2 DEF BoundInv, IdInv
<1>5. TrimInv'
  <2>1. \A t \in Tokens : id[t] <= last /\ id[t] \in Nat
    BY DEF BoundInv, IdInv, IInv, TypeOK
  <2>2. UpTo(last, rows, id) = rows
    BY <1>3, <2>1 DEF UpTo
  <2>3. Cardinality(rows \ Overflow(rows, id)) <= MaxActive
    BY <1>3, OverflowLeaves DEF BoundInv, IdInv
  <2>4. rows \ Overflow(rows, id) = rows
    BY <1>1
  <2>5. Few(last, rows, id) /\ last \in 0 .. last
    BY <1>3, <2>2, <2>3, <2>4 DEF Few
  <2>. QED
    BY <1>1, <1>3, <2>1, <2>5 DEF TrimInv
<1>6. ReadInv'
  <2> SUFFICES ASSUME NEW q \in Requests, reqs'[q].pc = "trim"
               PROVE  \E m \in 0 .. last' :
                         id'[q] <= m /\ Few(m, rows' \ reqs'[q].old, id')
    BY DEF ReadInv
  <2>. QED
    BY <1>1, <1>2, <1>3, ReaderKeeps
<1>. QED
  BY <1>4, <1>5, <1>6 DEF BoundInv

(* The rows that were read are deleted: what was few when it was read is   *)
(* few now, whatever came and went in between.                             *)
LEMMA DeleteBound ==
  ASSUME IInv, BoundInv, NEW r \in Requests, DeleteOverflow(r)
  PROVE  BoundInv'
<1>1. /\ UNCHANGED <<id, last>> /\ rows' = rows \ reqs[r].old
      /\ trimmed' = trimmed \cup {r} /\ reqs[r].pc = "trim"
  BY DEF DeleteOverflow
<1>2. /\ reqs'[r].pc = "lastSignIn"
      /\ \A q \in Requests : q # r => reqs'[q] = reqs[q]
  BY GoesFacts DEF DeleteOverflow, IInv, States
<1>3. /\ IsFiniteSet(rows) /\ last \in Nat /\ \A t \in Tokens : id[t] \in Nat
      /\ rows \subseteq Tokens /\ Requests \subseteq Tokens
      /\ trimmed' \subseteq Requests
  BY <1>1 DEF IInv, CrowdInv, TypeOK, Tokens
<1>4. IdInv'
  BY <1>1, <1>2 DEF BoundInv, IdInv
<1>5. TrimInv'
  <2>1. PICK m \in 0 .. last : /\ Few(m, rows, id)
                               /\ \A q \in trimmed : id[q] <= m
                               /\ \A t \in rows : id[t] > m => t \in Requests
    BY DEF BoundInv, TrimInv
  <2>2. PICK n \in 0 .. last : id[r] <= n /\ Few(n, rows \ reqs[r].old, id)
    BY <1>1 DEF BoundInv, ReadInv
  <2>3. Few(m, rows', id')
    <3>1. UpTo(m, rows', id') \subseteq UpTo(m, rows, id)
      BY <1>1 DEF UpTo
    <3>. QED
      BY <1>3, <2>1, <3>1, FewShrinks
  <2>4. Few(n, rows', id')
    BY <1>1, <2>2
  <2>5. CASE m <= n
    <3>1. (\A q \in trimmed' : id'[q] <= n)
          /\ \A t \in rows' : id'[t] > n => t \in Requests
      BY <1>1, <1>3, <2>1, <2>2, <2>5
    <3>. QED
      BY <1>1, <2>4, <3>1 DEF TrimInv
  <2>6. CASE n <= m
    <3>1. (\A q \in trimmed' : id'[q] <= m)
          /\ \A t \in rows' : id'[t] > m => t \in Requests
      BY <1>1, <1>3, <2>1, <2>2, <2>6
    <3>. QED
      BY <1>1, <2>3, <3>1 DEF TrimInv
  <2>. QED
    BY <2>5, <2>6
<1>6. ReadInv'
  <2> SUFFICES ASSUME NEW q \in Requests, reqs'[q].pc = "trim"
               PROVE  \E m \in 0 .. last' :
                         id'[q] <= m /\ Few(m, rows' \ reqs'[q].old, id')
    BY DEF ReadInv
  <2>. QED
    BY <1>1, <1>2, <1>3, ReaderKeeps
<1>. QED
  BY <1>4, <1>5, <1>6 DEF BoundInv

(* Every step keeps the bound.                                             *)
LEMMA NextBoundInv == IInv /\ BoundInv /\ [Next]_vars => BoundInv'
<1> SUFFICES ASSUME IInv, BoundInv, [Next]_vars PROVE BoundInv'
  OBVIOUS
<1>1. CASE UNCHANGED <<rows, id, last, trimmed, reqs>>
  BY <1>1 DEF BoundInv, IdInv, TrimInv, ReadInv
<1>2. ASSUME NEW r \in Requests, Step(r) PROVE BoundInv'
  <2>1. CASE Register(r)
    BY <2>1, RegisterBound
  <2>2. CASE FindOverflow(r)
    BY <2>2, FindBound
  <2>3. CASE NoOverflow(r)
    BY <2>3, NoOverflowBound
  <2>4. CASE DeleteOverflow(r)
    BY <2>4, DeleteBound
  <2>5. CASE SendRefresh(r)
    BY <2>5, RowsShrink DEF SendRefresh, db, IInv, TypeOK
  <2>6. ASSUME NEW pc \in States, Goes(r, pc), rows' \subseteq rows,
               UNCHANGED <<id, last, trimmed>>, pc # "trim",
               pc \in {"ready", "consume", "register"} =>
                   reqs[r].pc \in {"ready", "consume", "register"}
        PROVE  BoundInv'
    <3>1. reqs'[r].pc = pc /\ \A q \in Requests : q # r => reqs'[q] = reqs[q]
      BY <2>6, GoesFacts DEF IInv
    <3>. QED
      BY <2>6, <3>1, RowsShrink
  <2>7. CASE SignInWithPassword(r)
    BY <2>6, <2>7 DEF SignInWithPassword, db, States
  <2>8. CASE RefreshFailed(r)
    BY <2>6, <2>8 DEF RefreshFailed, db, States
  <2>9. CASE Consume(r)
    BY <2>6, <2>9 DEF Consume, States
  <2>10. CASE NotAuthenticated(r)
    BY <2>6, <2>10 DEF NotAuthenticated, db, States
  <2>11. CASE RegisterFails(r)
    BY <2>6, <2>11 DEF RegisterFails, db, States
  <2>12. CASE DeleteExpired(r)
    BY <2>6, <2>12 DEF DeleteExpired, States
  <2>13. CASE PruneFails(r)
    BY <2>6, <2>13 DEF PruneFails, db, States
  <2>14. CASE UpdateLastSignIn(r)
    BY <2>6, <2>14 DEF UpdateLastSignIn, db, States
  <2>15. CASE Dies(r)
    BY <2>6, <2>15 DEF Dies, db, States
  <2>16. CASE SetCookie(r)
    BY <2>6, <2>16 DEF SetCookie, db, States
  <2>17. CASE ClearCookie(r)
    BY <2>6, <2>17 DEF ClearCookie, db, States
  <2>. QED
    BY <1>2, <2>1, <2>2, <2>3, <2>4, <2>5, <2>7, <2>8, <2>9, <2>10, <2>11,
       <2>12, <2>13, <2>14, <2>15, <2>16, <2>17 DEF Step
<1>. QED
  BY <1>1, <1>2 DEF Next, Tick, vars, db

(* The account has at most MaxActive sessions and one more for each        *)
(* request whose pruning is not finished or has failed.                    *)
THEOREM AtMostMaxActive == Spec => []SessionsBounded
<1>1. Init => BoundInv
  BY InitBoundInv
<1>2. IInv /\ BoundInv /\ [Next]_vars => BoundInv'
  BY NextBoundInv
<1>3. IInv /\ BoundInv => SessionsBounded
  BY BoundFollows
<1>. QED
  BY <1>1, <1>2, <1>3, IInvHolds, PTL DEF Spec
=============================================================================

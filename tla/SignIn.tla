------------------------------- MODULE SignIn -------------------------------
(***************************************************************************)
(* The sign-in sessions of one account.  A device that signs in gets a     *)
(* refresh token in a cookie; a row of auth_session stands for it.  To     *)
(* refresh, the row is deleted and another one, with another token, is     *)
(* inserted.  No transaction holds the two together, nor an insertion and  *)
(* the pruning that follows it: the expired rows are deleted, those in     *)
(* excess of MaxActive are read, and then deleted by their ids.            *)
(*                                                                         *)
(* The tabs of a device share its cookies and know nothing of each other.  *)
(* Answers reach the device in any order, or not at all.  The token that a *)
(* request makes is named after the request.                               *)
(***************************************************************************)
EXTENDS Integers, FiniteSets

CONSTANTS
    Devices,
    Requests,   \* sign-ins and refreshes, each sent once
    Seeds,      \* tokens to begin with
    Stocks,     \* their rows and the cookies
    MaxActive,  \* MAX_ACTIVE_TOKENS
    Lifetime,   \* JWT_REFRESH_TOKEN_EXPIRATION_MS
    MaxTime,    \* bound of the clock
    None

Tokens == Requests \cup Seeds

ASSUME SignInAssumption ==
    /\ MaxActive \in Nat \ {0}
    /\ Lifetime \in Nat \ {0}
    /\ MaxTime \in Nat
    /\ None \notin Tokens
    /\ Requests \cap Seeds = {}
    /\ IsFiniteSet(Requests)
    /\ \A s \in Stocks :
          /\ s.rows \subseteq Seeds
          /\ IsFiniteSet(s.rows)
          /\ Cardinality(s.rows) <= MaxActive
          /\ s.last \in Nat
          /\ s.id \in [Tokens -> Nat]
          /\ \A t \in Tokens : s.id[t] <= s.last
          /\ \A r \in Requests : s.id[r] = 0
          /\ \A t, u \in s.rows : s.id[t] = s.id[u] => t = u
          /\ s.expires \in [Tokens -> Nat]
          /\ s.cookie \in [Devices -> s.rows \cup {None}]
          /\ \A d, e \in Devices :
                s.cookie[d] = s.cookie[e] => d = e \/ s.cookie[d] = None

VARIABLES
    now,
    rows,      \* tokens with a row in auth_session
    id,        \* [Tokens -> the row's id], 0: never registered
    last,      \* the last id given
    expires,   \* [Tokens -> Nat]
    cookie,    \* [Devices -> the refresh token in its cookies]
    reqs,
    crowded,   \* history: tokens that had MaxActive newer rows at some moment
    trimmed    \* history: requests that have pruned to the end

db == <<rows, id, last, crowded>>
vars == <<now, db, expires, cookie, reqs, trimmed>>

-----------------------------------------------------------------------------
\* Mutated forms of definitions below.
OldestKept(R, i) ==
    {t \in R : Cardinality({u \in R : i[u] < i[t]}) >= MaxActive}
CookieSetFirst(r) ==
    /\ reqs[r].pc = "register"
    /\ reqs' = [reqs EXCEPT ![r].pc = "answer"]
    /\ UNCHANGED <<now, db, expires, cookie, trimmed>>
OneTooMany(R, i) ==
    {t \in R : Cardinality({u \in R : i[u] > i[t]}) > MaxActive}

-----------------------------------------------------------------------------
Expired(t) == expires[t] <= now

\* The token of a device's cookies that the JWT check lets pass.
Presented(d) ==
    IF cookie[d] # None /\ ~Expired(cookie[d]) THEN cookie[d] ELSE None

\* orderBy id desc, skip MAX_ACTIVE_TOKENS
Overflow(R, i) ==
    {t \in R : Cardinality({u \in R : i[u] > i[t]}) >= MaxActive}

\* For the history: those of R that have MaxActive newer ones in R.
Crowded(R, i) == {t \in R : Cardinality({u \in R : i[u] > i[t]}) >= MaxActive}

Ready(d) == [pc |-> "ready", device |-> d, given |-> None, old |-> {}]

Init ==
    /\ now = 0
    /\ \E s \in Stocks : /\ rows = s.rows /\ id = s.id /\ last = s.last
                         /\ expires = s.expires /\ cookie = s.cookie
    /\ \E owner \in [Requests -> Devices] :
          reqs = [r \in Requests |-> Ready(owner[r])]
    /\ crowded = {} /\ trimmed = {}

Goes(r, pc) ==
    reqs' = [reqs EXCEPT ![r] = [pc |-> pc, device |-> reqs[r].device,
                                 given |-> reqs[r].given, old |-> {}]]

Tick ==
    /\ now < MaxTime
    /\ now' = now + 1
    /\ UNCHANGED <<db, expires, cookie, reqs, trimmed>>

(***************************************************************************)
(* The two ways to createToken.  GenerateToken fixes the expiry.           *)
(***************************************************************************)
GenerateToken(r) == expires' = [expires EXCEPT ![r] = now + Lifetime]

\* The password is right; whether it is is read, and nothing is written.
SignInWithPassword(r) ==
    /\ reqs[r].pc = "ready"
    /\ GenerateToken(r)
    /\ Goes(r, "register")
    /\ UNCHANGED <<now, db, cookie, trimmed>>

\* The guard finds a token in the cookies whose time is not over.
SendRefresh(r) ==
    /\ reqs[r].pc = "ready"
    /\ Presented(reqs[r].device) # None
    /\ reqs' = [reqs EXCEPT ![r] =
           [pc |-> "consume", device |-> reqs[r].device,
            given |-> Presented(reqs[r].device), old |-> {}]]
    /\ UNCHANGED <<now, db, expires, cookie, trimmed>>

\* No token, or one whose time is over: no error and no user, and the guard
\* has the cookie cleared.
RefreshFailed(r) ==
    /\ reqs[r].pc = "ready"
    /\ Presented(reqs[r].device) = None
    /\ Goes(r, "clear")
    /\ UNCHANGED <<now, db, expires, cookie, trimmed>>

\* DELETE ... WHERE token_hash = ? AND expires_at > now()
Consume(r) ==
    LET t == reqs[r].given
    IN  /\ reqs[r].pc = "consume"
        /\ t \in rows /\ ~Expired(t)
        /\ rows' = rows \ {t}
        /\ GenerateToken(r)
        /\ Goes(r, "register")
        /\ UNCHANGED <<now, id, last, crowded, cookie, trimmed>>

\* It deleted nothing: an error, which leaves the cookie alone.
NotAuthenticated(r) ==
    /\ reqs[r].pc = "consume"
    /\ reqs[r].given \notin rows \/ Expired(reqs[r].given)
    /\ Goes(r, "refused")
    /\ UNCHANGED <<now, db, expires, cookie, trimmed>>

(***************************************************************************)
(* register and pruneTokens                                                *)
(***************************************************************************)
Register(r) ==
    /\ reqs[r].pc = "register"
    /\ last' = last + 1
    /\ id' = [id EXCEPT ![r] = last + 1]
    /\ rows' = rows \cup {r}
    /\ crowded' = crowded \cup Crowded(rows', id')
    /\ Goes(r, "prune")
    /\ UNCHANGED <<now, expires, cookie, trimmed>>

RegisterFails(r) ==
    /\ reqs[r].pc = "register"
    /\ Goes(r, "failed")
    /\ UNCHANGED <<now, db, expires, cookie, trimmed>>

DeleteExpired(r) ==
    /\ reqs[r].pc = "prune"
    /\ rows' = {t \in rows : ~Expired(t)}
    /\ Goes(r, "overflow")
    /\ UNCHANGED <<now, id, last, crowded, expires, cookie, trimmed>>

FindOverflow(r) ==
    /\ reqs[r].pc = "overflow"
    /\ Overflow(rows, id) # {}
    /\ reqs' = [reqs EXCEPT ![r] =
           [pc |-> "trim", device |-> reqs[r].device,
            given |-> reqs[r].given, old |-> Overflow(rows, id)]]
    /\ UNCHANGED <<now, db, expires, cookie, trimmed>>

NoOverflow(r) ==
    /\ reqs[r].pc = "overflow"
    /\ Overflow(rows, id) = {}
    /\ Goes(r, "lastSignIn")
    /\ trimmed' = trimmed \cup {r}
    /\ UNCHANGED <<now, db, expires, cookie>>

DeleteOverflow(r) ==
    /\ reqs[r].pc = "trim"
    /\ rows' = rows \ reqs[r].old
    /\ Goes(r, "lastSignIn")
    /\ trimmed' = trimmed \cup {r}
    /\ UNCHANGED <<now, id, last, crowded, expires, cookie>>

\* Any of the three fails: it is logged, and the sign-in goes on.
PruneFails(r) ==
    /\ reqs[r].pc \in {"prune", "overflow", "trim"}
    /\ Goes(r, "lastSignIn")
    /\ UNCHANGED <<now, db, expires, cookie, trimmed>>

(***************************************************************************)
(* The rest of createToken, and the answers                                *)
(***************************************************************************)
UpdateLastSignIn(r) ==
    /\ reqs[r].pc = "lastSignIn"
    /\ Goes(r, "answer")
    /\ UNCHANGED <<now, db, expires, cookie, trimmed>>

\* The update is refused, the server dies, or the answer is lost.  Before
\* it is registered see RegisterFails.
Dies(r) ==
    /\ reqs[r].pc \in {"consume", "prune", "overflow", "trim", "lastSignIn",
                       "answer", "clear"}
    /\ Goes(r, "failed")
    /\ UNCHANGED <<now, db, expires, cookie, trimmed>>

SetCookie(r) ==
    /\ reqs[r].pc = "answer"
    /\ cookie' = [cookie EXCEPT ![reqs[r].device] = r]
    /\ Goes(r, "done")
    /\ UNCHANGED <<now, db, expires, trimmed>>

ClearCookie(r) ==
    /\ reqs[r].pc = "clear"
    /\ cookie' = [cookie EXCEPT ![reqs[r].device] = None]
    /\ Goes(r, "done")
    /\ UNCHANGED <<now, db, expires, trimmed>>

Step(r) ==
    \/ SignInWithPassword(r) \/ SendRefresh(r)
    \/ RefreshFailed(r) \/ Consume(r) \/ NotAuthenticated(r)
    \/ Register(r) \/ RegisterFails(r)
    \/ DeleteExpired(r) \/ FindOverflow(r) \/ NoOverflow(r)
    \/ DeleteOverflow(r) \/ PruneFails(r)
    \/ UpdateLastSignIn(r) \/ Dies(r) \/ SetCookie(r) \/ ClearCookie(r)

Next == Tick \/ \E r \in Requests : Step(r)

Spec == Init /\ [][Next]_vars

-----------------------------------------------------------------------------
States == {"ready", "consume", "register", "prune", "overflow",
           "trim", "lastSignIn", "answer", "clear", "done", "failed", "refused"}

TypeOK ==
    /\ now \in Nat
    /\ rows \subseteq Tokens
    /\ id \in [Tokens -> Nat] /\ last \in Nat
    /\ expires \in [Tokens -> Nat]
    /\ cookie \in [Devices -> Tokens \cup {None}]
    /\ reqs \in [Requests -> [pc : States, device : Devices,
                              given : Tokens \cup {None},
                              old : SUBSET Tokens]]
    /\ crowded \subseteq Tokens /\ trimmed \subseteq Requests

\* A device is not signed out by another's sign-in: a session ends when its
\* own token is exchanged, when its time is over, or when at some moment
\* there have been MaxActive newer ones all at once, however many refreshes
\* and stale reads of pruneTokens there were.
LostForCause ==
    [][\A t \in rows \ rows' :
          \/ Expired(t)
          \/ t \in crowded
          \/ \E r \in Requests : /\ reqs[r].pc = "consume" /\ reqs[r].given = t
                                 /\ reqs'[r].pc = "register"]_vars

\* The account has at most MaxActive sessions, and one more for each request
\* whose pruning is not finished or has failed (auth-session.service.ts:6).
SessionsBounded ==
    Cardinality(rows) <=
        MaxActive + Cardinality({r \in Requests : id[r] # 0 /\ r \notin trimmed})

\* The refresh token in a device's cookies can be exchanged, unless it has
\* expired, was crowded out, or was exchanged by a request of the same device
\* that has not brought, or never brings, its successor.
CookieWorks ==
    \A d \in Devices :
        \/ cookie[d] = None
        \/ cookie[d] \in rows
        \/ Expired(cookie[d])
        \/ cookie[d] \in crowded
        \/ \E r \in Requests : /\ reqs[r].device = d
                               /\ reqs[r].given = cookie[d]
                               /\ reqs[r].pc \notin {"done", "refused", "consume"}
=============================================================================

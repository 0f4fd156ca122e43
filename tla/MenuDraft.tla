------------------------------ MODULE MenuDraft ------------------------------
(***************************************************************************)
(* Menu drafts of one owner and store (menu-draft.service.ts,              *)
(* menu-draft.store.ts, bulkCreateMenus of menu.service.ts): photographs   *)
(* are recognised by a vision model, for which the owner has a budget per  *)
(* window; the result waits in Redis to be edited and then committed to    *)
(* the menu.                                                               *)
(*                                                                         *)
(* Redis keeps the counter of the window, the drafts, the failures and the *)
(* index of drafts, each with an expiry.  The length of an expiry is not   *)
(* modelled: a key that has one may go at any moment, except that the      *)
(* index, whose expiry is renewed with that of every draft, outlives them. *)
(* A reply that is lost after its command ran is the command that ran.     *)
(***************************************************************************)
EXTENDS Integers, FiniteSets

CONSTANTS
  Drafts,      \* draft ids: hashes of the photographs and category names
  Senders,     \* HTTP requests
  RateLimit,   \* MENU_DRAFT_RATE_LIMIT
  Nobody

ASSUME RateLimitAssumption == RateLimit \in Nat \ {0}
ASSUME SendersAssumption == IsFiniteSet(Senders) /\ Nobody \notin Senders

VARIABLES
  counter,   \* menu-draft:rate:<owner>; used = 0: there is no key
  window,    \* history: the number of counters created so far
  draft,     \* menu-draft:<owner>:<store>:<draft id>
  failed,    \* drafts with a record menu-draft:failed:...
  index,     \* menu-draft:index:<owner>:<store>
  req        \* [Senders -> state of the request]

draftVars == <<counter, window, draft, failed, index, req>>

-----------------------------------------------------------------------------
Counter == [used : Nat, expires : BOOLEAN]
NoCounter == [used |-> 0, expires |-> FALSE]

Draft == [status : {"READY", "COMMITTED"}, items : Senders] \cup
         {[status |-> "GONE", items |-> Nobody]}
NoDraft == [status |-> "GONE", items |-> Nobody]
Alive(d) == draft[d].status # "GONE"
AliveDrafts == {d \in Drafts : Alive(d)}

Operations == {"upload", "edit", "commit", "list"}
Running == {"count", "extract", "record", "refund", "save",    \* an upload
            "mark", "read", "prune"}                           \* the others
Outcomes == {"reused", "drafted", "unreadable", "tooMany", "upstream",
             "unavailable", "ok", "missing", "dead"}
RequestState ==
  [pc : {"idle"} \cup Running \cup Outcomes, op : Operations,
   draft : Drafts \cup {Nobody},
   seen : SUBSET Drafts,      \* what a listing has read
   error : {"tooMany", "unreadable", "upstream"},  \* what is answered after a refund
   charged : Nat,             \* history: the window that counted it, or 0
   refunded : Nat,            \* history: the window that got its refund, or 0
   lost : BOOLEAN,            \* history: its refund failed
   blind : SUBSET Drafts]     \* history: drafts it took for gone that are not

Idle == [pc |-> "idle", op |-> "upload", draft |-> Nobody, seen |-> {},
         error |-> "tooMany", charged |-> 0, refunded |-> 0, lost |-> FALSE,
         blind |-> {}]

IsAt(r, pc) == req[r].pc = pc
Goes(r, pc) == req' = [req EXCEPT ![r].pc = pc]

-----------------------------------------------------------------------------
(* Mutated forms of the definitions below.                                   *)
OneTooMany(c) == c.used <= RateLimit + 1
NothingToReuse(d) == FALSE
NotIndexed(d) == index
RefundedAlways == {"unreadable", "upstream"}

(* The counter after INCR and EXPIRE NX, and after RATE_REFUND_SCRIPT.       *)
Counted(c) == [used |-> c.used + 1, expires |-> TRUE]
Refunded(c) == IF c.used > 1 THEN [c EXCEPT !.used = @ - 1] ELSE NoCounter
WithinLimit(c) == c.used <= RateLimit

(* The errors of the model that give the call back: not its 422.             *)
RefundedErrors == {"upstream"}

(* findOrFailure: the draft first, then the record of a failure.             *)
Reusable(d) == Alive(d)

(* The index after ZADD; what ZREM takes off it; WRITE_IF_ALIVE.             *)
Indexed(d) == index \cup {d}
ToPrune(r) == req[r].seen \ AliveDrafts
WrittenIfAlive(d, row) == IF Alive(d) THEN [draft EXCEPT ![d] = row] ELSE draft

DraftInit ==
  /\ counter = NoCounter
  /\ window = 0
  /\ draft = [d \in Drafts |-> NoDraft]
  /\ failed = {}
  /\ index = {}
  /\ req = [r \in Senders |-> Idle]

-----------------------------------------------------------------------------
(* createDraft: the lookup of assertReusable, whose errors mean "nothing     *)
(* found".                                                                   *)
Upload(r, d) ==
  LET begun == [Idle EXCEPT !.draft = d]
      goes(pc, blind) == req' = [req EXCEPT ![r] = [begun EXCEPT !.pc = pc, !.blind = blind]]
  IN /\ IsAt(r, "idle")
     /\ \/ Reusable(d) /\ goes("reused", {})
        \/ ~Reusable(d) /\ d \in failed /\ goes("unreadable", {})
        \/ ~Reusable(d) /\ d \notin failed /\ goes("count", {})
        \/ goes("count", {d} \cap AliveDrafts)
     /\ UNCHANGED <<counter, window, draft, failed, index>>

(* assertWithinRateLimit.                                                    *)
Count(r) ==
  LET counted == Counted(counter)
      opened == IF counter.used = 0 THEN window + 1 ELSE window
      charge(pc) == req' = [req EXCEPT ![r].pc = pc, ![r].charged = opened,
                                       ![r].error = "tooMany"]
  IN /\ IsAt(r, "count")
     /\ counter' = counted /\ window' = opened
     /\ \/ WithinLimit(counted) /\ charge("extract")
        \/ ~WithinLimit(counted) /\ charge("refund")
        \/ charge("unavailable")              \* the reply is lost: 503
     /\ UNCHANGED <<draft, failed, index>>

CountUnavailable(r) ==
  /\ IsAt(r, "count")
  /\ Goes(r, "unavailable")
  /\ UNCHANGED <<counter, window, draft, failed, index>>

(* extract: the vision model's answer.                                       *)
Extract(r) ==
  /\ IsAt(r, "extract")
  /\ \/ Goes(r, "save")
     \/ \E error \in {"unreadable", "upstream"} :
          req' = IF error \in RefundedErrors
                 THEN [req EXCEPT ![r].pc = "refund", ![r].error = error]
                 ELSE [req EXCEPT ![r].pc = "record"]
  /\ UNCHANGED <<counter, window, draft, failed, index>>

(* saveFailure, whose errors are swallowed.                                  *)
RecordFailure(r) ==
  /\ IsAt(r, "record")
  /\ failed' \in {failed, failed \cup {req[r].draft}}
  /\ Goes(r, "unreadable")
  /\ UNCHANGED <<counter, window, draft, index>>

(* refundRateLimit, whose errors are swallowed.  It names no window.         *)
Refund(r) ==
  /\ IsAt(r, "refund")
  /\ \/ /\ counter' = Refunded(counter)
        /\ req' = [req EXCEPT ![r].pc = req[r].error,
                              ![r].refunded = IF counter.used > 0 THEN window ELSE 0]
     \/ /\ counter' = counter
        /\ req' = [req EXCEPT ![r].pc = req[r].error, ![r].lost = TRUE]
  /\ UNCHANGED <<window, draft, failed, index>>

(* store.save, one MULTI; when it fails the response is a draft all the same.*)
TookForGone(d) ==    \* the requests in flight that have found d gone
  {s \in Senders : \/ req[s].pc \in {"count", "extract", "save"} /\ req[s].draft = d
                   \/ req[s].pc = "prune" /\ d \in req[s].seen}

Save(r) ==
  LET d == req[r].draft
      overtaken == TookForGone(d) \ {r}
  IN /\ IsAt(r, "save")
     /\ draft' = [draft EXCEPT ![d] = [status |-> "READY", items |-> r]]
     /\ index' = Indexed(d)
     /\ req' = [s \in Senders |->
          CASE s = r -> [req[s] EXCEPT !.pc = "drafted"]
            [] s \in overtaken -> [req[s] EXCEPT !.blind = @ \cup {d}]
            [] OTHER -> req[s]]
     /\ UNCHANGED <<counter, window, failed>>

SaveFails(r) ==
  /\ IsAt(r, "save")
  /\ Goes(r, "drafted")
  /\ UNCHANGED <<counter, window, draft, failed, index>>

(* updateDraftItems: the context is read, then replaceItems writes if the    *)
(* draft is alive, whatever its status.                                      *)
Edit(r, d) ==
  LET row == [draft[d] EXCEPT !.items = r] IN
  /\ IsAt(r, "idle")
  /\ draft' = WrittenIfAlive(d, row)
  /\ req' = [req EXCEPT ![r] = [Idle EXCEPT !.op = "edit", !.draft = d,
                                            !.pc = IF Alive(d) THEN "ok" ELSE "missing"]]
  /\ UNCHANGED <<counter, window, failed, index>>

(* bulkCreateMenus: the transaction that creates the menus, for a draft id   *)
(* that nobody looks at, then markCommitted, whose errors are swallowed.     *)
CreateMenus(r, d) ==
  LET begun == [Idle EXCEPT !.op = "commit", !.draft = d] IN
  /\ IsAt(r, "idle")
  /\ \E pc \in {"mark", "missing"} : req' = [req EXCEPT ![r] = [begun EXCEPT !.pc = pc]]
  /\ UNCHANGED <<counter, window, draft, failed, index>>

MarkCommitted(r) ==
  LET d == req[r].draft
      row == [draft[d] EXCEPT !.status = "COMMITTED"]
  IN /\ IsAt(r, "mark")
     /\ draft' \in {draft, WrittenIfAlive(d, row)}
     /\ Goes(r, "ok")
     /\ UNCHANGED <<counter, window, failed, index>>

(* store.list: the ids, then their drafts, then ZREM of those found expired. *)
ReadIndex(r) ==
  LET begun == [Idle EXCEPT !.op = "list", !.seen = index] IN
  /\ IsAt(r, "idle")
  /\ req' = [req EXCEPT ![r] = [begun EXCEPT !.pc = IF index = {} THEN "ok" ELSE "read"]]
  /\ UNCHANGED <<counter, window, draft, failed, index>>

ReadDrafts(r) ==
  LET expired == ToPrune(r) IN
  /\ IsAt(r, "read")
  /\ req' = [req EXCEPT ![r].seen = expired,
                        ![r].pc = IF expired = {} THEN "ok" ELSE "prune"]
  /\ UNCHANGED <<counter, window, draft, failed, index>>

Prune(r) ==
  /\ IsAt(r, "prune")
  /\ index' = index \ req[r].seen
  /\ req' = [req EXCEPT ![r].pc = "ok", ![r].seen = {}]
  /\ UNCHANGED <<counter, window, draft, failed>>

(* The server of the request dies.                                           *)
Crash(r) ==
  /\ req[r].pc \in Running
  /\ Goes(r, "dead")
  /\ UNCHANGED <<counter, window, draft, failed, index>>

-----------------------------------------------------------------------------
(* Expiry of the keys.                                                       *)
ExpireCounter ==
  /\ counter.expires
  /\ counter' = NoCounter
  /\ UNCHANGED <<window, draft, failed, index, req>>

ExpireDraft(d) ==
  /\ Alive(d)
  /\ draft' = [draft EXCEPT ![d] = NoDraft]
  /\ UNCHANGED <<counter, window, failed, index, req>>

ExpireFailure(d) ==
  /\ d \in failed
  /\ failed' = failed \ {d}
  /\ UNCHANGED <<counter, window, draft, index, req>>

ExpireIndex ==
  /\ index # {} /\ AliveDrafts = {}
  /\ index' = {}
  /\ UNCHANGED <<counter, window, draft, failed, req>>

Step(r) ==
  \/ Count(r) \/ CountUnavailable(r) \/ Extract(r) \/ RecordFailure(r)
  \/ Refund(r) \/ Save(r) \/ SaveFails(r) \/ MarkCommitted(r)
  \/ ReadDrafts(r) \/ Prune(r)

DraftNext ==
  \/ \E r \in Senders, d \in Drafts : Upload(r, d) \/ Edit(r, d) \/ CreateMenus(r, d)
  \/ \E r \in Senders : ReadIndex(r) \/ Step(r) \/ Crash(r)
  \/ ExpireCounter
  \/ \E d \in Drafts : ExpireDraft(d) \/ ExpireFailure(d)
  \/ ExpireIndex

DraftSpec == DraftInit /\ [][DraftNext]_draftVars

-----------------------------------------------------------------------------
(* Types; in particular a refund never brings a counter back below zero      *)
(* (RATE_REFUND_SCRIPT).                                                     *)
DraftTypeOK ==
  /\ counter \in Counter /\ window \in Nat
  /\ draft \in [Drafts -> Draft]
  /\ failed \subseteq Drafts
  /\ index \subseteq Drafts
  /\ req \in [Senders -> RequestState]

ChargedIn(w) == {r \in Senders : req[r].charged = w}
LateRefunds(w) == {r \in Senders : req[r].refunded = w /\ req[r].charged # w}

(* A request that was told that it cost nothing.                             *)
Free(r) == req[r].pc \in {"tooMany", "upstream"} /\ ~req[r].lost

(* The owner's counter is what the owner was told: the uploads counted in    *)
(* this window, except those refused or failed for reasons of ours           *)
(* (assertWithinRateLimit, extract, refundRateLimit), except that a refund   *)
(* that arrives after its window falls on this one.  And it has an expiry,   *)
(* without which the owner would never get the budget back (EXPIRE NX).      *)
CounterAccounts ==
  counter.used > 0 =>
    /\ counter.expires
    /\ counter.used = Cardinality({r \in ChargedIn(window) : ~Free(r)})
                      - Cardinality(LateRefunds(window))

(* The calls of the model that a window has paid for.                        *)
CallsPaidBy(w) ==
  {r \in ChargedIn(w) : req[r].pc \in {"extract", "record", "save", "unreadable", "drafted"}}

(* A window pays for no more calls of the model than the limit, plus one for *)
(* every refund of an earlier window that fell on it (refundRateLimit names  *)
(* no window).                                                               *)
BudgetKept ==
  \A w \in 1..window :
    Cardinality(CallsPaidBy(w)) <= RateLimit + Cardinality(LateRefunds(w))

(* A draft that can be opened is on the list, unless a listing had found it  *)
(* expired before it was saved again, and pruned it after (list, save).      *)
ListedWhileAlive ==
  \A d \in AliveDrafts \ index :
    \E r \in Senders : req[r].op = "list" /\ req[r].pc = "ok" /\ d \in req[r].blind

(* What the owner has edited, or committed, is replaced by the result of     *)
(* another recognition only if that one has been paid for because it did not *)
(* see the draft: two uploads of the same photographs at once, or a lookup   *)
(* that failed (createDraft, save).                                          *)
EditsSurvive ==
  [][\A d \in AliveDrafts :
       LET by == draft'[d].items IN
       (/\ draft'[d].status = "READY"
        /\ by # draft[d].items \/ draft[d].status = "COMMITTED"
        /\ req'[by].op = "upload")
       => d \in req[by].blind /\ req[by].charged > 0]_draftVars
=============================================================================

# ssurak-backend in TLA+

ssurak-backend is the server of a QR-code table-ordering service: a guest scans
the code of a table, the devices at the table share a cart and order from it,
and the owner of the store works the orders off and takes the payment. It is a
NestJS application over MySQL (Prisma) and Redis; several instances may run.
This directory holds TLA+ modules of its core, the TLC runs that check them and
the theorems proved about them.

All paths below are relative to `src/ssurak-api/src/` unless they start with
`src/`.

## 1. The system

| Component | State it keeps | Operations | Talks to |
|---|---|---|---|
| Table sessions (`internal/`, `stores/session/`) | `table_session` rows: status, expiry, closedAt, paidAmount | scan, PATCH by customer and owner (ACTIVE, CLOSED, EXTEND_EXPIRES_AT, REACTIVATE, PAYMENT_PENDING) | orders activate sessions and are added up by the payment |
| Cart (`carts/`) | one JSON value per session in Redis, a lock, a record per settled order | add, update, remove, clear, take off what was ordered | checkout |
| Orders (`orders/orders/`) | `order` rows: status, timestamps, number of the day, idempotency key | create by owner or customer, PATCH, cancel | session, cart, business hours, menu |
| Order items (`orders/order-item/`) | `order_item` rows | create, update, delete (the last one cancels the order) | order row lock, session status |
| Option validation (`common/validate/menu/`) | none | evaluate triggers, limits and prices of a selection | called by cart, orders and items |
| Menu, categories, options (`stores/menu/`) | rows with sort order, options with choices and triggers | create, update, delete, reorder under a named database lock | option validation |
| Menu retention (`stores/menu/menu-purge.service.ts`, `storage/`) | soft-deleted menus, images in S3 | delete, restore, nightly purge under a Redis lock | orders keep menus alive |
| Menu drafts (`stores/menu/menu-draft*`) | drafts, failures and a rate counter in Redis | recognise photographs, list, edit, commit to the menu | vision model |
| Business hours (`common/business-hours/`, `stores/business-hours/`) | weekly hours, closures, pause, cutoff | replace, create, update, resolve the open state | order creation |
| Sign-in sessions (`auth/`) | `auth_session` rows (hashed refresh tokens) | sign in, refresh (consume and register), prune | guards, sockets |
| Realtime (`realtime/`) | socket rooms | join, broadcast after a change | all of the above |
| Stores, tables, owners, admins | rows | single-row create, read, update | |

How they interact: a request handler is a chain of `await`s. Each is a round
trip to the database or Redis, and between two of them any other request of any
server instance may run. Handlers share nothing but the two stores. What
protects them from one another is, case by case, a unique key, a status in a
WHERE clause, a row lock, a Redis lock, an advisory database lock, or nothing.

What is hard here: values read before an `await` and used after it
(compare-and-set on status, validation before the lock, session looked at and
later written by its token), the retry loops around unique keys, an order that
spans two databases without a common transaction (create the order, then take
it off the cart), servers that die in between, expiry of sessions, carts and
locks. `PROJECT.json` lists these hazards at their lines.

What makes each component correct:

- Orders: status only forward and never out of CANCELLED; timestamps that tell
  the same story; written once; the numbers of a day consecutive; one order per
  idempotency key; errors only for a reason.
- Order items: no order without items stays open; a closed session's items do
  not change.
- Cart and checkout: no device's change is lost; a version of the cart becomes
  at most one order; what is ordered leaves the cart exactly once, also when
  servers die; success means it has left.
- Sessions: one alive session per table; a closed one stays closed unless
  someone means otherwise; the payment is the sum of the orders.
- Options: a required option can be satisfied; triggers have no cycles.
- Drafts: an owner's budget is neither exceeded nor lost; edits survive.
- Catalogue order: the order asked for last stands; what is new comes last; the
  lock is not left behind.
- Retention: what can be restored, or was ordered, keeps its image; nothing in use
  is purged; everything overdue is, some night.
- Business hours: open exactly when the schedule says so; the times announced are
  right, but for a break at an edge of its window (§5); an edit leaves no window
  across a business day.
- Sign-in: a cookie stops working for a reason only; a bounded number of devices.
- Realtime: whoever shows something old is about to be told.

## 2. The modules

### OrderLifecycle

`orders/orders/orders.service.ts` (updateOrderWithValidation) and
`orders/order-item/orderItem.service.ts`. State: the order rows (status and two
timestamps), the item rows, the session's status, the holder of each order's
row lock, and one record per request with its program counter and what it has
read. One action per round trip:

- a status PATCH, or a cancel: `ReadForStatus` (read and validate),
  `CasSucceeds` or `CasFails` (UPDATE ... WHERE id and status; after P2025 one
  more read, then the conflict);
- create an item: `ReadForAdd`, `InsertItem` (no second look at the order);
- update an item: `ReadForItem`, `EditItem` (by the item's id alone);
- delete an item: `ReadForItem` (validation, before the lock), `LockOrder`
  (SELECT ... FOR UPDATE), `DeleteAndCount` (delete, and a locking count of the
  rows left), `CommitDelete` (cancels the order when none is left) or
  `AbortDelete`.

`CloseSession` and `ReactivateSession` are the other handlers' writes of the
session. A timestamp is the name of the request that wrote it, so that "written
once" can be told from "written again". An UPDATE of a locked row waits, and so
does an INSERT of an item, whose foreign key check takes a shared lock on the
order row.

Left out: orders created with an empty item list by the owner (the schema has no
minimum; there is nothing to delete in them), and the contents of items.

### OrderNumber

`orders/orders/order-number.ts` and createOrderCore. State: the rows of one
store and business date, and the requests. `TakeNumber` is what a transaction
reads (the highest number of its snapshot plus one), `Insert` its commit, and
`Refusals` the unique keys in its way. A refused number is retried up to
`MaxRetry` times; a refused key leads to the order that has it.

### OrderIntake and Checkout

`OrderIntake` is the abstract specification of a checkout: whatever the cart
holds at one version becomes at most one order, which is taken off the cart at
most once, after it exists, from the cart as it is at that moment. It has no
requests, locks or crashes.

`Checkout` is `carts/carts.service.ts` with createOrderByCustomer: the Redis
lock, the read-modify-write of every cart operation under it, the order under a
key made of the cart's updatedAt (`version`), the claim of the deduction
(SET NX) before the deduction. A server may die at any point (`Crash`), its lock
expires, the session may expire at any point. `Checkout` implements
`OrderIntake` (`INSTANCE OrderIntake WITH`): the cart's `lines` and the `orders` are
the specification's own, and `settlements`, a history variable, counts deductions.

Assumptions, all visible in the module's text:

- two writes of the cart never get the same updatedAt (the code has milliseconds);
- a request that is still running does not outlive the three seconds of its lock;
- the lock around the creation of the order is best effort, as its comment says,
  and excludes nothing: the model has none;
- cart and session expire together.

The module names two more, which are about the model and not the code: the
requests are finitely many and fewer than the versions (`VersionsSuffice`), and
no cart is `Null` (`NullIsNoCart`).

### TableSession

`internal/services/session-core.service.ts` with its client, service, guards and
controllers: all sessions of one table, the clock, the sum of each session's
orders, and the requests, each a read and a later write. A lookup for the table
(`FindForTable`) takes any session alive by status; a customer's order
(`FindForOrder`) looks for the session of its cookie; a PATCH (`PatchByCustomer`,
`PatchByOwner`) reads the session and writes it by its token alone. A payment is two steps, as
in the code (`SumOrders`, `CommitPayment`). `split` records that two lookups
overlapped on an empty table or that a closed session came back next to another.

### MenuOptions, OptionSelection, MenuOrdering

`MenuOptions` is `stores/menu/menu-option.service.ts`,
`menu-option-choice.service.ts`, `menu-option.shared.ts` and
`menu-option-trigger.ts`: the options of one menu, their choices and the triggers
between them. A handler is one REPEATABLE READ transaction, and its reads are
all of one snapshot, so that it is a begin (`CreateOption`, `UpdateOption`,
`DeleteOption`, `CreateChoice`, `UpdateChoice`, `DeleteChoice`: the checks, and
the columns and rows to be written, computed from the snapshot) and a `Commit`
that applies these writes to the rows as they are by then. `relies` is what the
transaction's checks depend on, one option or the triggers, and `outdated` what
of that another commit has changed since; they are history and guard nothing.

`OptionSelection` is `common/validate/menu/options.ts`: `Validate` resolves the
options on demand with a cache and a stop at cycles, as the code does. The code's
mutual recursion of `resolve`, `resolveGroup` and `acceptedChoiceIdsOf` is written
as a walk with a stack of calls, so that it can be proved about: a step (`Step`)
goes on with the display, calls `resolve` for an option (`Call`), looks at one more
rule of the call on top (`Look`) or returns from it (`Return`); `visiting` is the
options on the stack. `Work` bounds the steps. `Meant` says what the walk is to
compute (the least set of options whose rules allow each other). `MenuOrdering`
applies it to every menu that `MenuOptions` can reach.

Left out: maxSelect and default choices (an edit refused for them changes
nothing), quantities and prices. The display order is `MenuOrder`'s.

### MenuDraft, DraftItems

`MenuDraft` is `stores/menu/menu-draft.service.ts`, `menu-draft.store.ts` and
`bulkCreateMenus`, for one owner and store. State: the keys that Redis keeps (the
counter of the current window, the drafts, the failures, the index), and the
requests. One action per round trip to Redis, the model or the database:

- an upload: `Upload` (lookup and reuse), `Count` or `CountUnavailable` (INCR and
  EXPIRE NX, against the limit), `Extract` (the model's answer), then `Save` or
  `SaveFails`, `RecordFailure`, or `Refund` (RATE_REFUND_SCRIPT; it names no
  window, and its failure is swallowed);
- `Edit`; `CreateMenus` and `MarkCommitted`; a list: `ReadIndex`, `ReadDrafts`,
  `Prune`.

A key with an expiry may go at any moment (`ExpireCounter`, `ExpireDraft`,
`ExpireFailure`); the index outlives the drafts, because each command that renews
a draft's twelve hours renews the index's (`ExpireIndex`). A server may die at any
point. Opening a draft changes nothing but an expiry and is no action. Which
window counted a request and which one got its refund, and which drafts a request
took for gone that have come up since (`blind`), are history.

`DraftItems` is `menu-draft.mapper.ts` and `resolveBulkCategories` as operators:
what is read from the photographs becomes items with issues (`Drafted`), which are
computed again when a draft is shown (`Recomputed`) and saved (`Revised`), and
whose categories are settled again at the commit (`StoreAfter`, `Assigned`). The
four were written separately and have to agree. Names are values with a key
(`normalizeNameKey`), so that one name can be written in two ways. The items that
are kept (`Kept`) keep the numbers they were read under: of a number nothing but the
order shows. A category that a commit creates has its name for an id, which is no id
that was there before.

Left out: the length of the expiries, the limit of 50 on the list, drafts whose
stored shape is unreadable (treated as expired), descriptions, images.

### MenuOrder

The order of a store's categories, menus, options and choices:
`utils/helper/withReorderLock.ts`, `renumberSortOrder`, `nextSortOrder` and the
handlers of `stores/menu/` that create, move, delete, restore and reorder. State:
the committed rows (list, sortOrder, state), how often each connection of the pool
holds the store's named lock, and the requests. A reorder is `ReorderCategories`
... `ReorderChoices` (a whole list in an order, on a connection), `AcquireLock` or
`LockTimesOut`, `CheckSet`, `Renumber`, `ReleaseLock`, `Commit`; the lock is
re-entrant for its connection and is released before the commit, as in the code.
`Overrun` is the end of the transaction's time, after which the release fails and
the connection keeps the lock until `ConnectionEnds`. A creation or a move reads
the last sortOrder (`ReadsNext`) and writes later (`Insert`, `MoveMenu`), without the
lock. `kept` (the order last asked for) and `overtaken` (placements whose list was
written since they read it) are history.

### MenuRetention

`stores/menu/menu-purge.service.ts`, `storage/`, and the handlers that delete and
restore menus or give them an image: uploads under a temporary prefix, the copy of
each variant to `menu/` (`CopyToMenu`) before the row gets the key
(`WriteImageKey`), soft deletion and restore, and the nightly run in two stages.
Stage 1 reads the overdue menus and moves the variants of their images to the
trash (`CopyToTrash`, `DeleteSource`, `SkipVariant`; then `ForgetKey`), stage 2
deletes the options of the batch and then its menus, by ids (`ReadRows`,
`DeleteOptions`, `DeleteMenus`). A run may crash at any point, lose its Redis lock
without knowing it, or meet an error of S3; the next night another run may be
under way beside it.

### BusinessHours

`common/business-hours/` and `stores/business-hours/`, with the part of
`stores.service.ts` that moves the cutoff. The pure functions are operators under
the code's names (`GetBusinessDate`, `DayPlanFor`, `FindNextOpenAt`, `OpenState`, ...);
the handlers that change hours, closures, cutoff and pause are one action per
query: what they check (`ReceiveHours`, `ReceiveCutoff`, `CheckClosures`,
`ReadClosure`, ...) and what they write, with no lock in between. `OpenSpells` is
the reference definition: the schedule as spells of time, without business days.
`stale` (history) is the set of requests whose checks have been overtaken.

### SignIn

`auth/services/auth.service.ts` and `auth-session.service.ts`, with the guard of
the refresh: the rows of one account, the refresh token in each device's cookies,
and the sign-ins and refreshes, one action per query. The successor is registered
after the old token was consumed, then the account is pruned in three queries
(`DeleteExpired`, `FindOverflow`, `DeleteOverflow`), then the cookie is set, if the
answer arrives. The tabs of a device share its cookies and do not wait for each
other.

### Notifications

`realtime/` with the handlers that change a table's cart or orders. State: which
changes are committed, which sockets are in their rooms, which devices are told and
what they have read. A handler commits, emits (`Emit`, leaving out the socket that
the request names) and answers; a customer's order is announced by the request
that created it only. Sockets break and come back at any point, a console's
subscription waits for the database while its unsubscription does not. The devices
are not in the repository; what is assumed of them is what the events are for: they
read again when they are told, answered, or have come into a room.

## 3. The runs

| Run | Instance | What it shows |
|---|---|---|
| `OrderLifecycle.cfg` | 1 order, 2 items, 3 requests, fairness | timestamps match the status; an emptied order is cancelled; a conflict means overtaken twice; status only forward; timestamps once; every request is answered |
| `OrderNumber.cfg` | 4 requests, 2 keys, 2 retries | consecutive numbers; one order per key; a number conflict only after losing every attempt |
| `Checkout.cfg` | 3 requests, 3 lines, 2 fingerprints | no lost update; success means settled; implements `OrderIntake` |
| `Checkout_twice.cfg` | 3 requests, 2 lines | violation: the same items ordered twice |
| `TableSession.cfg` | 3 sessions, 4 requests, clock to 3 | a session with orders is not waiting; a closed session changes only for cause; two alive sessions only after an overlap |
| `MenuOptions.cfg` | 2 options with 2 and 1 choices, 2 requests | which commits can break settings and triggers; validation is as meant on every menu, broken ones included; a menu with sound settings can be ordered |
| `MenuDraft.cfg` | 1 draft id, 4 requests, 2 calls per window; up to 3 items, 6 lists of categories | the counter is what the owner was told; a window pays for no more than its limit plus the late refunds; a live draft is listed; edits are replaced only by an upload under way; a draft can be saved and committed as shown |
| `BusinessHours.cfg` | 2 handlers, 5 weeks, 3 closures, 2 cutoffs, 6 instants | open as scheduled; the announced times hold, except at a break on an edge of its window; only an overtaken check lets a window leave its business day |
| `MenuOrder.cfg` | 2 catalogues, 3 requests, 2 connections | the order committed last stands; what is created or moved comes last unless overtaken; the lock is left only by a transaction that used up its work budget |
| `MenuRetention.cfg` | 2 menus, 1 upload of 2 variants, 2 requests, 2 purging servers, 1 fault, fairness | images stand; nothing is lost; only overdue rows leave; what is overdue is purged |
| `SignIn.cfg` | 2 devices, 3 requests, limit 2 | sessions are bounded; a cookie works; a session is lost for a cause only |
| `Notifications.cfg` | 2 customers, 1 console, 2 requests, 1 key | everyone is told; rooms are as wanted |

The bounds. Orders are independent of one another but for the session they
share, so one order is enough for `OrderLifecycle`; two items give "the last
but one and the last", and three requests are what it takes to overtake a status
update twice. `OrderNumber` runs with MaxRetry 2 (3 in the code), which four
requests can exhaust; 5 requests with the code's 3 pass as well, in minutes
instead of seconds, and the theorems hold for every value. Three requests at a
cart are an order, its duplicate and an edit between them; every request writes
the cart at most once, so that the bound on versions is never met. In
`TableSession` the lifetimes are 1 and 2 ticks, an extension 1, and the clock
runs past both. In `MenuOptions` two options are enough for a cycle, two choices
for "the last but one", and two requests for any overlap, since requests are
used again and again; an update names its settings, or minSelect, or a trigger
of at most one rule, and one option's choices are hidden and the other's sold
out. `StillSound` (a CONSTRAINT) keeps TLC from going on from a menu that a stale
commit has broken. That menu itself is checked, and the two action properties
speak of steps from sound menus only, so that nothing they say is lost. A menu
ends when all its options are deleted. In `MenuDraft` a refund that misses its
window needs one upload of the window before and two or three of the next, which
is what four requests and a limit of 2 give (with a limit of 1 the late refund
ends the window). One draft id is enough: drafts share the budget and the index,
and nothing of one depends on another. `SavedAsShown` and `CommittedAsShown`
(`DraftItems`) speak of what a draft may hold, over two ways to write one name,
a name that is too long and is cut to the first, every kind of price, and stores
before and after a change of their categories.

`BusinessHours` has weeks that go past midnight with a break, a short day, the
whole day, a break that ends at the close, one that begins at the opening, and
closures that shift or close one date; the instants are on both sides of midnight
and of either cutoff, within the break that ends at the close and after it, with
the break that begins at the opening next, and the search is the code's 14 days.
Without its exception `BreakAtEdge`, `AnnouncedTimesHold` fails there. Two handlers are enough to overtake a check.
`MenuOrder` begins with two categories between which menus move, or one menu with
an option and a choice; three requests are two reorders and a move between them;
the lock is waited for one tick and worked under for two. `MenuRetention` begins
the day after one menu was deleted, with the upload shared by another or not, or
with an image key of another form; one fault is enough since the run after it
begins anew; one menu per batch makes a second batch necessary. In `SignIn` the
limit is 2 (5 in the code) and the account begins full, so that every sign-in
crowds one out; three requests are one whose pruning is stale and two that make it
so. In `Notifications` two requests with one key are the order and its double tap,
and a socket may break and come back any number of times.

A module's `TypeOK` (`RetentionTypeOK`, `DraftTypeOK`, `NotifyTypeOK`) is not among
the runs' properties: it is proved of every module that has variables, but for
`OrderIntake`, whose state is part of `Checkout`'s, and `MenuOrdering`, which adds
none to `MenuOptions`.

Deadlock: every request runs once, so that every behaviour of these models ends.
`CHECK_DEADLOCK FALSE` is for that; that no request is stuck is
`EveryRequestAnswered` of `OrderLifecycle`. `MenuRetention` never ends and is
checked for deadlock.

Fairness: `FairSpec` of `OrderLifecycle` gives every started request weak
fairness of its own steps: the event loop resumes a handler whose reply has
arrived, and InnoDB grants a row lock to the one who waits longest. Clients and
owners owe nothing, and a request need not start. `RetentionSpec` has
weak fairness of `StartRun`, `PurgeStep` and `LockExpires`: the job is scheduled
every night, a server that is not dead goes on with its run, and a Redis key that
is not renewed expires. The owner, the clock, crashes and failures owe nothing.
The other runs are of safety properties.

Symmetry is used for requests, lines, fingerprints, keys, sessions, connections and
customers, in runs without liveness only.

## 4. What is proved

The theorems hold for every value of the constants, from the named assumptions
of their modules only.

| Module | Theorems of |
|---|---|
| `OrderLifecycleProofs` | `OrderLifecycle` |
| `OrderNumberProofs` | `OrderNumber` |
| `CheckoutProofs` | `Checkout`, and that it implements `OrderIntake` |
| `TableSessionProofs` | `TableSession`; `Notifications`, the screens of the same table |
| `MenuOptionsProofs` | `MenuOptions`; `MenuRetention`, the end of the same rows; `MenuOrdering` and `OptionSelection`, the orders from them |
| `MenuOrderProofs` | `MenuOrder`; `MenuDraft` and `DraftItems`, where menus of the catalogue come from |
| `BusinessHoursProofs` | `BusinessHours` |
| `SignInProofs` | `SignIn` |

Three of them hold the theorems of two components that share no state (and
`MenuOptionsProofs` those of a third, which only reads the first); the second
module's definitions have names of their own (`NotifySpec`, `RetentionSpec`,
`DraftSpec`). In each part an inductive invariant (`IInv`, `NotifyIInv`,
`RetentionIInv`, `DraftIInv`) is kept by every step, one lemma per action or group
of actions, and implies what is claimed.

The assumptions are about what the constants may be: sets of requests are finite
where they are counted, and so are the rows of a menu's options and choices, the null values are in none of the sets they are told
apart from, limits and lifetimes are positive, the stored states that a run may
begin with are well formed (in `SignIn`, the rows of a stock have distinct ids; in
`DraftItems`, the categories of a store have distinct publicIds), and an update's
`Keep` is none of the values a setting can have.

`OrderLifecycle`: type correctness, `StampsMatchStatus`,
`EmptiedOrderIsCancelled`, `GaveUpAfterTwoOvertakes`, `StatusForwardOnly`,
`StampedOnce`. None is inductive alone. The invariant `IInv` adds

- `Targets`: a request that is to write has an order, and an item where its
  operation needs one;
- `Validated`: what a status request has read was validated, its timestamps
  match the status it read, and as long as the order has that status, the order
  has those timestamps. This is why a compare-and-set on the status alone is
  enough: with the status unchanged nothing else of the row has changed;
- `Overtaken`: the statuses at the first read, at the second and now are in
  rank order, strictly after a failed compare-and-set;
- `LockHeld`: a transaction past its lock is the one the row names, so that two
  never are;
- `Counted`: what a transaction counted under the lock is still true when it
  commits, since every insertion and deletion waits for the lock.

`OrderNumber`: type correctness, `NumbersAreConsecutive`, `OneOrderPerKey`,
`ConflictAfterLosingAll`. The invariant adds that a number taken is at most one
above the highest there is (so that a refused insert is what keeps the numbers
consecutive) and that each attempt a request has lost was lost to an order that
was not there before (which bounds the orders from below).

`MenuOptions`: type correctness and `FreshCommitsKeepTriggers`, for any finite
set of choices and any options and requests; no bound of the payloads is used.
The invariant adds

- `OnlyLiveHaveTriggers`, `OnlyLiveHaveChoices`: rows that are gone or not there
  yet have neither, so that pruning the options that are live prunes them all;
- `OneMaker`: no option is being created twice;
- `Fits`: a transaction in flight that does not rely on the triggers writes
  nothing that could break one (`Harmless`), and one that does, as long as
  nothing of them is outdated, is about to write what its checks would still
  accept (`Safe`): a trigger that is valid and closes no cycle, or exactly the
  pruning that the rows of now ask for.

The action property then has one case per kind of write. The cycle that a new
trigger would close is turned into one that `ReachesCycle` would have found: its
intersection with what can be reached from the changed option.

`BusinessHours`: type correctness, `OpenAsScheduled` and `FreshEditsFit`, for any
schedule, offset, cutoff and instant. The first is arithmetic: the business date and
its minute are the time itself (`BusinessClock`), a window that fits can contain
the present only if its date is the business date, and then the comparison of
minutes is the comparison of times. The second needs the invariant `ChecksHold`:
what a request that is not stale has checked is still true of what is stored.

`MenuOrder`: type correctness, `OrderKept`, `AppendedLast` and
`LockLeftOnlyByOverrun`, for any catalogue, requests and connections. The
invariant adds that at most one connection has the lock and how often
(`LockInv`), that two reorders that have written and not committed name no row
in common (the later one waits for the rows), that one past its check names no
row whose place in another list was asked for, and that what two of them share
is still in the list of the later (`OrderInv`), and that what a placement has
read is still the last of its list unless it was overtaken (`ReadHolds`).

`SignIn`: type correctness, `CookieWorks` and `LostForCause`, for any devices,
requests and limit. The invariant adds that what a pruning is about to delete has
been crowded out even if it was read long ago (`CrowdInv`), that a token is in the
cookies of one device only and with nobody before its request is done (`OwnInv`),
and that what is registered and not yet answered is still there (`FreshInv`).

`SessionsBounded` needs more (`BoundInv`): there is an id up to which at most
`MaxActive` rows are left and above which every row belongs to a request that has
not pruned yet (`TrimInv`). A pruning that has read its overflow long ago still
leaves no more than `MaxActive` of the rows it read (`ReadInv`), since rows are only
added with greater ids.

`BusinessHours` also has `AnnouncedTimesHold`: the minutes that `findNextOpenAt`
goes through are exactly where the spells of a day begin, each a spell that is not
empty (`BeginsOpen`) or one that a break at an edge of the window has taken
(`BreakAtEdge`); the days it searches have a first, and of that day's openings
ahead the least is the one announced; the close announced is the end of the spell
that holds now.

`MenuOptions` also has `FreshCommitsKeepSettings`. The part of the invariant for it
is `FitsSettings`: as long as its option is not outdated, what a transaction writes
leaves the option sound if it is sound now (`KeepsSettings`: the correction of
`minSelect` is right for the choices that the commit leaves), and a creation is
sound by itself. What an update that only adds choices, or another option's
commit, may have changed meanwhile is part of the cases.

`MenuOrdering`: `ValidationIsAsMeant` and `SoundMenuCanBeOrdered`, on every menu that
`MenuOptions` can reach, for any finite sets of options and choices, any display and
any selection. Most of it is about `OptionSelection` alone, for any menu whose
options and rules are finitely many (`MenuOK`; `MenuAsIsOK` says that every reachable
menu is):

- the walk is a function that exists and goes on by `Step` (`WalkSteps`, from
  `PrefixesExist` and `PrefixesAgree`; these and the next are inductions over the
  number of steps, by the least counterexample, `LeastNumber`);
- `Shown` is closed under the rules, the least such set, and has nothing that waits
  for itself (`ShownFacts`, `ShownIsLeast`);
- every step keeps `WalkOK`: what is decided is as `Shown` means it (`Decided`), the
  options on the stack are different, undecided and each waits for the next, and the
  rules they are done with are satisfied (`Calling`). So an option that is stopped at
  is part of a set that waits for itself, and "not satisfied" is right for it and for
  all that ask later: this is why the cache may keep what was found during a cycle;
- every step leaves less to do (`GetsOn`), so that the walk has ended after as many
  steps as `Work` has members (`WalkKeeps`, `WalkEnds`) and agrees with `Meant`
  (`WalkAgrees`).

A menu with sound settings is ordered by picking whatever is available of the
options that are shown if everything available is picked; the options shown are the
same for that selection (`TypesCanBeOrdered`). `DisplayIsIrrelevant` follows: the
answer is the same for every order of the options.

`Checkout`: type correctness, `NoLostUpdate`, `SuccessMeansSettled`, and that every
behaviour implements `OrderIntake` (`RefinesIntake`). The invariant adds

- `LockInv`: a request between its lock and its release holds the cart's lock, so
  that no two do; `NoLostUpdate` then says that its copy of the cart is the cart;
- `CartInv`, `CountInv`: the cart's version is the last given at the most, a cart
  that is gone is empty, and a write belongs to a request that is at its end,
  which is why the bound on versions is never met;
- `VersionInv`: a version stands for one content, that of the cart now, of each
  order being placed from it and of the order that was placed. This is what makes
  the cart's updatedAt fit for an idempotency key;
- `ClaimInv`: a deduction that was claimed was made, once, or has a claimant that
  is about to make it or has died;
- `AnswerInv`: whoever is told "ok" is settled from the moment it is decided.

The refinement maps `CreateOrder` to the abstract placement (or to no step, when
the order is there), the write of an order's deduction to the abstract settlement,
writes of the other operations to the abstract change of the cart, the end of
the session to the abstract end, and every other step to none.

`TableSession`: type correctness, `OrderedIsNotWaiting`, `SplitNeedsOverlap` and
`ClosedChangesHaveCause`. The invariant adds that a request that is about to write
has a row that is there, which was alive when it read it unless it is the owner's,
and which has left WAITING_ORDER for good if it had when it was read
(`GroundedInv`: no row goes back to it), that orders are of sessions that are there
(`BillInv`), and that as long as nothing has split the table, one session is alive,
one is being created, and only the one found expired is alive beside it (`SoloInv`).

`Notifications`: type correctness, `EveryoneIsTold` and `RoomsAsWanted`. The
invariant adds what rooms and subscriptions under way say about the last wish
(`RoomsInv`), that changes are of requests that have been sent and an order's
creator has its key, and has not settled a cart that is not claimed (`SentInv`), and
that the event to come is for the changes its request has made (`EventInv`).

`MenuRetention`: type correctness, `NothingLost`, `ImagesStand` and
`OnlyOverdueLeave`. The invariant adds

- `RunsInv`: whatever a run has read, the menus it goes by have been overdue since
  and cannot come back (`Past`), and those whose images it trashes were not ordered
  (`Discarded`), unless they were deleted twice. A run is never required to hold
  its lock for this, which is why two at once do no harm;
- `TrashedInv`: uploads were trashed for such menus only;
- `PromotedInv`, `OnSaleInv`: what a request has copied, and what a menu shows,
  stands in the bucket or was trashed for another menu with the same upload;
- `OrderingInv`, `OptionsInv`: an order is placed on the day its menu was read as
  live; options are of menus that are there.

`MenuDraft`: type correctness, `CounterAccounts`, `BudgetKept`, `ListedWhileAlive` and
`EditsSurvive`. The invariant adds that windows are numbered as they are opened
(`WindowsInv`), that nobody has been counted before the count or refunded before the
refund, and that whoever takes a draft for gone that is there is blind to it
(`RequestsInv`). The steps of the counter are then steps of cardinalities: a count
adds its request to those of the window, a refund moves one to those that went for
nothing or to the late ones of the current window.

`DraftItems`: `SavedAsShown` and `CommittedAsShown`, for every text that may be read and
all stores, then and now. They need no invariant of the drafts' life, but facts
about lists of any length. What `ByName` and `ById` find is the last place of its
kind (`ByNameFinds`, `ByIdFinds`). Whatever `toMenuDraft` has made, a category is
settled for the store it is shown in (`StoredSettles`): one of the store's, or a name
that none of them has. A settled category is what `resolveEditedCategory` makes of
the payload that names it (`EditedKeeps`), and the open issues depend on nothing that
saving changes. At the commit, the items whose name is the first of its kind are
listed once each (`ListsAll`), so that the store has as many categories more
(`AfterCommit`); every item with a new category has such a first one before it
(`FirstIsThere`), and no two of them have one key, so that each is found by its name.

Each invariant of a specification was checked by TLC before it was proved; `WalkOK`,
which is about the states inside one walk, was checked through what it is for,
`ValidationIsAsMeant`. Only model-checked are `EveryRequestAnswered` and
`OverdueIsPurged`, since liveness is beyond the prover, and `Checkout_twice.cfg`, which
has a counterexample.

## 5. Disagreements and remarks

One run is expected to find a violation, and `PROJECT.json` quotes the comment it
disagrees with: the same items can be ordered twice, from two versions of one cart
(`Checkout_twice.cfg`).

Met while modelling, and visible in the modules as history variables or
exceptions of a property:

- an item of an order is written by its id, so that it can change after its session
  was closed;
- two first scans of a table, or a reactivation, leave it with two alive sessions
  (`split`); the sum of a payment does not count an order that commits before the
  close;
- a line whose options changed while it was being ordered leaves the cart with the
  order; two updates of triggers at once can close a cycle (`outdated`);
- two extensions of a session at once add one hour, and the cart's expiry is not
  renewed with the session's;
- `nextOpenAt` is documented as the time at which business next begins
  (`businessHour.interface.ts:68`, `businessHour.response.ts:56`), and is not that
  when a break, as `businessHourDaySchema` lets it, begins at the opening or ends at
  the close: `findNextOpenAt` (`store-open-state.ts:140-147`) announces the opening
  or the end of the break, and the store stays closed then, until the break is over
  or until another day. `AnnouncedTimesHold` names this exception (`BreakAtEdge`)
  and allows no other;
- a menu deleted a second time when it is already overdue becomes restorable again,
  while a run that has read it goes on (`revived`); two menus may get one upload,
  and purging one takes the other's image (`trashedFor`);
- a refresh whose answer is lost, or that fails in updateLastSignIn, leaves a row
  that nobody has the token of and that takes one of the account's places; the
  cookie is cleared without the domain it is set with, which browsers match for
  host-only cookies only (the model clears it);
- adding an item to an order is never announced, and neither is an order whose
  request fails with CART_LOCK_FAILED or dies after the commit, since its retry is
  not the one that created it (`Announcer`);
- an unsubscription that is handled while an earlier subscription waits leaves the
  console in the room (`overtaken`).

## 6. Not modelled

- Of the components modelled: a running holder that outlives the cart lock's three
  seconds, two writes of a cart within one millisecond, quantities, maxSelect and
  prices of options, daylight saving and a change of the time zone, the length of
  the drafts' expiries and the 50 of their list, the Redis adapter of the sockets
  and subscriptions that are refused or fail, failures of S3 other than the purge's,
  and the sortOrders of menus created in bulk (`bulkCreateMenus`). The two variants
  of an image are copied and moved call by call in any interleaving, but when one of
  them fails the calls of the other, which `Promise.all` lets go on, end with it.
- Stores, tables, owners and admins: single-row creation, read and update, without
  interaction between requests.
- HTTP layer, DTOs, API docs, exception filter: no state of their own. What the guards
  and schemas let through is the input of the actions.
- Image conversion, the vision model's prompt: pure I/O.
- Schema, migrations and seeds: declarations; the columns, enums and unique keys
  appear as the types of the modules' variables.

## 7. Plan

What would come next, in this order:

1. Composition of `Checkout` with the expiry of `TableSession`, for the lifetime
   of the cart, and with `Notifications`, for the settling of one cart.
2. A specification of what a table's session promises (one alive at a time, paid
   once), which `TableSession` implements as long as nothing splits the table.

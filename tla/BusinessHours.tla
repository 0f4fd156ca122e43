---------------------------- MODULE BusinessHours ----------------------------
(***************************************************************************)
(* The opening hours of one store: the weekly hours, the closures of       *)
(* single dates, the pause, and the boundary of the business day           *)
(* (businessDayCutoff), with the owner's handlers that change them and the *)
(* functions that decide from them whether the store takes orders.         *)
(*                                                                         *)
(* Times are minutes of UTC, dates are numbers of days, and Offset is what *)
(* the store's wall clock is ahead of UTC.  A minute of a business day is  *)
(* counted from the midnight of its date and may exceed a day (a close at  *)
(* 26:00 is 1560).  A column that may be null is a set of at most one      *)
(* element.                                                                *)
(*                                                                         *)
(* A handler reads the store, then what else it checks, and writes: one    *)
(* action per query.                                                       *)
(***************************************************************************)
EXTENDS Integers

CONSTANTS
    Requests,        \* the owner's handlers under way
    HoursPayloads,   \* weekly hours that are sent
    ClosurePayloads, \* values [open, close] of a closure that are sent
    Dates,           \* dates that get a closure
    Cutoffs,         \* values of businessDayCutoff that are sent
    Instants,        \* the times at which the store is looked at
    Offset,          \* minutes that the store's clock is ahead of UTC
    SearchDays       \* NEXT_OPEN_SEARCH_DAYS

MinutesPerDay == 1440

Minutes == 0 .. 2 * MinutesPerDay

Weekdays == 0 .. 6

Nullable(v, S) == v \subseteq S /\ \A x, y \in v : x = y

Break == [start : Minutes, end : Minutes]

IsHourRow(row) ==
    /\ row = [isClosed |-> row.isClosed, open |-> row.open, close |-> row.close,
              break |-> row.break]
    /\ row.isClosed \in BOOLEAN /\ row.open \in Minutes /\ row.close \in Minutes
    /\ Nullable(row.break, Break)

IsWeeklyHours(hrs) ==
    /\ hrs = [d \in DOMAIN hrs |-> hrs[d]]
    /\ DOMAIN hrs \subseteq Weekdays
    /\ \A d \in DOMAIN hrs : IsHourRow(hrs[d])

IsClosureRow(row) ==
    /\ row = [open |-> row.open, close |-> row.close]
    /\ Nullable(row.open, Minutes) /\ Nullable(row.close, Minutes)

IsClosureBook(book) ==
    /\ book = [d \in DOMAIN book |-> book[d]]
    /\ DOMAIN book \subseteq Dates
    /\ \A d \in DOMAIN book : IsClosureRow(book[d])

-----------------------------------------------------------------------------
\* What the request schemas let through.

\* businessHourDaySchema: the times of a closed weekday are not looked at.
ValidDay(row) ==
    \/ row.isClosed
    \/ /\ row.open < row.close
       /\ \A b \in row.break :
             b.start < b.end /\ row.open <= b.start /\ b.end <= row.close

ValidHours(days) == \A d \in DOMAIN days : ValidDay(days[d])

\* Both minutes or neither, and in order: createClosurePayloadSchema, and the
\* checks of partialUpdateClosure on what the row would be.
ValidClosure(row) ==
    /\ (row.open = {}) <=> (row.close = {})
    /\ \A o \in row.open, c \in row.close : o < c

ASSUME ScheduleAssumption ==
    /\ \A hrs \in HoursPayloads : IsWeeklyHours(hrs)
    /\ \A row \in ClosurePayloads : IsClosureRow(row)
    /\ Dates \subseteq Int
    /\ Cutoffs \subseteq 0 .. 720
    /\ Instants \subseteq Int
    /\ Offset \in Int
    /\ SearchDays \in Nat

-----------------------------------------------------------------------------
\* Mutated forms of definitions below.
FromMidnight(t, cutoff) == (t + Offset) % MinutesPerDay
OpeningsOnly(plan, cutoff) ==
    IF plan.kind = "window" THEN {plan.open}
    ELSE IF plan.kind = "always" THEN {cutoff} ELSE {}
OnlyInOrder(cutoff, row) == ValidClosure(row)

-----------------------------------------------------------------------------
\* business-day.ts

ZonedDate(t) == (t + Offset) \div MinutesPerDay

ZonedMinute(t) == (t + Offset) % MinutesPerDay

DayOfWeekOf(date) == date % 7

\* Before the cutoff it is still the day before.
GetBusinessDate(t, cutoff) ==
    IF ZonedMinute(t) >= cutoff THEN ZonedDate(t) ELSE ZonedDate(t) - 1

MinutesFromBusinessDayStart(t, cutoff) ==
    IF ZonedMinute(t) >= cutoff THEN ZonedMinute(t)
                                ELSE ZonedMinute(t) + MinutesPerDay

BusinessDateMinuteToDate(date, minute) == date * MinutesPerDay + minute - Offset

-----------------------------------------------------------------------------
\* store-open-state.ts

AlwaysOpen == [kind |-> "always"]

ClosedFor(why) == [kind |-> "closed", reason |-> why]

WindowOf(o, c, b) == [kind |-> "window", open |-> o, close |-> c, break |-> b]

\* A closure goes before the weekly hours; a store without any hours is always
\* open; a weekday left out of the hours is closed.
DayPlanFor(date, hrs, cls) ==
    IF date \in DOMAIN cls
    THEN IF cls[date].open = {} \/ cls[date].close = {}
         THEN ClosedFor("HOLIDAY")
         ELSE WindowOf(CHOOSE o \in cls[date].open : TRUE,
                       CHOOSE c \in cls[date].close : TRUE, {})
    ELSE IF DOMAIN hrs = {}
    THEN AlwaysOpen
    ELSE LET day == DayOfWeekOf(date)
         IN  IF day \notin DOMAIN hrs \/ hrs[day].isClosed
             THEN ClosedFor("CLOSED_DAY")
             ELSE WindowOf(hrs[day].open, hrs[day].close, hrs[day].break)

IsInBreak(window, minute) ==
    \E b \in window.break : b.start <= minute /\ minute < b.end

\* The minutes of a day at which a store may open.
Openings(plan, cutoff) ==
    CASE plan.kind = "closed" -> {}
      [] plan.kind = "always" -> {cutoff}
      [] plan.kind = "window" -> {plan.open} \cup {b.end : b \in plan.break}

\* The first opening after t, on the first day that has one.
FindNextOpenAt(t, date, cutoff, hrs, cls) ==
    LET After(d) ==
            {at \in {BusinessDateMinuteToDate(d, m) :
                        m \in Openings(DayPlanFor(d, hrs, cls), cutoff)} : at > t}
        days == {d \in date .. date + SearchDays : After(d) # {}}
    IN  IF days = {} THEN {}
        ELSE LET first == CHOOSE d \in days : \A e \in days : d <= e
             IN  {at \in After(first) : \A other \in After(first) : at <= other}

\* resolveStoreOpenState, with the reads of StoreOpenStateService.
OpenState(t, cutoff, paused, hrs, cls) ==
    LET date == GetBusinessDate(t, cutoff)
        plan == DayPlanFor(date, hrs, cls)
        minute == MinutesFromBusinessDayStart(t, cutoff)
        Closed(why, next) ==
            [isOpen |-> FALSE, reason |-> why, businessDate |-> date,
             nextOpenAt |-> next, closesAt |-> {}]
        Open(closes) ==
            [isOpen |-> TRUE, reason |-> "OPEN", businessDate |-> date,
             nextOpenAt |-> {}, closesAt |-> closes]
        next == FindNextOpenAt(t, date, cutoff, hrs, cls)
    IN  CASE paused -> Closed("MANUALLY_CLOSED", {})
          [] ~paused /\ plan.kind = "always" -> Open({})
          [] ~paused /\ plan.kind = "closed" -> Closed(plan.reason, next)
          [] ~paused /\ plan.kind = "window" ->
                IF minute < plan.open THEN Closed("BEFORE_OPEN", next)
                ELSE IF minute >= plan.close THEN Closed("AFTER_CLOSE", next)
                ELSE IF IsInBreak(plan, minute) THEN Closed("BREAK_TIME", next)
                ELSE Open({BusinessDateMinuteToDate(date, plan.close)})

-----------------------------------------------------------------------------
\* The checks against the boundary of the business day.

WithinBusinessDay(cutoff, open, close) ==
    cutoff <= open /\ close <= cutoff + MinutesPerDay

HoursFit(cutoff, hrs) ==
    \A d \in DOMAIN hrs :
        hrs[d].isClosed \/ WithinBusinessDay(cutoff, hrs[d].open, hrs[d].close)

ClosureFits(cutoff, row) ==
    \A o \in row.open, c \in row.close : WithinBusinessDay(cutoff, o, c)

ClosuresFit(cutoff, cls, from) ==
    \A d \in DOMAIN cls : d >= from => ClosureFits(cutoff, cls[d])

-----------------------------------------------------------------------------
VARIABLES
    store,     \* its cutoff and whether it is paused
    hours,     \* store_business_hour rows by weekday
    closures,  \* store_closure rows by date
    now,
    reqs,
    stale      \* history: the requests whose checks have been overtaken

vars == <<store, hours, closures, now, reqs, stale>>

Idle == [pc |-> "idle"]

NoRows == [d \in {} |-> {}]

\* A store without hours, or with some it has been sent.
Init ==
    /\ store \in [cutoff : Cutoffs, paused : {FALSE}]
    /\ hours \in HoursPayloads \cup {NoRows}
    /\ ValidHours(hours) /\ HoursFit(store.cutoff, hours)
    /\ closures = NoRows
    /\ now \in Instants
    /\ reqs = [r \in Requests |-> Idle]
    /\ stale = {}

Reads(r) == /\ reqs[r].pc = "idle"
            /\ stale' = stale \ {r}
            /\ UNCHANGED <<store, hours, closures, now>>

\* assertStoreBelongsToOwner of each handler reads the cutoff that the payload
\* is then checked against.
Received(r, op, payload) ==
    reqs' = [reqs EXCEPT ![r] = [pc |-> "checked", op |-> op, payload |-> payload]]

ReceiveHours(r) ==
    /\ Reads(r)
    /\ \E days \in HoursPayloads :
        /\ ValidHours(days)
        /\ HoursFit(store.cutoff, days)
        /\ Received(r, "hours", days)

ReceiveClosure(r) ==
    /\ Reads(r)
    /\ \E date \in Dates, row \in ClosurePayloads :
        /\ ValidClosure(row)
        /\ ClosureFits(store.cutoff, row)
        /\ Received(r, "create", [date |-> date, row |-> row])

\* A patch and a deletion name a closure that is there when they are sent.
ReceivePatch(r) ==
    /\ Reads(r)
    /\ \E date \in DOMAIN closures, row \in ClosurePayloads,
          fields \in SUBSET {"open", "close"} :
        reqs' = [reqs EXCEPT ![r] =
            [pc |-> "storeRead", op |-> "update", cutoff |-> store.cutoff,
             payload |-> [date |-> date, patch |-> [f \in fields |-> row[f]]]]]

ReceiveDelete(r) ==
    /\ Reads(r)
    /\ \E date \in DOMAIN closures :
        Received(r, "delete", [date |-> date])

\* A PATCH of the store that moves the cutoff looks at the hours first.
ReceiveCutoff(r) ==
    /\ Reads(r)
    /\ \E c \in Cutoffs :
        /\ HoursFit(c, hours)
        /\ reqs' = [reqs EXCEPT ![r] = [pc |-> "hoursChecked", op |-> "cutoff",
                                        payload |-> c]]

\* Then at the closures from today on, today being that of the new cutoff.
CheckClosures(r) ==
    LET c == reqs[r].payload
    IN  /\ reqs[r].pc = "hoursChecked"
        /\ reqs' = [reqs EXCEPT ![r] =
               IF ClosuresFit(c, closures, GetBusinessDate(now, c))
               THEN [pc |-> "checked", op |-> "cutoff", payload |-> c]
               ELSE Idle]
        /\ UNCHANGED <<store, hours, closures, now, stale>>

\* partialUpdateClosure reads the row, and checks what it would become.
MayBecome(cutoff, row) == ValidClosure(row) /\ ClosureFits(cutoff, row)

ReadClosure(r) ==
    LET q == reqs[r]
        date == q.payload.date
        patch == q.payload.patch
        new == [f \in {"open", "close"} |->
                   IF f \in DOMAIN patch THEN patch[f] ELSE closures[date][f]]
    IN  /\ q.pc = "storeRead"
        /\ reqs' = [reqs EXCEPT ![r] =
               IF MayBecome(q.cutoff, new)
               THEN [pc |-> "checked", op |-> "update",
                     payload |-> [date |-> date, row |-> new]]
               ELSE Idle]
        /\ UNCHANGED <<store, hours, closures, now, stale>>

Ends(r) == reqs' = [reqs EXCEPT ![r] = Idle]

\* r ends, and the others of these operations had relied on what it changed.
Overtakes(r, ops) ==
    /\ Ends(r)
    /\ stale' = (stale \ {r})
                 \cup {q \in Requests \ {r} : reqs[q].pc # "idle" /\ reqs[q].op \in ops}

Commits(r, op) == reqs[r].pc = "checked" /\ reqs[r].op = op

ReplaceBusinessHours(r) ==
    /\ Commits(r, "hours")
    /\ hours' = reqs[r].payload
    /\ Overtakes(r, {"cutoff"})
    /\ UNCHANGED <<store, closures, now>>

\* A second closure of a date is a conflict.
CreateClosure(r) ==
    LET new == reqs[r].payload
    IN  /\ Commits(r, "create")
        /\ \/ /\ new.date \notin DOMAIN closures
              /\ closures' = [d \in DOMAIN closures \cup {new.date} |->
                                 IF d = new.date THEN new.row ELSE closures[d]]
              /\ Overtakes(r, {"cutoff"})
           \/ /\ new.date \in DOMAIN closures
              /\ Ends(r)
              /\ UNCHANGED <<closures, stale>>
        /\ UNCHANGED <<store, hours, now>>

PartialUpdateClosure(r) ==
    /\ Commits(r, "update")
    /\ closures' = [closures EXCEPT ![reqs[r].payload.date] = reqs[r].payload.row]
    /\ Overtakes(r, {"cutoff"})
    /\ UNCHANGED <<store, hours, now>>

\* The others that name the row find none, whatever the date gets next.
Names(q, date) ==
    /\ q.pc # "idle"
    /\ q.op \in {"update", "delete"}
    /\ q.payload.date = date

DeleteClosure(r) ==
    LET date == reqs[r].payload.date
    IN  /\ Commits(r, "delete")
        /\ closures' = [d \in DOMAIN closures \ {date} |-> closures[d]]
        /\ reqs' = [q \in Requests |-> IF Names(reqs[q], date) THEN Idle ELSE reqs[q]]
        /\ stale' = {q \in stale : ~Names(reqs[q], date)}
        /\ UNCHANGED <<store, hours, now>>

MoveCutoff(r) ==
    /\ Commits(r, "cutoff")
    /\ store' = [store EXCEPT !.cutoff = reqs[r].payload]
    /\ Overtakes(r, {"hours", "create", "update"})
    /\ UNCHANGED <<hours, closures, now>>

\* The pause is no part of any check.
SetPaused ==
    /\ store' = [store EXCEPT !.paused = ~store.paused]
    /\ UNCHANGED <<hours, closures, now, reqs, stale>>

Tick ==
    /\ \E t \in Instants : t > now /\ now' = t
    /\ UNCHANGED <<store, hours, closures, reqs, stale>>

Step(r) ==
    \/ ReceiveHours(r) \/ ReceiveClosure(r) \/ ReceivePatch(r)
    \/ ReceiveDelete(r) \/ ReceiveCutoff(r)
    \/ CheckClosures(r) \/ ReadClosure(r)
    \/ ReplaceBusinessHours(r) \/ CreateClosure(r) \/ PartialUpdateClosure(r)
    \/ DeleteClosure(r) \/ MoveCutoff(r)

Next == SetPaused \/ Tick \/ \E r \in Requests : Step(r)

Spec == Init /\ [][Next]_vars

-----------------------------------------------------------------------------
IsRequest(q) ==
    q.pc # "idle" =>
      /\ q.pc \in {"storeRead", "hoursChecked", "checked"}
      /\ q.pc = "storeRead" => q.op = "update"
      /\ q.pc = "hoursChecked" => q.op = "cutoff"
      /\ CASE q.op = "hours" -> IsWeeklyHours(q.payload) /\ ValidHours(q.payload)
           [] q.op = "create" ->
                /\ q.payload.date \in Dates
                /\ IsClosureRow(q.payload.row) /\ ValidClosure(q.payload.row)
           [] q.op = "update" ->
                /\ q.payload.date \in DOMAIN closures
                /\ q.pc = "storeRead" =>
                     /\ q.cutoff \in Cutoffs
                     /\ \A f \in DOMAIN q.payload.patch :
                           Nullable(q.payload.patch[f], Minutes)
                /\ q.pc = "checked" =>
                     /\ IsClosureRow(q.payload.row) /\ ValidClosure(q.payload.row)
           [] q.op = "delete" -> q.payload.date \in DOMAIN closures
           [] q.op = "cutoff" -> q.payload \in Cutoffs
           [] OTHER -> FALSE

\* The types, and the rows as the schemas and the handlers promise them: open
\* before close, breaks inside, both minutes of a closure or neither, and a
\* closure that an edit is about to write is still there.
TypeOK ==
    /\ store \in [cutoff : Cutoffs, paused : BOOLEAN]
    /\ IsWeeklyHours(hours) /\ ValidHours(hours)
    /\ IsClosureBook(closures)
    /\ \A d \in DOMAIN closures : ValidClosure(closures[d])
    /\ now \in Instants
    /\ DOMAIN reqs = Requests
    /\ \A r \in Requests : IsRequest(reqs[r])
    /\ stale \subseteq Requests

\* Every window in use lies inside one business day.
Fits ==
    /\ HoursFit(store.cutoff, hours)
    /\ ClosuresFit(store.cutoff, closures, GetBusinessDate(now, store.cutoff))

\* Hours, closures and cutoff are checked against each other before they are
\* written, without a lock.  A write takes the schedule out of its business day
\* only if the other side of its check was written in between
\* (assertCutoffFitsBusinessHours, assertWithinBusinessDay).
FreshEditsFit ==
    [][Fits /\ (\A r \in stale : reqs'[r] = reqs[r]) => Fits']_vars

-----------------------------------------------------------------------------
\* The schedule without business days, as spells of time on the store's clock.

\* The windows of a date, its break cut out.
OpenSpells(date) ==
    LET plan == DayPlanFor(date, hours, closures)
        Spell(d, open, e, close) ==
            [from |-> BusinessDateMinuteToDate(d, open),
             to |-> BusinessDateMinuteToDate(e, close)]
    IN  CASE plan.kind = "closed" -> {}
          [] plan.kind = "always" ->
                {Spell(date, store.cutoff, date + 1, store.cutoff)}
          [] plan.kind = "window" ->
                IF plan.break = {}
                THEN {Spell(date, plan.open, date, plan.close)}
                ELSE UNION {{Spell(date, plan.open, date, b.start),
                             Spell(date, b.end, date, plan.close)} : b \in plan.break}

\* Dates whose windows may reach the present: a window ends within two days.
DatesAround == ZonedDate(now) - 2 .. ZonedDate(now) + 1

\* Nothing in use, that of the days just past included, leaves its business day.
AllFit ==
    /\ HoursFit(store.cutoff, hours)
    /\ ClosuresFit(store.cutoff, closures, ZonedDate(now) - 2)

State == OpenState(now, store.cutoff, store.paused, hours, closures)

\* resolveStoreOpenState looks at the plan of one business day only.  As long
\* as all windows fit, it is open exactly when a window of any date has begun
\* and not ended, after midnight and around the cutoff too.
OpenAsScheduled ==
    AllFit /\ ~store.paused =>
        (State.isOpen <=>
            \E d \in DatesAround : \E s \in OpenSpells(d) :
                s.from <= now /\ now < s.to)

\* The store opens then, for at least a minute.
BeginsOpen(date, at) ==
    \E s \in OpenSpells(date) : s.from = at /\ s.from < s.to

\* A break of the date begins at the opening, or ends at the close: nothing opens
\* at that edge, and findNextOpenAt goes by the edges alone.
BreakAtEdge(date, at) ==
    LET plan == DayPlanFor(date, hours, closures)
        IsAt(m) == at = BusinessDateMinuteToDate(date, m)
    IN  /\ plan.kind = "window"
        /\ \E b \in plan.break :
              \/ b.start = plan.open /\ IsAt(plan.open)
              \/ b.end = plan.close /\ IsAt(plan.close)

\* findNextOpenAt: the announced opening is ahead, nothing opens before it, and
\* the store opens then, except where a break lies at an edge of its window;
\* without one nothing opens within the days searched.
\* closesAt: the day that is open now ends then, and not before.
AnnouncedTimesHold ==
    LET date == State.businessDate
        Ahead(s) == s.from < s.to /\ now < s.to
        days == date - 2 .. date + SearchDays
    IN  AllFit /\ ~store.paused =>
          /\ ~State.isOpen =>
               IF State.nextOpenAt = {}
               THEN \A d \in days : \A s \in OpenSpells(d) : ~Ahead(s)
               ELSE \A at \in State.nextOpenAt :
                      /\ at > now
                      /\ \E d \in days : BeginsOpen(d, at) \/ BreakAtEdge(d, at)
                      /\ \A d \in days : \A s \in OpenSpells(d) :
                            Ahead(s) => at <= s.from
          /\ \A at \in State.closesAt :
               /\ at > now
               /\ \E s \in OpenSpells(date) : s.to = at
               /\ \A s \in OpenSpells(date) : s.to <= at

=============================================================================

------------------------ MODULE BusinessHoursProofs ------------------------
(***************************************************************************)
(* Theorems of BusinessHours, for every schedule, offset and number of     *)
(* requests.  The first part is arithmetic: what the business date and the *)
(* minute of the business day say about the time, whether the store is     *)
(* open, and what times are announced.  The second is about the edits:     *)
(* what a request has checked stays true until it is overtaken.            *)
(***************************************************************************)
EXTENDS BusinessHours, WellFoundedInduction, TLAPS

\* What the assumption on the constants says of each of them.
LEMMA Numbers ==
  /\ Offset \in Int /\ SearchDays \in Nat
  /\ Dates \subseteq Int /\ Instants \subseteq Int
  /\ \A c \in Cutoffs : c \in Int /\ 0 <= c /\ c <= 720
BY ScheduleAssumption

\* A minute of a business day lies within two calendar days.
LEMMA MinutesBound ==
  ASSUME NEW m \in Minutes
  PROVE  m \in Int /\ 0 <= m /\ m <= 2880
BY DEF Minutes, MinutesPerDay

(* The local clock and its date are the time.                              *)
LEMMA ZonedClock ==
  ASSUME NEW t \in Int
  PROVE  /\ ZonedDate(t) \in Int /\ ZonedMinute(t) \in Int
         /\ t = ZonedDate(t) * 1440 + ZonedMinute(t) - Offset
         /\ 0 <= ZonedMinute(t) /\ ZonedMinute(t) < 1440
<1>1. Offset \in Int
  BY Numbers
<1>. QED
  BY <1>1 DEF ZonedDate, ZonedMinute, MinutesPerDay

(* The business date and its minute are the time too, and the minute lies  *)
(* in the business day that starts at the cutoff.                          *)
LEMMA BusinessClock ==
  ASSUME NEW t \in Int, NEW c \in Int, 0 <= c, c <= 720
  PROVE  /\ GetBusinessDate(t, c) \in Int
         /\ MinutesFromBusinessDayStart(t, c) \in Int
         /\ t = GetBusinessDate(t, c) * 1440 + MinutesFromBusinessDayStart(t, c) - Offset
         /\ c <= MinutesFromBusinessDayStart(t, c)
         /\ MinutesFromBusinessDayStart(t, c) < c + 1440
         /\ ZonedDate(t) - 1 <= GetBusinessDate(t, c)
         /\ GetBusinessDate(t, c) <= ZonedDate(t)
<1>1. Offset \in Int
  BY Numbers
<1>2. /\ ZonedDate(t) \in Int /\ ZonedMinute(t) \in Int
      /\ t = ZonedDate(t) * 1440 + ZonedMinute(t) - Offset
      /\ 0 <= ZonedMinute(t) /\ ZonedMinute(t) < 1440
  BY ZonedClock
<1>3. CASE ZonedMinute(t) >= c
  BY <1>1, <1>2, <1>3 DEF GetBusinessDate, MinutesFromBusinessDayStart
<1>4. CASE ~(ZonedMinute(t) >= c)
  BY <1>1, <1>2, <1>4, SMTT(60) DEF GetBusinessDate, MinutesFromBusinessDayStart, MinutesPerDay
<1>. QED
  BY <1>3, <1>4

\* The business date of an instant is its calendar date or the day before.
LEMMA BusinessNow ==
  ASSUME NEW t, t \in Int, NEW c, c \in Int, 0 <= c, c <= 720
  PROVE  /\ GetBusinessDate(t, c) \in Int
         /\ MinutesFromBusinessDayStart(t, c) \in Int
         /\ ZonedDate(t) - 1 <= GetBusinessDate(t, c)
         /\ ZonedDate(t) \in Int
<1>1. Offset \in Int
  BY Numbers
<1>. QED
  BY <1>1, ZonedClock, BusinessClock

(* Business dates go forward with the time.                                *)
LEMMA DatesGoForward ==
  ASSUME NEW t \in Int, NEW u \in Int, t <= u, NEW c \in Int, 0 <= c, c <= 720
  PROVE  GetBusinessDate(t, c) <= GetBusinessDate(u, c)
<1> DEFINE d == GetBusinessDate(t, c)  m == MinutesFromBusinessDayStart(t, c)
           e == GetBusinessDate(u, c)  n == MinutesFromBusinessDayStart(u, c)
<1>1. /\ d \in Int /\ m \in Int /\ c <= m /\ m < c + 1440
      /\ t = d * 1440 + m - Offset
  BY BusinessClock
<1>2. /\ e \in Int /\ n \in Int /\ c <= n /\ n < c + 1440
      /\ u = e * 1440 + n - Offset
  BY BusinessClock
<1>3. Offset \in Int
  BY Numbers
<1> HIDE DEF d, m, e, n
<1>4. d <= e
  BY <1>1, <1>2, <1>3
<1>. QED
  BY <1>4 DEF d, e

-----------------------------------------------------------------------------
(* A window as the schemas promise it.                                     *)
IsWindow(p) ==
  /\ p.open \in Int /\ p.close \in Int /\ p.open < p.close
  /\ p.open >= 0 /\ p.close <= 2880
  /\ p.break = {}
     \/ \E b \in Break : /\ p.break = {b}
                         /\ p.open <= b.start /\ b.start < b.end /\ b.end <= p.close

(* The plan of a date is one of three, and its window fits when the rows do. *)
LEMMA PlanShapes ==
  ASSUME TypeOK, NEW d \in Int
  PROVE  LET p == DayPlanFor(d, hours, closures)
             fit == AllFit /\ d >= ZonedDate(now) - 2
         IN  \/ p.kind = "always"
             \/ p.kind = "closed" /\ p.reason \in {"HOLIDAY", "CLOSED_DAY"}
             \/ /\ p.kind = "window" /\ IsWindow(p)
                /\ fit => /\ store.cutoff <= p.open
                          /\ p.close <= store.cutoff + 1440
<1> DEFINE p == DayPlanFor(d, hours, closures)
           fit == AllFit /\ d >= ZonedDate(now) - 2
<1>0. store.cutoff \in Int
  BY Numbers DEF TypeOK
<1>1. CASE d \in DOMAIN closures
  <2>1. /\ IsClosureRow(closures[d]) /\ ValidClosure(closures[d])
        /\ fit => ClosureFits(store.cutoff, closures[d])
    BY <1>1 DEF TypeOK, IsClosureBook, AllFit, ClosuresFit
  <2>2. CASE closures[d].open = {} \/ closures[d].close = {}
    BY <1>1, <2>2 DEF DayPlanFor, ClosedFor
  <2>3. CASE ~(closures[d].open = {} \/ closures[d].close = {})
    <3>1. PICK o \in closures[d].open, c \in closures[d].close :
            p = WindowOf(o, c, {})
      BY <1>1, <2>3 DEF DayPlanFor
    <3>2. o \in Minutes /\ c \in Minutes /\ o < c
      BY <2>1, <3>1 DEF IsClosureRow, Nullable, ValidClosure
    <3>3. fit => store.cutoff <= o /\ c <= store.cutoff + 1440
      BY <2>1, <3>1 DEF ClosureFits, WithinBusinessDay, MinutesPerDay
    <3>4. /\ p.kind = "window" /\ p.open = o /\ p.close = c /\ p.break = {}
      BY <3>1 DEF WindowOf
    <3>5. /\ o \in Int /\ c \in Int /\ 0 <= o /\ c <= 2880
      BY <3>2, MinutesBound
    <3>6. IsWindow(p)
      BY <3>2, <3>4, <3>5 DEF IsWindow
    <3>. QED
      BY <3>3, <3>4, <3>6
  <2>. QED
    BY <2>2, <2>3
<1>2. CASE d \notin DOMAIN closures /\ DOMAIN hours = {}
  BY <1>2 DEF DayPlanFor, AlwaysOpen
<1>3. CASE d \notin DOMAIN closures /\ DOMAIN hours # {}
  <2> DEFINE w == DayOfWeekOf(d)
  <2>1. CASE w \notin DOMAIN hours \/ hours[w].isClosed
    BY <1>3, <2>1 DEF DayPlanFor, ClosedFor
  <2>2. CASE w \in DOMAIN hours /\ ~hours[w].isClosed
    <3>1. p = WindowOf(hours[w].open, hours[w].close, hours[w].break)
      BY <1>3, <2>2 DEF DayPlanFor
    <3>2. /\ IsHourRow(hours[w]) /\ ValidDay(hours[w])
          /\ fit => WithinBusinessDay(store.cutoff, hours[w].open, hours[w].close)
      BY <2>2 DEF TypeOK, IsWeeklyHours, ValidHours, AllFit, HoursFit
    <3>3. /\ hours[w].open \in Int /\ hours[w].close \in Int
          /\ hours[w].open < hours[w].close
          /\ hours[w].open >= 0 /\ hours[w].close <= 2880
      <4>1. hours[w].open \in Minutes /\ hours[w].close \in Minutes
        BY <3>2 DEF IsHourRow
      <4>2. hours[w].open < hours[w].close
        BY <2>2, <3>2 DEF ValidDay
      <4>. QED
        BY <4>1, <4>2, MinutesBound
    <3>4. fit => /\ store.cutoff <= hours[w].open
                 /\ hours[w].close <= store.cutoff + 1440
      BY <3>2 DEF WithinBusinessDay, MinutesPerDay
    <3>5. /\ \A b \in hours[w].break :
                b \in Break /\ b.start < b.end
                /\ hours[w].open <= b.start /\ b.end <= hours[w].close
          /\ \A x, y \in hours[w].break : x = y
      BY <2>2, <3>2 DEF IsHourRow, Nullable, ValidDay
    <3>6. \/ hours[w].break = {}
          \/ \E b \in Break : /\ hours[w].break = {b}
                              /\ hours[w].open <= b.start /\ b.start < b.end
                              /\ b.end <= hours[w].close
      <4>1. SUFFICES ASSUME hours[w].break # {}
                     PROVE  \E b \in hours[w].break : hours[w].break = {b}
        BY <3>5
      <4>2. PICK b \in hours[w].break : TRUE
        BY <4>1
      <4>. QED
        BY <4>2, <3>5
    <3>7. /\ p.kind = "window" /\ p.open = hours[w].open
          /\ p.close = hours[w].close /\ p.break = hours[w].break
      BY <3>1 DEF WindowOf
    <3>8. IsWindow(p)
      BY <3>3, <3>6, <3>7 DEF IsWindow
    <3>. QED
      BY <3>4, <3>7, <3>8
  <2>. QED
    BY <2>1, <2>2
<1>. QED
  BY <1>1, <1>2, <1>3, SMTT(90)

(* The plan of a date that still matters, when everything fits.            *)
LEMMA Plans ==
  ASSUME TypeOK, AllFit, NEW d \in Int, d >= ZonedDate(now) - 2
  PROVE  LET p == DayPlanFor(d, hours, closures)
         IN  \/ p.kind = "always"
             \/ p.kind = "closed" /\ p.reason \in {"HOLIDAY", "CLOSED_DAY"}
             \/ /\ p.kind = "window" /\ IsWindow(p)
                /\ store.cutoff <= p.open /\ p.close <= store.cutoff + 1440
BY PlanShapes

(* Whether the plan of the business day has the store open at its minute.  *)
OpenIn(p, minute) ==
  \/ p.kind = "always"
  \/ /\ p.kind = "window"
     /\ p.open <= minute /\ minute < p.close
     /\ ~IsInBreak(p, minute)

\* A store that is not paused is open as the plan of the business day says.
LEMMA StateFollowsPlan ==
  ASSUME TypeOK, AllFit, ~store.paused
  PROVE  LET date == GetBusinessDate(now, store.cutoff)
             minute == MinutesFromBusinessDayStart(now, store.cutoff)
         IN  State.isOpen <=> OpenIn(DayPlanFor(date, hours, closures), minute)
<1> DEFINE date == GetBusinessDate(now, store.cutoff)
           minute == MinutesFromBusinessDayStart(now, store.cutoff)
           p == DayPlanFor(date, hours, closures)
<1>1. /\ now \in Int
      /\ store.cutoff \in Int /\ 0 <= store.cutoff /\ store.cutoff <= 720
  BY Numbers DEF TypeOK
<1>2. /\ date \in Int /\ minute \in Int
      /\ ZonedDate(now) \in Int /\ ZonedDate(now) - 1 <= date
  <2>1. /\ GetBusinessDate(now, store.cutoff) \in Int
        /\ MinutesFromBusinessDayStart(now, store.cutoff) \in Int
        /\ ZonedDate(now) - 1 <= GetBusinessDate(now, store.cutoff)
    BY <1>1, BusinessNow
  <2>2. ZonedDate(now) \in Int
    BY <1>1, ZonedClock
  <2>. QED
    BY <2>1, <2>2
<1>21. date >= ZonedDate(now) - 2
  BY <1>2
<1>3. \/ p.kind = "always"
      \/ p.kind = "closed"
      \/ p.kind = "window" /\ IsWindow(p)
  BY <1>2, <1>21, Plans
<1> HIDE DEF date, minute, p
<1>4. CASE p.kind = "always"
  BY <1>4 DEF State, OpenState, OpenIn, date, minute, p
<1>5. CASE p.kind = "closed"
  BY <1>5 DEF State, OpenState, OpenIn, date, minute, p
<1>6. CASE p.kind = "window" /\ IsWindow(p)
  <2>1. p.open \in Int /\ p.close \in Int
    BY <1>6 DEF IsWindow
  <2>2. CASE minute < p.open
    BY <1>6, <2>1, <2>2, <1>2 DEF State, OpenState, OpenIn, date, minute, p
  <2>3. CASE minute >= p.open /\ minute >= p.close
    BY <1>6, <2>1, <2>3, <1>2 DEF State, OpenState, OpenIn, date, minute, p
  <2>4. CASE minute >= p.open /\ minute < p.close
    BY <1>6, <2>1, <2>4, <1>2 DEF State, OpenState, OpenIn, date, minute, p
  <2>. QED
    BY <2>1, <2>2, <2>3, <2>4, <1>2
<1>. QED
  BY <1>3, <1>4, <1>5, <1>6 DEF date, minute, p
-----------------------------------------------------------------------------
(* The spells of a date, by its plan.                                      *)
LEMMA SpellsOf ==
  ASSUME NEW d, NEW s
  PROVE  LET p == DayPlanFor(d, hours, closures)
             at(e, m) == BusinessDateMinuteToDate(e, m)
         IN  /\ p.kind = "closed" => OpenSpells(d) = {}
             /\ p.kind = "always" =>
                  OpenSpells(d) = {[from |-> at(d, store.cutoff),
                                    to |-> at(d + 1, store.cutoff)]}
             /\ p.kind = "window" /\ p.break = {} =>
                  OpenSpells(d) = {[from |-> at(d, p.open), to |-> at(d, p.close)]}
             /\ \A b : p.kind = "window" /\ p.break = {b} =>
                  OpenSpells(d) = {[from |-> at(d, p.open), to |-> at(d, b.start)],
                                   [from |-> at(d, b.end), to |-> at(d, p.close)]}
<1> DEFINE p == DayPlanFor(d, hours, closures)
<1>1. p.kind = "closed" => OpenSpells(d) = {}
  BY DEF OpenSpells
<1>2. p.kind = "always" =>
        OpenSpells(d) = {[from |-> BusinessDateMinuteToDate(d, store.cutoff),
                          to |-> BusinessDateMinuteToDate(d + 1, store.cutoff)]}
  BY DEF OpenSpells
<1>3. p.kind = "window" /\ p.break = {} =>
        OpenSpells(d) = {[from |-> BusinessDateMinuteToDate(d, p.open),
                          to |-> BusinessDateMinuteToDate(d, p.close)]}
  BY DEF OpenSpells
<1>4. ASSUME NEW b, p.kind = "window", p.break = {b}
      PROVE  OpenSpells(d) = {[from |-> BusinessDateMinuteToDate(d, p.open),
                               to |-> BusinessDateMinuteToDate(d, b.start)],
                              [from |-> BusinessDateMinuteToDate(d, b.end),
                               to |-> BusinessDateMinuteToDate(d, p.close)]}
  BY <1>4 DEF OpenSpells
<1>. QED
  BY <1>1, <1>2, <1>3, <1>4
(* A window inside its business day that has the present in it is today's. *)
LEMMA TodaysWindow ==
  ASSUME NEW c \in Int, NEW date \in Int, NEW minute \in Int, NEW off \in Int,
         c <= minute, minute < c + 1440,
         NEW d \in Int, NEW o \in Int, NEW e \in Int,
         c <= o, e <= c + 1440,
         d * 1440 + o - off <= date * 1440 + minute - off,
         date * 1440 + minute - off < d * 1440 + e - off
  PROVE  d = date /\ o <= minute /\ minute < e
<1>1. d <= date
  OBVIOUS
<1>2. date <= d
  OBVIOUS
<1>. QED
  BY <1>1, <1>2

Date == GetBusinessDate(now, store.cutoff)
Minute == MinutesFromBusinessDayStart(now, store.cutoff)

\* Now, as the minute of the business day it falls on.
LEMMA Present ==
  ASSUME TypeOK
  PROVE  /\ Offset \in Int /\ now \in Int
         /\ Date \in Int /\ Minute \in Int /\ store.cutoff \in Int
         /\ now = Date * 1440 + Minute - Offset
         /\ store.cutoff <= Minute /\ Minute < store.cutoff + 1440
         /\ ZonedDate(now) \in Int
         /\ Date \in ZonedDate(now) - 1 .. ZonedDate(now)
<1>1. /\ now \in Int /\ Offset \in Int
      /\ store.cutoff \in Int /\ 0 <= store.cutoff /\ store.cutoff <= 720
  BY Numbers DEF TypeOK
<1> DEFINE t == now  c == store.cutoff
<1>2. t \in Int /\ c \in Int /\ 0 <= c /\ c <= 720
  BY <1>1
<1> HIDE DEF t, c
<1>3. /\ GetBusinessDate(t, c) \in Int
      /\ MinutesFromBusinessDayStart(t, c) \in Int
      /\ t = GetBusinessDate(t, c) * 1440 + MinutesFromBusinessDayStart(t, c) - Offset
      /\ c <= MinutesFromBusinessDayStart(t, c)
      /\ MinutesFromBusinessDayStart(t, c) < c + 1440
      /\ ZonedDate(t) - 1 <= GetBusinessDate(t, c)
      /\ GetBusinessDate(t, c) <= ZonedDate(t)
  BY <1>2, BusinessClock
<1>4. ZonedDate(t) \in Int
  BY <1>2, ZonedClock
<1>5. GetBusinessDate(t, c) \in ZonedDate(t) - 1 .. ZonedDate(t)
  BY <1>3, <1>4
<1>. QED
  BY <1>1, <1>3, <1>4, <1>5 DEF t, c, Date, Minute

Holds(s) == s.from <= now /\ now < s.to

(* A spell [o, e] of date d, its minutes inside the business day, has the  *)
(* present in it exactly if d is today and the minute is between them.     *)
LEMMA SpellHolds ==
  ASSUME TypeOK, NEW d \in Int, NEW o \in Int, NEW e \in Int,
         store.cutoff <= o, e <= store.cutoff + 1440
  PROVE  LET s == [from |-> BusinessDateMinuteToDate(d, o),
                   to |-> BusinessDateMinuteToDate(d, e)]
         IN  Holds(s) <=> d = Date /\ o <= Minute /\ Minute < e
<1> DEFINE s == [from |-> d * 1440 + o - Offset, to |-> d * 1440 + e - Offset]
<1>1. s = [from |-> BusinessDateMinuteToDate(d, o),
           to |-> BusinessDateMinuteToDate(d, e)]
  BY DEF BusinessDateMinuteToDate, MinutesPerDay
<1>2. Holds(s) <=> /\ d * 1440 + o - Offset <= Date * 1440 + Minute - Offset
                   /\ Date * 1440 + Minute - Offset < d * 1440 + e - Offset
  BY Present DEF Holds
<1>3. ASSUME d = Date, o <= Minute, Minute < e
      PROVE  Holds(s)
  <2>1. /\ d * 1440 + o - Offset <= Date * 1440 + Minute - Offset
        /\ Date * 1440 + Minute - Offset < d * 1440 + e - Offset
    BY <1>3, Present
  <2>. QED
    BY <2>1, <1>2
<1>4. ASSUME Holds(s)
      PROVE  d = Date /\ o <= Minute /\ Minute < e
  <2>1. /\ d * 1440 + o - Offset <= Date * 1440 + Minute - Offset
        /\ Date * 1440 + Minute - Offset < d * 1440 + e - Offset
    BY <1>4, <1>2
  <2>2. /\ Offset \in Int /\ Date \in Int /\ Minute \in Int /\ store.cutoff \in Int
        /\ store.cutoff <= Minute /\ Minute < store.cutoff + 1440
    BY Present
  <2>. QED
    BY <2>1, <2>2, TodaysWindow
<1>. QED
  BY <1>1, <1>3, <1>4

(* The spells of a date that hold the present: today's, when the plan has  *)
(* the store open.                                                         *)
LEMMA DateHolds ==
  ASSUME TypeOK, AllFit, NEW d \in Int, d >= ZonedDate(now) - 2
  PROVE  (\E s \in OpenSpells(d) : Holds(s)) <=>
         d = Date /\ OpenIn(DayPlanFor(d, hours, closures), Minute)
<1> DEFINE p == DayPlanFor(d, hours, closures)
           Sp(o, e) == [from |-> BusinessDateMinuteToDate(d, o),
                        to |-> BusinessDateMinuteToDate(d, e)]
<1>1. \/ p.kind = "always"
      \/ p.kind = "closed"
      \/ /\ p.kind = "window" /\ IsWindow(p)
         /\ store.cutoff <= p.open /\ p.close <= store.cutoff + 1440
  BY Plans
<1>2. Minute \in Int /\ store.cutoff \in Int
      /\ store.cutoff <= Minute /\ Minute < store.cutoff + 1440
  BY Present
<1>3. ASSUME NEW o \in Int, NEW e \in Int,
             store.cutoff <= o, e <= store.cutoff + 1440
      PROVE  Holds(Sp(o, e)) <=> d = Date /\ o <= Minute /\ Minute < e
  BY <1>3, SpellHolds
<1>4. CASE p.kind = "closed"
  BY <1>4, SpellsOf DEF OpenIn
<1>5. CASE p.kind = "always"
  <2>1. BusinessDateMinuteToDate(d + 1, store.cutoff)
          = BusinessDateMinuteToDate(d, store.cutoff + 1440)
    BY <1>2, Numbers DEF BusinessDateMinuteToDate, MinutesPerDay
  <2>2. OpenSpells(d) = {Sp(store.cutoff, store.cutoff + 1440)}
    BY <1>5, <2>1, SpellsOf
  <2>3. Holds(Sp(store.cutoff, store.cutoff + 1440)) <=> d = Date
    BY <1>2, <1>3
  <2>. QED
    BY <1>5, <2>2, <2>3 DEF OpenIn
<1>6. CASE /\ p.kind = "window" /\ IsWindow(p)
           /\ store.cutoff <= p.open /\ p.close <= store.cutoff + 1440
  <2>1. p.open \in Int /\ p.close \in Int
    BY <1>6 DEF IsWindow
  <2>2. CASE p.break = {}
    <3>1. OpenSpells(d) = {Sp(p.open, p.close)}
      BY <1>6, <2>2, SpellsOf
    <3>2. Holds(Sp(p.open, p.close)) <=>
            d = Date /\ p.open <= Minute /\ Minute < p.close
      BY <1>3, <1>6, <2>1
    <3>3. ~IsInBreak(p, Minute)
      BY <2>2 DEF IsInBreak
    <3>. QED
      BY <1>6, <3>1, <3>2, <3>3 DEF OpenIn
  <2>3. CASE p.break # {}
    <3>1. PICK b \in Break : /\ p.break = {b}
                             /\ p.open <= b.start /\ b.start < b.end
                             /\ b.end <= p.close
      BY <1>6, <2>3 DEF IsWindow
    <3>2. b.start \in Int /\ b.end \in Int
      BY MinutesBound DEF Break
    <3>3. OpenSpells(d) = {Sp(p.open, b.start), Sp(b.end, p.close)}
      BY <1>6, <3>1, SpellsOf
    <3>4. /\ b.start <= store.cutoff + 1440
          /\ store.cutoff <= b.end
      BY <1>2, <1>6, <2>1, <3>1, <3>2
    <3>5. Holds(Sp(p.open, b.start)) <=>
            d = Date /\ p.open <= Minute /\ Minute < b.start
      BY <1>3, <1>6, <2>1, <3>2, <3>4
    <3>6. Holds(Sp(b.end, p.close)) <=>
            d = Date /\ b.end <= Minute /\ Minute < p.close
      BY <1>3, <1>6, <2>1, <3>2, <3>4
    <3>7. (\E s \in OpenSpells(d) : Holds(s)) <=>
            Holds(Sp(p.open, b.start)) \/ Holds(Sp(b.end, p.close))
      BY <3>3
    <3>8. IsInBreak(p, Minute) <=> b.start <= Minute /\ Minute < b.end
      BY <3>1 DEF IsInBreak
    <3>9. p.open <= Minute /\ Minute < p.close /\ ~IsInBreak(p, Minute) <=>
            \/ p.open <= Minute /\ Minute < b.start
            \/ b.end <= Minute /\ Minute < p.close
      BY <1>2, <2>1, <3>1, <3>2, <3>8
    <3>. QED
      BY <1>6, <3>5, <3>6, <3>7, <3>9 DEF OpenIn
  <2>. QED
    BY <2>2, <2>3
<1>. QED
  BY <1>1, <1>4, <1>5, <1>6

\* The open state of every well-typed state follows the spells of its schedule.
LEMMA OpenFollowsSpells == TypeOK => OpenAsScheduled
<1> SUFFICES ASSUME TypeOK, AllFit, ~store.paused
             PROVE  State.isOpen <=>
                      \E d \in DatesAround : \E s \in OpenSpells(d) : Holds(s)
  BY DEF OpenAsScheduled, Holds
<1> DEFINE today == OpenIn(DayPlanFor(Date, hours, closures), Minute)
<1>1. State.isOpen <=> today
  BY StateFollowsPlan DEF Date, Minute
<1>2. /\ ZonedDate(now) \in Int
      /\ Date \in ZonedDate(now) - 1 .. ZonedDate(now)
      /\ Date \in Int
  BY Present
<1>3. ASSUME NEW d \in DatesAround
      PROVE  (\E s \in OpenSpells(d) : Holds(s)) <=> d = Date /\ today
  <2>1. d \in Int /\ d >= ZonedDate(now) - 2
    BY <1>2 DEF DatesAround
  <2>. QED
    BY <2>1, DateHolds
<1>4. Date \in DatesAround
  BY <1>2 DEF DatesAround
<1>. QED
  BY <1>1, <1>3, <1>4
-----------------------------------------------------------------------------
(* The announced times.  findNextOpenAt goes through the minutes at which  *)
(* a day opens; these are where its spells begin.                          *)
At(d, m) == BusinessDateMinuteToDate(d, m)

Opens(d) == {At(d, m) : m \in Openings(DayPlanFor(d, hours, closures), store.cutoff)}

After(d) == {at \in Opens(d) : at > now}

Searched == {d \in Date .. Date + SearchDays : After(d) # {}}

NextOpening == FindNextOpenAt(now, Date, store.cutoff, hours, closures)

(* The days that findNextOpenAt goes through have a first.                 *)
LEMMA FirstDay ==
  ASSUME NEW from \in Int, NEW D, \A d \in D : d \in Int /\ from <= d, D # {}
  PROVE  \E d \in D : \A e \in D : d <= e
<1> DEFINE N == {d - from : d \in D}
<1>1. N \in SUBSET Nat /\ N # {}
  OBVIOUS
<1>2. IsWellFoundedOn(OpToRel(<, Nat), Nat)
  BY NatLessThanWellFounded
<1> HIDE DEF N
<1>3. PICK n \in N : \A k \in N : ~(<<k, n>> \in OpToRel(<, Nat))
  BY <1>1, <1>2, WFMin
<1>4. \A k \in N : ~(k < n) /\ k \in Nat /\ n \in Nat
  BY <1>1, <1>3 DEF OpToRel
<1> USE DEF N
<1>5. PICK d \in D : n = d - from
  BY <1>3
<1>6. ASSUME NEW e \in D
      PROVE  d <= e
  <2>1. e - from \in N
    OBVIOUS
  <2>. QED
    BY <1>4, <1>5, <2>1
<1>. QED
  BY <1>6

(* The spells of a date begin at its openings, no earlier than the cutoff  *)
(* and no later than the next, and they end by then.  At each opening the  *)
(* store opens, unless a break lies at that edge of the window.            *)
LEMMA SpellsBegin ==
  ASSUME TypeOK, AllFit, NEW d \in Int, d >= ZonedDate(now) - 2
  PROVE  /\ \A s \in OpenSpells(d) :
               /\ s.from \in Opens(d) /\ s.to \in Int
               /\ s.to <= At(d + 1, store.cutoff)
         /\ \A at \in Opens(d) :
               /\ at \in Int
               /\ At(d, store.cutoff) <= at /\ at <= At(d + 1, store.cutoff)
               /\ BeginsOpen(d, at) \/ BreakAtEdge(d, at)
<1> DEFINE p == DayPlanFor(d, hours, closures)
           c == store.cutoff
<1>1. c \in Int /\ Offset \in Int
  BY Present
<1>2. \/ p.kind = "always"
      \/ p.kind = "closed"
      \/ /\ p.kind = "window" /\ IsWindow(p)
         /\ c <= p.open /\ p.close <= c + 1440
  BY Plans
<1>3. /\ At(d, c) = d * 1440 + c - Offset
      /\ At(d + 1, c) = (d + 1) * 1440 + c - Offset
      /\ At(d, c) \in Int /\ At(d + 1, c) \in Int
  BY <1>1, Numbers
       DEF At, BusinessDateMinuteToDate, MinutesPerDay
<1>4. Opens(d) = {At(d, m) : m \in Openings(p, c)}
  BY DEF Opens
<1> HIDE DEF p, c
<1>5. CASE p.kind = "closed"
  <2>1. OpenSpells(d) = {} /\ Openings(p, c) = {}
    BY <1>5, SpellsOf DEF p, Openings
  <2>. QED
    BY <1>4, <2>1
<1>6. CASE p.kind = "always"
  <2>1. OpenSpells(d) = {[from |-> At(d, c), to |-> At(d + 1, c)]}
    BY <1>6, SpellsOf DEF p, c, At
  <2>2. Openings(p, c) = {c}
    BY <1>6 DEF Openings
  <2>3. Opens(d) = {At(d, c)}
    BY <1>4, <2>2
  <2>4. At(d, c) < At(d + 1, c)
    BY <1>1, <1>3
  <2>5. BeginsOpen(d, At(d, c))
    BY <2>1, <2>4 DEF BeginsOpen
  <2>. QED
    BY <1>1, <1>3, <2>1, <2>3, <2>5 DEF c
<1>7. CASE /\ p.kind = "window" /\ IsWindow(p)
           /\ c <= p.open /\ p.close <= c + 1440
  <2>0. Openings(p, c) = {p.open} \cup {b.end : b \in p.break}
    BY <1>7 DEF Openings
  <2>1. p.open \in Int /\ p.close \in Int /\ p.open < p.close
    BY <1>7 DEF IsWindow
  <2>2. ASSUME NEW m \in Int, c <= m, m <= c + 1440
        PROVE  /\ At(d, m) \in Int /\ At(d, m) = d * 1440 + m - Offset
               /\ At(d, c) <= At(d, m) /\ At(d, m) <= At(d + 1, c)
    BY <1>1, <1>3, <2>2, Numbers
       DEF At, BusinessDateMinuteToDate, MinutesPerDay
  <2>3. c <= p.close /\ p.open <= c + 1440
    BY <1>1, <1>7, <2>1
  <2>4. CASE p.break = {}
    <3>1. OpenSpells(d) = {[from |-> At(d, p.open), to |-> At(d, p.close)]}
      BY <1>7, <2>4, SpellsOf DEF p, At
    <3>2. Opens(d) = {At(d, p.open)}
      BY <1>4, <2>0, <2>4
    <3>3. /\ At(d, p.open) \in Int /\ At(d, c) <= At(d, p.open)
          /\ At(d, p.open) <= At(d + 1, c)
          /\ At(d, p.close) \in Int /\ At(d, p.close) <= At(d + 1, c)
          /\ At(d, p.open) < At(d, p.close)
      BY <1>1, <1>7, <2>1, <2>2, <2>3
    <3>4. BeginsOpen(d, At(d, p.open))
      BY <3>1, <3>3 DEF BeginsOpen
    <3>. QED
      BY <3>1, <3>2, <3>3, <3>4 DEF c
  <2>5. CASE p.break # {}
    <3>1. PICK b \in Break : /\ p.break = {b}
                             /\ p.open <= b.start /\ b.start < b.end
                             /\ b.end <= p.close
      BY <1>7, <2>5 DEF IsWindow
    <3>2. b.start \in Int /\ b.end \in Int
      BY MinutesBound DEF Break
    <3>3. OpenSpells(d) = {[from |-> At(d, p.open), to |-> At(d, b.start)],
                           [from |-> At(d, b.end), to |-> At(d, p.close)]}
      BY <1>7, <3>1, SpellsOf DEF p, At
    <3>4. Opens(d) = {At(d, p.open), At(d, b.end)}
      BY <1>4, <2>0, <3>1
    <3>5. /\ c <= b.start /\ b.start <= c + 1440
          /\ c <= b.end /\ b.end <= c + 1440
      BY <1>1, <1>7, <2>1, <3>1, <3>2
    <3>6. /\ At(d, p.open) \in Int /\ At(d, c) <= At(d, p.open)
          /\ At(d, p.open) <= At(d + 1, c)
          /\ At(d, p.close) \in Int /\ At(d, p.close) <= At(d + 1, c)
      BY <1>7, <2>1, <2>2, <2>3
    <3>7. /\ At(d, b.end) \in Int /\ At(d, c) <= At(d, b.end)
          /\ At(d, b.end) <= At(d + 1, c)
          /\ At(d, b.start) \in Int /\ At(d, b.start) <= At(d + 1, c)
      BY <2>2, <3>2, <3>5
    <3>8. BeginsOpen(d, At(d, p.open)) \/ BreakAtEdge(d, At(d, p.open))
      <4>1. CASE b.start = p.open
        BY <1>7, <3>1, <4>1 DEF BreakAtEdge, At, p
      <4>2. CASE b.start # p.open
        <5>1. At(d, p.open) < At(d, b.start)
          BY <1>1, <1>7, <2>1, <2>2, <2>3, <3>1, <3>2, <3>5, <4>2
        <5>. QED
          BY <3>3, <5>1 DEF BeginsOpen
      <4>. QED
        BY <4>1, <4>2
    <3>9. BeginsOpen(d, At(d, b.end)) \/ BreakAtEdge(d, At(d, b.end))
      <4>1. CASE b.end = p.close
        BY <1>7, <3>1, <4>1 DEF BreakAtEdge, At, p
      <4>2. CASE b.end # p.close
        <5>1. At(d, b.end) < At(d, p.close)
          BY <1>1, <1>7, <2>1, <2>2, <2>3, <3>1, <3>2, <3>5, <4>2
        <5>. QED
          BY <3>3, <5>1 DEF BeginsOpen
      <4>. QED
        BY <4>1, <4>2
    <3>. QED
      BY <3>3, <3>4, <3>6, <3>7, <3>8, <3>9 DEF c
  <2>. QED
    BY <2>4, <2>5
<1>. QED
  BY <1>2, <1>5, <1>6, <1>7

(* A date has at most two openings, and so a first one after the present.  *)
LEMMA FirstAfter ==
  ASSUME TypeOK, AllFit, NEW d \in Int, d >= ZonedDate(now) - 2, After(d) # {}
  PROVE  \E at \in After(d) : \A other \in After(d) : at <= other
<1> DEFINE p == DayPlanFor(d, hours, closures)
<1>1. \/ p.kind = "always"
      \/ p.kind = "closed"
      \/ p.kind = "window" /\ IsWindow(p)
  BY Plans
<1>2. \A at \in After(d) : at \in Int
  BY SpellsBegin DEF After
<1>3. \E x, y : Opens(d) \subseteq {x, y}
  <2>1. CASE p.kind = "always"
    BY <2>1 DEF Opens, Openings
  <2>2. CASE p.kind = "closed"
    BY <2>2 DEF Opens, Openings
  <2>3. CASE p.kind = "window" /\ p.break = {}
    BY <2>3 DEF Opens, Openings
  <2>4. CASE p.kind = "window" /\ IsWindow(p) /\ p.break # {}
    <3>1. PICK b \in Break : p.break = {b}
      BY <2>4 DEF IsWindow
    <3>2. Openings(p, store.cutoff) = {p.open, b.end}
      BY <2>4, <3>1 DEF Openings
    <3>3. Opens(d) = {At(d, p.open), At(d, b.end)}
      BY <3>2 DEF Opens
    <3>. QED
      BY <3>3
  <2>. QED
    BY <1>1, <2>1, <2>2, <2>3, <2>4
<1>4. PICK x, y : After(d) \subseteq {x, y}
  BY <1>3 DEF After
<1>. QED
  BY <1>2, <1>4

(* Before the business day of the present everything is over, the windows  *)
(* of dates that the checks no longer look at too.                         *)
LEMMA PastIsOver ==
  ASSUME TypeOK, AllFit, NEW d \in Date - 2 .. Date - 1, NEW s \in OpenSpells(d)
  PROVE  s.to \in Int /\ s.to <= now
<1>1. /\ Offset \in Int /\ now \in Int
      /\ Date \in Int /\ Minute \in Int /\ store.cutoff \in Int
      /\ now = Date * 1440 + Minute - Offset
      /\ store.cutoff <= Minute
      /\ ZonedDate(now) \in Int
      /\ Date \in ZonedDate(now) - 1 .. ZonedDate(now)
  BY Present
<1>2. d \in Int /\ d <= Date - 1
  BY <1>1
<1>3. CASE d >= ZonedDate(now) - 2
  <2>1. s.to \in Int /\ s.to <= At(d + 1, store.cutoff)
    BY <1>2, <1>3, SpellsBegin
  <2>2. At(d + 1, store.cutoff) = (d + 1) * 1440 + store.cutoff - Offset
    BY <1>1, <1>2, Numbers
       DEF At, BusinessDateMinuteToDate, MinutesPerDay
  <2>. QED
    BY <1>1, <1>2, <2>1, <2>2
<1>4. CASE d < ZonedDate(now) - 2
  <2> DEFINE p == DayPlanFor(d, hours, closures)
  <2>1. \/ p.kind = "always"
        \/ p.kind = "closed"
        \/ p.kind = "window" /\ IsWindow(p)
    BY <1>2, PlanShapes
  <2>2. d = ZonedDate(now) - 3
    BY <1>1, <1>2, <1>4
  <2>3. now >= ZonedDate(now) * 1440 - Offset
    BY <1>1, ZonedClock
  <2>4. ASSUME NEW m \in Int, m <= 2880
        PROVE  At(d, m) \in Int /\ At(d, m) <= now
    <3>1. At(d, m) = d * 1440 + m - Offset /\ At(d, m) \in Int
      BY <1>2, Numbers
       DEF At, BusinessDateMinuteToDate, MinutesPerDay
    <3>. QED
      BY <1>1, <2>2, <2>3, <2>4, <3>1
  <2> HIDE DEF p
  <2>5. CASE p.kind = "always"
    <3>1. s.to = At(d + 1, store.cutoff)
      BY <2>5, SpellsOf DEF p, At
    <3>2. /\ At(d + 1, store.cutoff) = (d + 1) * 1440 + store.cutoff - Offset
          /\ At(d + 1, store.cutoff) \in Int
      BY <1>1, <1>2, Numbers
       DEF At, BusinessDateMinuteToDate, MinutesPerDay
    <3>. QED
      BY <1>1, <1>2, <3>1, <3>2
  <2>6. CASE p.kind = "closed"
    BY <2>6, SpellsOf DEF p
  <2>7. CASE p.kind = "window" /\ IsWindow(p)
    <3>1. p.close \in Int /\ p.close <= 2880
      BY <2>7 DEF IsWindow
    <3>2. CASE p.break = {}
      <4>1. s.to = At(d, p.close)
        BY <2>7, <3>2, SpellsOf DEF p, At
      <4>. QED
        BY <2>4, <3>1, <4>1
    <3>3. CASE p.break # {}
      <4>1. PICK b \in Break : /\ p.break = {b} /\ b.start < b.end
                               /\ b.end <= p.close
        BY <2>7, <3>3 DEF IsWindow
      <4>2. s.to = At(d, p.close) \/ s.to = At(d, b.start)
        BY <2>7, <4>1, SpellsOf DEF p, At
      <4>3. b.start \in Int /\ b.start <= 2880
        BY MinutesBound DEF Break
      <4>. QED
        BY <2>4, <3>1, <4>2, <4>3
    <3>. QED
      BY <3>2, <3>3
  <2>. QED
    BY <2>1, <2>5, <2>6, <2>7
<1>. QED
  BY <1>1, <1>2, <1>3, <1>4

(* What resolveStoreOpenState announces, by the plan of the business day.  *)
LEMMA Announced ==
  ASSUME TypeOK, AllFit, ~store.paused
  PROVE  LET p == DayPlanFor(Date, hours, closures)
         IN  /\ State.businessDate = Date
             /\ ~State.isOpen => /\ State.nextOpenAt = NextOpening
                                 /\ State.closesAt = {}
             /\ State.isOpen =>
                  \/ p.kind = "always" /\ State.closesAt = {}
                  \/ /\ p.kind = "window" /\ IsWindow(p) /\ Minute < p.close
                     /\ State.closesAt = {At(Date, p.close)}
<1> DEFINE p == DayPlanFor(Date, hours, closures)
<1>1. /\ Date \in Int /\ Minute \in Int /\ Date >= ZonedDate(now) - 2
  BY Present
<1>2. \/ p.kind = "always"
      \/ p.kind = "closed"
      \/ p.kind = "window" /\ IsWindow(p)
  BY <1>1, Plans
<1>3. CASE p.kind = "always"
  BY <1>3 DEF State, OpenState, Date, Minute
<1>4. CASE p.kind = "closed"
  BY <1>4 DEF State, OpenState, Date, Minute, NextOpening
<1>5. CASE p.kind = "window" /\ IsWindow(p)
  <2>1. p.open \in Int /\ p.close \in Int
    BY <1>5 DEF IsWindow
  <2>2. CASE Minute < p.open
    BY <1>5, <2>2 DEF State, OpenState, Date, Minute, NextOpening
  <2>3. CASE ~(Minute < p.open) /\ Minute >= p.close
    BY <1>5, <2>3 DEF State, OpenState, Date, Minute, NextOpening
  <2>4. CASE /\ ~(Minute < p.open) /\ ~(Minute >= p.close)
             /\ IsInBreak(p, Minute)
    BY <1>5, <2>4 DEF State, OpenState, Date, Minute, NextOpening
  <2>5. CASE /\ ~(Minute < p.open) /\ ~(Minute >= p.close)
             /\ ~IsInBreak(p, Minute)
    <3>1. State.isOpen /\ State.businessDate = Date
          /\ State.closesAt = {At(Date, p.close)}
      BY <1>5, <2>5 DEF State, OpenState, Date, Minute, At
    <3>2. Minute < p.close
      BY <1>1, <2>1, <2>5
    <3>. QED
      BY <1>5, <3>1, <3>2
  <2>. QED
    BY <2>2, <2>3, <2>4, <2>5
<1>. QED
  BY <1>2, <1>3, <1>4, <1>5

(* findNextOpenAt with the names of this module.                           *)
LEMMA NextOpeningIs ==
  /\ Searched = {} => NextOpening = {}
  /\ Searched # {} =>
       LET first == CHOOSE d \in Searched : \A e \in Searched : d <= e
       IN  NextOpening =
             {at \in After(first) : \A other \in After(first) : at <= other}
BY DEF NextOpening, FindNextOpenAt, Searched, After, Opens, At

(* While the store is closed, a spell of a day searched that is still to   *)
(* end is still to begin.                                                  *)
LEMMA StillToBegin ==
  ASSUME TypeOK, AllFit, ~store.paused, ~State.isOpen,
         NEW d \in Date - 2 .. Date + SearchDays, NEW s \in OpenSpells(d),
         now < s.to
  PROVE  d \in Searched /\ s.from \in After(d)
<1>1. /\ Date \in Int /\ SearchDays \in Nat /\ now \in Int
      /\ ZonedDate(now) \in Int
      /\ Date \in ZonedDate(now) - 1 .. ZonedDate(now)
  BY Present, Numbers
<1>2. d \in Int /\ ~(d <= Date - 1)
  <2>1. d \in Int
    BY <1>1
  <2>2. ASSUME d <= Date - 1 PROVE FALSE
    <3>1. d \in Date - 2 .. Date - 1
      BY <1>1, <2>1, <2>2
    <3>. QED
      BY <1>1, <3>1, PastIsOver
  <2>. QED
    BY <2>1, <2>2
<1>3. d \in Date .. Date + SearchDays /\ d >= ZonedDate(now) - 2
  BY <1>1, <1>2
<1>4. s.from \in Opens(d) /\ s.from \in Int
  BY <1>2, <1>3, SpellsBegin
<1>5. ~Holds(s)
  <2>1. ~(d = Date /\ OpenIn(DayPlanFor(d, hours, closures), Minute))
    BY StateFollowsPlan DEF Date, Minute
  <2>. QED
    BY <1>2, <1>3, <2>1, DateHolds
<1>6. s.from \in After(d)
  BY <1>1, <1>4, <1>5 DEF After, Holds
<1>. QED
  BY <1>3, <1>6 DEF Searched

(* The announced opening is the first there is, and closesAt is the end of *)
(* the window of today.                                                    *)
LEMMA AnnouncementsHold == TypeOK => AnnouncedTimesHold
<1> SUFFICES ASSUME TypeOK, AllFit, ~store.paused
             PROVE  AnnouncedTimesHold
  BY DEF AnnouncedTimesHold
<1> DEFINE days == Date - 2 .. Date + SearchDays
           Ahead(s) == s.from < s.to /\ now < s.to
<1>1. /\ Date \in Int /\ SearchDays \in Nat /\ now \in Int
      /\ Minute \in Int /\ store.cutoff \in Int /\ Offset \in Int
      /\ now = Date * 1440 + Minute - Offset
      /\ ZonedDate(now) \in Int
      /\ Date \in ZonedDate(now) - 1 .. ZonedDate(now)
  BY Present, Numbers
<1>2. State.businessDate = Date
  BY Announced
<1>3. ASSUME ~State.isOpen, State.nextOpenAt = {}
      PROVE  \A d \in days : \A s \in OpenSpells(d) : ~Ahead(s)
  <2> SUFFICES ASSUME NEW d \in days, NEW s \in OpenSpells(d), Ahead(s)
               PROVE  FALSE
    OBVIOUS
  <2>1. Searched # {}
    BY <1>3, StillToBegin
  <2> DEFINE first == CHOOSE e \in Searched : \A f \in Searched : e <= f
  <2>2. /\ first \in Searched
        /\ NextOpening =
             {at \in After(first) : \A other \in After(first) : at <= other}
    <3>1. \A e \in Searched : e \in Int /\ Date <= e
      BY <1>1 DEF Searched
    <3>2. \E e \in Searched : \A f \in Searched : e <= f
      BY <1>1, <2>1, <3>1, FirstDay
    <3>. QED
      BY <2>1, <3>2, NextOpeningIs
  <2> HIDE DEF first
  <2>3. /\ first \in Int /\ first >= ZonedDate(now) - 2 /\ After(first) # {}
    BY <1>1, <2>2 DEF Searched
  <2>4. NextOpening # {}
    BY <2>2, <2>3, FirstAfter
  <2>. QED
    BY <1>3, <2>4, Announced
<1>4. ASSUME ~State.isOpen, NEW at \in State.nextOpenAt
      PROVE  /\ at > now
             /\ \E d \in days : BeginsOpen(d, at) \/ BreakAtEdge(d, at)
             /\ \A d \in days : \A s \in OpenSpells(d) :
                   Ahead(s) => at <= s.from
  <2>1. at \in NextOpening
    BY <1>4, Announced
  <2>2. Searched # {}
    BY <2>1, NextOpeningIs
  <2> DEFINE first == CHOOSE e \in Searched : \A f \in Searched : e <= f
  <2>3. /\ first \in Searched /\ \A f \in Searched : first <= f
        /\ NextOpening =
             {a \in After(first) : \A other \in After(first) : a <= other}
    <3>1. \A e \in Searched : e \in Int /\ Date <= e
      BY <1>1 DEF Searched
    <3>2. \E e \in Searched : \A f \in Searched : e <= f
      BY <1>1, <2>2, <3>1, FirstDay
    <3>. QED
      BY <2>2, <3>2, NextOpeningIs
  <2> HIDE DEF first
  <2>4. /\ first \in Int /\ first >= ZonedDate(now) - 2
        /\ first \in days
    BY <1>1, <2>3 DEF Searched
  <2>5. at \in After(first) /\ \A other \in After(first) : at <= other
    BY <2>1, <2>3
  <2>6. /\ at \in Int /\ at <= At(first + 1, store.cutoff) /\ at > now
        /\ BeginsOpen(first, at) \/ BreakAtEdge(first, at)
    BY <2>4, <2>5, SpellsBegin DEF After
  <2>7. ASSUME NEW d \in days, NEW s \in OpenSpells(d), Ahead(s)
        PROVE  at <= s.from
    <3>1. d \in Searched /\ s.from \in After(d)
      BY <1>4, <2>7, StillToBegin
    <3>2. /\ d \in Int /\ d >= ZonedDate(now) - 2 /\ first <= d
      BY <1>1, <2>3, <3>1 DEF Searched
    <3>3. CASE d = first
      BY <2>5, <3>1, <3>3
    <3>4. CASE d # first
      <4>1. s.from \in Int /\ At(d, store.cutoff) <= s.from
        BY <3>1, <3>2, SpellsBegin DEF After
      <4>2. /\ At(d, store.cutoff) = d * 1440 + store.cutoff - Offset
            /\ At(first + 1, store.cutoff)
                 = (first + 1) * 1440 + store.cutoff - Offset
        BY <1>1, <2>4, <3>2, Numbers
       DEF At, BusinessDateMinuteToDate, MinutesPerDay
      <4>3. first + 1 <= d
        BY <2>4, <3>2, <3>4
      <4>. QED
        BY <1>1, <2>4, <2>6, <3>2, <4>1, <4>2, <4>3
    <3>. QED
      BY <3>3, <3>4
  <2>. QED
    BY <2>4, <2>6, <2>7
<1>5. ASSUME NEW at \in State.closesAt
      PROVE  /\ at > now
             /\ \E s \in OpenSpells(Date) : s.to = at
             /\ \A s \in OpenSpells(Date) : s.to <= at
  <2> DEFINE p == DayPlanFor(Date, hours, closures)
  <2>1. /\ p.kind = "window" /\ IsWindow(p) /\ Minute < p.close
        /\ at = At(Date, p.close)
    BY <1>5, Announced
  <2> HIDE DEF p
  <2>2. p.close \in Int
    BY <2>1 DEF IsWindow
  <2>3. at = Date * 1440 + p.close - Offset
    BY <1>1, <2>1, <2>2, Numbers
       DEF At, BusinessDateMinuteToDate, MinutesPerDay
  <2>4. at > now
    BY <1>1, <2>1, <2>2, <2>3
  <2>5. CASE p.break = {}
    <3>1. OpenSpells(Date) = {[from |-> At(Date, p.open), to |-> At(Date, p.close)]}
      BY <2>1, <2>5, SpellsOf DEF p, At
    <3>2. at \in Int /\ at <= at
      BY <1>1, <2>2, <2>3
    <3>. QED
      BY <2>1, <2>4, <3>1, <3>2
  <2>6. CASE p.break # {}
    <3>1. PICK b \in Break : p.break = {b} /\ b.start < b.end /\ b.end <= p.close
      BY <2>1, <2>6 DEF IsWindow
    <3>2. OpenSpells(Date) =
            {[from |-> At(Date, p.open), to |-> At(Date, b.start)],
             [from |-> At(Date, b.end), to |-> At(Date, p.close)]}
      BY <2>1, <3>1, SpellsOf DEF p, At
    <3>3. b.start \in Int /\ b.end \in Int
      BY MinutesBound DEF Break
    <3>4. At(Date, b.start) = Date * 1440 + b.start - Offset
      BY <1>1, <3>3, Numbers
       DEF At, BusinessDateMinuteToDate, MinutesPerDay
    <3>5. At(Date, b.start) <= at /\ at <= at
      BY <1>1, <2>2, <2>3, <3>1, <3>3, <3>4
    <3>. QED
      BY <2>1, <2>4, <3>2, <3>5
  <2>. QED
    BY <2>5, <2>6
<1>. QED
  BY <1>2, <1>3, <1>4, <1>5 DEF AnnouncedTimesHold

-----------------------------------------------------------------------------
(* The edits.  What a request that is not stale has checked still holds.   *)
HasChecked(q) ==
  CASE q.op = "hours" -> HoursFit(store.cutoff, q.payload)
    [] q.op = "create" -> ClosureFits(store.cutoff, q.payload.row)
    [] q.op = "update" ->
         IF q.pc = "storeRead" THEN q.cutoff = store.cutoff
                               ELSE ClosureFits(store.cutoff, q.payload.row)
    [] q.op = "cutoff" ->
         /\ HoursFit(q.payload, hours)
         /\ q.pc = "checked" =>
              ClosuresFit(q.payload, closures, GetBusinessDate(now, q.payload))
    [] OTHER -> TRUE

ChecksHold ==
  \A r \in Requests \ stale : reqs[r].pc # "idle" => HasChecked(reqs[r])

IInv == TypeOK /\ ChecksHold

\* The member of a nullable value has the type.
LEMMA Typing ==
  ASSUME NEW S, NEW v, Nullable(v, S), NEW x \in v
  PROVE  x \in S
BY DEF Nullable

\* The types hold at the start.
LEMMA TypeInit == Init => TypeOK
<1> SUFFICES ASSUME Init PROVE TypeOK
  OBVIOUS
<1>1. store \in [cutoff : Cutoffs, paused : BOOLEAN]
  BY DEF Init
<1>2. IsWeeklyHours(hours)
  <2>1. CASE hours \in HoursPayloads
    BY <2>1, ScheduleAssumption
  <2>2. CASE hours = NoRows
    BY <2>2 DEF IsWeeklyHours, NoRows
  <2>. QED
    BY <2>1, <2>2 DEF Init
<1>3. IsClosureBook(closures)
  BY DEF Init, IsClosureBook, NoRows
<1>. QED
  BY <1>1, <1>2, <1>3 DEF Init, TypeOK, Idle, IsRequest, NoRows

(* A request that sets out or moves on, and writes nothing.                *)
LEMMA MoveTyped ==
  ASSUME TypeOK, UNCHANGED <<store, hours, closures, now>>, stale' \subseteq Requests,
         NEW r \in Requests, NEW q, reqs' = [reqs EXCEPT ![r] = q], IsRequest(q)
  PROVE  TypeOK'
<1>1. \A p \in Requests : reqs'[p] = IF p = r THEN q ELSE reqs[p]
  BY DEF TypeOK
<1>2. \A p \in Requests : IsRequest(reqs'[p])
  BY <1>1 DEF TypeOK
<1>3. \A p \in Requests : IsRequest(reqs[p])'
  BY <1>2 DEF IsRequest
<1>. QED
  BY <1>3 DEF TypeOK, IsWeeklyHours, IsClosureBook, IsHourRow, IsClosureRow,
              ValidHours

\* A request that has not started is well typed.
LEMMA IdleTyped == IsRequest(Idle)
BY DEF IsRequest, Idle

(* A write ends requests; the others still name closures that are there.   *)
LEMMA WriteTyped ==
  ASSUME TypeOK,
         store' \in [cutoff : Cutoffs, paused : BOOLEAN],
         IsWeeklyHours(hours'), ValidHours(hours'),
         IsClosureBook(closures'),
         \A d \in DOMAIN closures' : ValidClosure(closures'[d]),
         now' \in Instants, stale' \subseteq Requests,
         DOMAIN reqs' = Requests,
         \A q \in Requests :
            \/ reqs'[q] = Idle
            \/ /\ reqs'[q] = reqs[q]
               /\ reqs[q].op \in {"update", "delete"} /\ reqs[q].pc # "idle" =>
                    reqs[q].payload.date \in DOMAIN closures'
  PROVE  TypeOK'
<1>1. ASSUME NEW q \in Requests
      PROVE  IsRequest(reqs[q])'
  <2>1. CASE reqs'[q] = Idle
    BY <2>1 DEF IsRequest, Idle
  <2>2. CASE reqs'[q] = reqs[q] /\ reqs[q].pc = "idle"
    BY <2>2 DEF IsRequest
  <2>3. CASE /\ reqs'[q] = reqs[q] /\ reqs[q].pc # "idle"
             /\ reqs[q].op \in {"update", "delete"} =>
                  reqs[q].payload.date \in DOMAIN closures'
    <3>1. IsRequest(reqs[q])
      BY DEF TypeOK
    <3>. QED
      BY <3>1, <2>3 DEF IsRequest
  <2>. QED
    BY <2>1, <2>2, <2>3
<1>. QED
  BY <1>1 DEF TypeOK

\* The closure that an edit under way has found is still there.
LEMMA StillNamed ==
  ASSUME TypeOK, NEW q \in Requests, reqs[q].op \in {"update", "delete"},
         reqs[q].pc # "idle"
  PROVE  reqs[q].payload.date \in DOMAIN closures
BY DEF TypeOK, IsRequest

\* Every step keeps the types.
LEMMA TypeStep == TypeOK /\ [Next]_vars => TypeOK'
<1> SUFFICES ASSUME TypeOK, [Next]_vars PROVE TypeOK'
  OBVIOUS
<1>1. ASSUME NEW r \in Requests, ReceiveHours(r)
      PROVE  TypeOK'
  <2>1. PICK days \in HoursPayloads :
          ValidHours(days) /\ Received(r, "hours", days)
    BY <1>1 DEF ReceiveHours
  <2>2. IsWeeklyHours(days)
    BY ScheduleAssumption
  <2>3. IsRequest([pc |-> "checked", op |-> "hours", payload |-> days])
    BY <2>1, <2>2 DEF IsRequest
  <2>. QED
    BY <1>1, <2>1, <2>3, MoveTyped DEF ReceiveHours, Reads, Received, TypeOK
<1>2. ASSUME NEW r \in Requests, ReceiveClosure(r)
      PROVE  TypeOK'
  <2>1. PICK date \in Dates, row \in ClosurePayloads :
          /\ ValidClosure(row)
          /\ Received(r, "create", [date |-> date, row |-> row])
    BY <1>2 DEF ReceiveClosure
  <2>2. IsClosureRow(row)
    BY ScheduleAssumption
  <2>3. IsRequest([pc |-> "checked", op |-> "create",
                   payload |-> [date |-> date, row |-> row]])
    BY <2>1, <2>2 DEF IsRequest
  <2>. QED
    BY <1>2, <2>1, <2>3, MoveTyped DEF ReceiveClosure, Reads, Received, TypeOK
<1>3. ASSUME NEW r \in Requests, ReceivePatch(r)
      PROVE  TypeOK'
  <2>1. PICK date \in DOMAIN closures, row \in ClosurePayloads,
             fields \in SUBSET {"open", "close"} :
          reqs' = [reqs EXCEPT ![r] =
            [pc |-> "storeRead", op |-> "update", cutoff |-> store.cutoff,
             payload |-> [date |-> date, patch |-> [f \in fields |-> row[f]]]]]
    BY <1>3 DEF ReceivePatch
  <2>2. IsClosureRow(row)
    BY ScheduleAssumption
  <2>3. \A f \in fields : Nullable(row[f], Minutes)
    BY <2>2 DEF IsClosureRow
  <2>4. IsRequest([pc |-> "storeRead", op |-> "update", cutoff |-> store.cutoff,
                   payload |-> [date |-> date, patch |-> [f \in fields |-> row[f]]]])
    BY <2>3 DEF IsRequest, TypeOK
  <2>. QED
    BY <1>3, <2>1, <2>4, MoveTyped DEF ReceivePatch, Reads, TypeOK
<1>4. ASSUME NEW r \in Requests, ReceiveDelete(r)
      PROVE  TypeOK'
  <2>1. PICK date \in DOMAIN closures : Received(r, "delete", [date |-> date])
    BY <1>4 DEF ReceiveDelete
  <2>2. IsRequest([pc |-> "checked", op |-> "delete", payload |-> [date |-> date]])
    BY DEF IsRequest
  <2>. QED
    BY <1>4, <2>1, <2>2, MoveTyped DEF ReceiveDelete, Reads, Received, TypeOK
<1>5. ASSUME NEW r \in Requests, ReceiveCutoff(r)
      PROVE  TypeOK'
  <2>1. PICK c \in Cutoffs :
          reqs' = [reqs EXCEPT ![r] = [pc |-> "hoursChecked", op |-> "cutoff",
                                       payload |-> c]]
    BY <1>5 DEF ReceiveCutoff
  <2>2. IsRequest([pc |-> "hoursChecked", op |-> "cutoff", payload |-> c])
    BY DEF IsRequest
  <2>. QED
    BY <1>5, <2>1, <2>2, MoveTyped DEF ReceiveCutoff, Reads, TypeOK
<1>6. ASSUME NEW r \in Requests, CheckClosures(r)
      PROVE  TypeOK'
  <2>1. PICK q \in {[pc |-> "checked", op |-> "cutoff", payload |-> reqs[r].payload],
                    Idle} :
          reqs' = [reqs EXCEPT ![r] = q]
    BY <1>6 DEF CheckClosures
  <2>2. reqs[r].pc = "hoursChecked" /\ IsRequest(reqs[r])
    BY <1>6 DEF CheckClosures, TypeOK
  <2>3. IsRequest([pc |-> "checked", op |-> "cutoff", payload |-> reqs[r].payload])
    BY <2>2 DEF IsRequest
  <2>. QED
    BY <1>6, <2>1, <2>2, <2>3, IdleTyped, MoveTyped DEF CheckClosures, TypeOK
<1>7. ASSUME NEW r \in Requests, ReadClosure(r)
      PROVE  TypeOK'
  <2> DEFINE date == reqs[r].payload.date
             patch == reqs[r].payload.patch
             new == [f \in {"open", "close"} |->
                       IF f \in DOMAIN patch THEN patch[f] ELSE closures[date][f]]
  <2>1. reqs[r].pc = "storeRead" /\ IsRequest(reqs[r])
    BY <1>7 DEF ReadClosure, TypeOK
  <2>2. /\ date \in DOMAIN closures
        /\ \A f \in DOMAIN patch : Nullable(patch[f], Minutes)
    BY <2>1 DEF IsRequest
  <2>3. IsClosureRow(closures[date])
    BY <2>2 DEF TypeOK, IsClosureBook
  <2>4. IsClosureRow(new)
    <3>1. Nullable(new.open, Minutes)
      BY <2>2, <2>3 DEF IsClosureRow
    <3>2. Nullable(new.close, Minutes)
      BY <2>2, <2>3 DEF IsClosureRow
    <3>3. new = [open |-> new.open, close |-> new.close]
      OBVIOUS
    <3> HIDE DEF new
    <3>. QED
      BY <3>1, <3>2, <3>3 DEF IsClosureRow
  <2> HIDE DEF new
  <2>5. CASE MayBecome(reqs[r].cutoff, new)
    <3>1. reqs' = [reqs EXCEPT ![r] =
                     [pc |-> "checked", op |-> "update",
                      payload |-> [date |-> date, row |-> new]]]
      BY <1>7, <2>5 DEF ReadClosure, new
    <3>2. ValidClosure(new)
      BY <2>5 DEF MayBecome
    <3>3. IsRequest([pc |-> "checked", op |-> "update",
                     payload |-> [date |-> date, row |-> new]])
      BY <2>2, <2>4, <3>2 DEF IsRequest
    <3>. QED
      BY <1>7, <3>1, <3>3, MoveTyped DEF ReadClosure, TypeOK
  <2>6. CASE ~MayBecome(reqs[r].cutoff, new)
    <3>1. reqs' = [reqs EXCEPT ![r] = Idle]
      BY <1>7, <2>6 DEF ReadClosure, new
    <3>. QED
      BY <1>7, <3>1, IdleTyped, MoveTyped DEF ReadClosure, TypeOK
  <2>. QED
    BY <2>5, <2>6
<1>8. ASSUME NEW r \in Requests, ReplaceBusinessHours(r)
      PROVE  TypeOK'
  <2>1. IsRequest(reqs[r]) /\ reqs[r].pc = "checked" /\ reqs[r].op = "hours"
    BY <1>8 DEF ReplaceBusinessHours, Commits, TypeOK
  <2>2. IsWeeklyHours(hours') /\ ValidHours(hours')
    BY <1>8, <2>1 DEF ReplaceBusinessHours, IsRequest
  <2>3. \A q \in Requests : reqs'[q] = Idle \/ reqs'[q] = reqs[q]
    BY <1>8 DEF ReplaceBusinessHours, Overtakes, Ends, TypeOK
  <2>4. DOMAIN reqs' = Requests /\ stale' \subseteq Requests
    BY <1>8 DEF ReplaceBusinessHours, Overtakes, Ends, TypeOK
  <2>5. UNCHANGED <<store, closures, now>>
    BY <1>8 DEF ReplaceBusinessHours
  <2>. QED
    BY <2>2, <2>3, <2>4, <2>5, StillNamed, WriteTyped DEF TypeOK
<1>9. ASSUME NEW r \in Requests, CreateClosure(r)
      PROVE  TypeOK'
  <2> DEFINE new == reqs[r].payload
  <2>1. /\ new.date \in Dates /\ IsClosureRow(new.row) /\ ValidClosure(new.row)
    <3>1. IsRequest(reqs[r]) /\ reqs[r].pc = "checked" /\ reqs[r].op = "create"
      BY <1>9 DEF CreateClosure, Commits, TypeOK
    <3>. QED
      BY <3>1 DEF IsRequest
  <2>2. /\ IsClosureBook(closures') /\ DOMAIN closures \subseteq DOMAIN closures'
        /\ \A d \in DOMAIN closures' : ValidClosure(closures'[d])
    <3>1. CASE closures' = closures
      BY <3>1 DEF TypeOK
    <3>2. CASE closures' = [d \in DOMAIN closures \cup {new.date} |->
                              IF d = new.date THEN new.row ELSE closures[d]]
      <4>1. DOMAIN closures' = DOMAIN closures \cup {new.date}
        BY <3>2
      <4>2. \A d \in DOMAIN closures' :
               closures'[d] = IF d = new.date THEN new.row ELSE closures[d]
        BY <3>2
      <4>3. closures' = [d \in DOMAIN closures' |-> closures'[d]]
        BY <3>2
      <4>4. \A d \in DOMAIN closures' :
               IsClosureRow(closures'[d]) /\ ValidClosure(closures'[d])
        BY <2>1, <4>1, <4>2 DEF TypeOK, IsClosureBook
      <4>5. DOMAIN closures' \subseteq Dates
        BY <2>1, <4>1 DEF TypeOK, IsClosureBook
      <4>. QED
        BY <4>1, <4>3, <4>4, <4>5 DEF IsClosureBook
    <3>. QED
      BY <1>9, <3>1, <3>2 DEF CreateClosure
  <2>3. /\ \A q \in Requests : reqs'[q] = Idle \/ reqs'[q] = reqs[q]
        /\ DOMAIN reqs' = Requests /\ stale' \subseteq Requests
    BY <1>9 DEF CreateClosure, Overtakes, Ends, TypeOK
  <2>4. UNCHANGED <<store, hours, now>>
    BY <1>9 DEF CreateClosure
  <2>. QED
    BY <2>2, <2>3, <2>4, StillNamed, WriteTyped DEF TypeOK
<1>10. ASSUME NEW r \in Requests, PartialUpdateClosure(r)
       PROVE  TypeOK'
  <2> DEFINE new == reqs[r].payload
  <2>1. /\ new.date \in DOMAIN closures
        /\ IsClosureRow(new.row) /\ ValidClosure(new.row)
    <3>1. IsRequest(reqs[r]) /\ reqs[r].pc = "checked" /\ reqs[r].op = "update"
      BY <1>10 DEF PartialUpdateClosure, Commits, TypeOK
    <3>. QED
      BY <3>1 DEF IsRequest
  <2>2. closures' = [closures EXCEPT ![new.date] = new.row]
    BY <1>10 DEF PartialUpdateClosure
  <2>3. /\ DOMAIN closures' = DOMAIN closures
        /\ closures' = [d \in DOMAIN closures' |-> closures'[d]]
        /\ \A d \in DOMAIN closures' :
              closures'[d] = IF d = new.date THEN new.row ELSE closures[d]
    BY <2>1, <2>2
  <2>4. /\ IsClosureBook(closures')
        /\ \A d \in DOMAIN closures' : ValidClosure(closures'[d])
    BY <2>1, <2>3 DEF TypeOK, IsClosureBook
  <2>5. /\ \A q \in Requests : reqs'[q] = Idle \/ reqs'[q] = reqs[q]
        /\ DOMAIN reqs' = Requests /\ stale' \subseteq Requests
    BY <1>10 DEF PartialUpdateClosure, Overtakes, Ends, TypeOK
  <2>6. UNCHANGED <<store, hours, now>>
    BY <1>10 DEF PartialUpdateClosure
  <2>. QED
    BY <2>3, <2>4, <2>5, <2>6, StillNamed, WriteTyped DEF TypeOK
<1>11. ASSUME NEW r \in Requests, DeleteClosure(r)
       PROVE  TypeOK'
  <2> DEFINE date == reqs[r].payload.date
  <2>1. closures' = [d \in DOMAIN closures \ {date} |-> closures[d]]
    BY <1>11 DEF DeleteClosure
  <2>2. /\ DOMAIN closures' = DOMAIN closures \ {date}
        /\ closures' = [d \in DOMAIN closures' |-> closures'[d]]
        /\ \A d \in DOMAIN closures' : closures'[d] = closures[d]
    BY <2>1
  <2>3. /\ IsClosureBook(closures')
        /\ \A d \in DOMAIN closures' : ValidClosure(closures'[d])
    BY <2>2 DEF TypeOK, IsClosureBook
  <2>4. \A q \in Requests :
          reqs'[q] = IF Names(reqs[q], date) THEN Idle ELSE reqs[q]
    BY <1>11 DEF DeleteClosure
  <2>5. DOMAIN reqs' = Requests /\ stale' \subseteq Requests
    BY <1>11 DEF DeleteClosure, TypeOK
  <2>6. UNCHANGED <<store, hours, now>>
    BY <1>11 DEF DeleteClosure
  <2>7. ASSUME NEW q \in Requests
        PROVE  \/ reqs'[q] = Idle
               \/ /\ reqs'[q] = reqs[q]
                  /\ reqs[q].op \in {"update", "delete"} /\ reqs[q].pc # "idle" =>
                       reqs[q].payload.date \in DOMAIN closures'
    BY <2>2, <2>4, StillNamed DEF Names
  <2>. QED
    BY <2>3, <2>5, <2>6, <2>7, WriteTyped DEF TypeOK
<1>12. ASSUME NEW r \in Requests, MoveCutoff(r)
       PROVE  TypeOK'
  <2>1. IsRequest(reqs[r]) /\ reqs[r].pc = "checked" /\ reqs[r].op = "cutoff"
    BY <1>12 DEF MoveCutoff, Commits, TypeOK
  <2>2. reqs[r].payload \in Cutoffs
    BY <2>1 DEF IsRequest
  <2>3. store' = [store EXCEPT !.cutoff = reqs[r].payload]
    BY <1>12 DEF MoveCutoff
  <2>4. store' \in [cutoff : Cutoffs, paused : BOOLEAN]
    BY <2>2, <2>3 DEF TypeOK
  <2>5. /\ \A q \in Requests : reqs'[q] = Idle \/ reqs'[q] = reqs[q]
        /\ DOMAIN reqs' = Requests /\ stale' \subseteq Requests
    BY <1>12 DEF MoveCutoff, Overtakes, Ends, TypeOK
  <2>6. UNCHANGED <<hours, closures, now>>
    BY <1>12 DEF MoveCutoff
  <2>. QED
    BY <2>4, <2>5, <2>6, StillNamed, WriteTyped DEF TypeOK
<1>13. CASE SetPaused
  <2>1. store' \in [cutoff : Cutoffs, paused : BOOLEAN]
    BY <1>13 DEF SetPaused, TypeOK
  <2>. QED
    BY <1>13, <2>1, StillNamed, WriteTyped DEF SetPaused, TypeOK
<1>14. CASE Tick
  BY <1>14, StillNamed, WriteTyped DEF Tick, TypeOK
<1>15. CASE UNCHANGED vars
  BY <1>15, StillNamed, WriteTyped DEF vars, TypeOK
<1>. QED
  BY <1>1, <1>2, <1>3, <1>4, <1>5, <1>6, <1>7, <1>8, <1>9, <1>10, <1>11, <1>12,
     <1>13, <1>14, <1>15 DEF Next, Step
-----------------------------------------------------------------------------
(* ChecksHold step by step.  A step that moves one request and writes      *)
(* nothing has to show only what that request has checked.                 *)
LEMMA MoveChecked ==
  ASSUME IInv, UNCHANGED <<store, hours, closures, now>>,
         NEW r \in Requests, NEW q, reqs' = [reqs EXCEPT ![r] = q],
         stale \ {r} \subseteq stale',
         r \notin stale' /\ q.pc # "idle" => HasChecked(q)
  PROVE  ChecksHold'
<1>1. \A p \in Requests : reqs'[p] = IF p = r THEN q ELSE reqs[p]
  BY DEF IInv, TypeOK
<1>2. ASSUME NEW p \in Requests, p \notin stale', reqs'[p].pc # "idle"
      PROVE  HasChecked(reqs'[p])
  BY <1>1, <1>2 DEF IInv, ChecksHold
<1>3. ASSUME NEW p \in Requests, p \notin stale', reqs'[p].pc # "idle"
      PROVE  HasChecked(reqs[p])'
  BY <1>2, <1>3 DEF HasChecked, HoursFit, ClosuresFit
<1>. QED
  BY <1>3 DEF ChecksHold

(* A step that writes ends requests and leaves the others as they were: of *)
(* those that are not stale it has to leave true what they have checked.   *)
LEMMA WriteChecked ==
  ASSUME IInv,
         \A q \in Requests : reqs'[q] = Idle \/ reqs'[q] = reqs[q],
         \A q \in Requests : q \in stale /\ reqs'[q] # Idle => q \in stale',
         \A q \in Requests \ stale' :
            reqs'[q] = reqs[q] /\ reqs[q].pc # "idle" /\ HasChecked(reqs[q])
              => HasChecked(reqs[q])'
  PROVE  ChecksHold'
<1>1. ASSUME NEW q \in Requests \ stale', reqs'[q].pc # "idle"
      PROVE  HasChecked(reqs[q])'
  <2>1. reqs'[q] # Idle
    BY <1>1 DEF Idle
  <2>2. reqs'[q] = reqs[q] /\ q \notin stale
    BY <2>1
  <2>3. HasChecked(reqs[q])
    BY <1>1, <2>2 DEF IInv, ChecksHold
  <2>. QED
    BY <1>1, <2>2, <2>3
<1>. QED
  BY <1>1 DEF ChecksHold

(* Later closures are fewer.                                               *)
LEMMA FewerClosures ==
  ASSUME NEW t \in Int, NEW u \in Int, t <= u, NEW c \in Cutoffs, NEW cls,
         DOMAIN cls \subseteq Int,
         ClosuresFit(c, cls, GetBusinessDate(t, c))
  PROVE  ClosuresFit(c, cls, GetBusinessDate(u, c))
<1>1. c \in Int /\ 0 <= c /\ c <= 720
  BY Numbers
<1>2. GetBusinessDate(t, c) <= GetBusinessDate(u, c)
  BY <1>1, DatesGoForward
<1>3. GetBusinessDate(t, c) \in Int /\ GetBusinessDate(u, c) \in Int
  BY <1>1, BusinessNow
<1>. QED
  BY <1>2, <1>3 DEF ClosuresFit

(* A write of hours or closures overtakes the moves of the cutoff only.    *)
LEMMA OvertakenByRows ==
  ASSUME IInv, NEW r \in Requests, reqs[r].pc = "checked",
         Overtakes(r, {"cutoff"}), UNCHANGED store
  PROVE  ChecksHold'
<1>1. /\ \A q \in Requests : reqs'[q] = IF q = r THEN Idle ELSE reqs[q]
      /\ stale' = (stale \ {r})
           \cup {q \in Requests \ {r} : reqs[q].pc # "idle" /\ reqs[q].op \in {"cutoff"}}
  BY DEF Overtakes, Ends, IInv, TypeOK
<1>2. ASSUME NEW q \in Requests \ stale', reqs'[q] = reqs[q],
             reqs[q].pc # "idle", HasChecked(reqs[q])
      PROVE  HasChecked(reqs[q])'
  <2>1. q # r
    BY <1>1, <1>2 DEF Idle
  <2>2. reqs[q].op # "cutoff"
    BY <1>1, <1>2, <2>1
  <2>. QED
    BY <1>2, <2>2 DEF HasChecked
<1>. QED
  BY <1>1, <1>2, WriteChecked

\* Every step keeps what the requests under way have checked.
LEMMA CheckStep == IInv /\ [Next]_vars => ChecksHold'
<1> SUFFICES ASSUME IInv, [Next]_vars PROVE ChecksHold'
  OBVIOUS
<1>. USE DEF IInv
<1>1. ASSUME NEW r \in Requests, ReceiveHours(r)
      PROVE  ChecksHold'
  <2>1. PICK days \in HoursPayloads :
          /\ HoursFit(store.cutoff, days)
          /\ reqs' = [reqs EXCEPT ![r] =
                        [pc |-> "checked", op |-> "hours", payload |-> days]]
    BY <1>1 DEF ReceiveHours, Received
  <2>2. HasChecked([pc |-> "checked", op |-> "hours", payload |-> days])
    BY <2>1 DEF HasChecked
  <2>. QED
    BY <1>1, <2>1, <2>2, MoveChecked DEF ReceiveHours, Reads
<1>2. ASSUME NEW r \in Requests, ReceiveClosure(r)
      PROVE  ChecksHold'
  <2>1. PICK date \in Dates, row \in ClosurePayloads :
          /\ ClosureFits(store.cutoff, row)
          /\ reqs' = [reqs EXCEPT ![r] =
                        [pc |-> "checked", op |-> "create",
                         payload |-> [date |-> date, row |-> row]]]
    BY <1>2 DEF ReceiveClosure, Received
  <2>2. HasChecked([pc |-> "checked", op |-> "create",
                    payload |-> [date |-> date, row |-> row]])
    BY <2>1 DEF HasChecked
  <2>. QED
    BY <1>2, <2>1, <2>2, MoveChecked DEF ReceiveClosure, Reads
<1>3. ASSUME NEW r \in Requests, ReceivePatch(r)
      PROVE  ChecksHold'
  <2>1. PICK p :
          reqs' = [reqs EXCEPT ![r] =
            [pc |-> "storeRead", op |-> "update", cutoff |-> store.cutoff,
             payload |-> p]]
    BY <1>3 DEF ReceivePatch
  <2>2. HasChecked([pc |-> "storeRead", op |-> "update", cutoff |-> store.cutoff,
                    payload |-> p])
    BY DEF HasChecked
  <2>. QED
    BY <1>3, <2>1, <2>2, MoveChecked DEF ReceivePatch, Reads
<1>4. ASSUME NEW r \in Requests, ReceiveDelete(r)
      PROVE  ChecksHold'
  <2>1. PICK date :
          reqs' = [reqs EXCEPT ![r] =
                     [pc |-> "checked", op |-> "delete", payload |-> [date |-> date]]]
    BY <1>4 DEF ReceiveDelete, Received
  <2>2. HasChecked([pc |-> "checked", op |-> "delete", payload |-> [date |-> date]])
    BY DEF HasChecked
  <2>. QED
    BY <1>4, <2>1, <2>2, MoveChecked DEF ReceiveDelete, Reads
<1>5. ASSUME NEW r \in Requests, ReceiveCutoff(r)
      PROVE  ChecksHold'
  <2>1. PICK c \in Cutoffs :
          /\ HoursFit(c, hours)
          /\ reqs' = [reqs EXCEPT ![r] = [pc |-> "hoursChecked", op |-> "cutoff",
                                          payload |-> c]]
    BY <1>5 DEF ReceiveCutoff
  <2>2. HasChecked([pc |-> "hoursChecked", op |-> "cutoff", payload |-> c])
    BY <2>1 DEF HasChecked
  <2>. QED
    BY <1>5, <2>1, <2>2, MoveChecked DEF ReceiveCutoff, Reads
<1>6. ASSUME NEW r \in Requests, CheckClosures(r)
      PROVE  ChecksHold'
  <2> DEFINE c == reqs[r].payload
             fits == ClosuresFit(c, closures, GetBusinessDate(now, c))
             new == IF fits THEN [pc |-> "checked", op |-> "cutoff", payload |-> c]
                            ELSE Idle
  <2>1. reqs[r].pc = "hoursChecked" /\ reqs[r].op = "cutoff"
    BY <1>6 DEF CheckClosures, TypeOK, IsRequest
  <2>2. r \notin stale => HoursFit(c, hours)
    BY <2>1 DEF ChecksHold, HasChecked
  <2>3. reqs' = [reqs EXCEPT ![r] = new]
    BY <1>6 DEF CheckClosures
  <2>4. ASSUME r \notin stale, new.pc # "idle"
        PROVE  HasChecked(new)
    <3>1. fits /\ new = [pc |-> "checked", op |-> "cutoff", payload |-> c]
      BY <2>4 DEF Idle
    <3> HIDE DEF c
    <3>. QED
      BY <3>1, <2>2, <2>4 DEF HasChecked
  <2> HIDE DEF new
  <2>. QED
    BY <1>6, <2>3, <2>4, MoveChecked DEF CheckClosures
<1>7. ASSUME NEW r \in Requests, ReadClosure(r)
      PROVE  ChecksHold'
  <2>1. PICK row : reqs' = [reqs EXCEPT ![r] =
                     IF MayBecome(reqs[r].cutoff, row)
                     THEN [pc |-> "checked", op |-> "update",
                           payload |-> [date |-> reqs[r].payload.date, row |-> row]]
                     ELSE Idle]
    BY <1>7 DEF ReadClosure
  <2> DEFINE new == IF MayBecome(reqs[r].cutoff, row)
                    THEN [pc |-> "checked", op |-> "update",
                          payload |-> [date |-> reqs[r].payload.date, row |-> row]]
                    ELSE Idle
  <2>2. reqs[r].pc = "storeRead" /\ reqs[r].op = "update"
    BY <1>7 DEF ReadClosure, TypeOK, IsRequest
  <2>3. r \notin stale => reqs[r].cutoff = store.cutoff
    BY <2>2 DEF ChecksHold, HasChecked
  <2>4. ASSUME r \notin stale, new.pc # "idle"
        PROVE  HasChecked(new)
    <3>1. /\ MayBecome(reqs[r].cutoff, row)
          /\ new = [pc |-> "checked", op |-> "update",
                    payload |-> [date |-> reqs[r].payload.date, row |-> row]]
      BY <2>4 DEF Idle
    <3>2. ClosureFits(store.cutoff, row)
      BY <3>1, <2>3, <2>4 DEF MayBecome
    <3>. QED
      BY <3>1, <3>2 DEF HasChecked
  <2>5. reqs' = [reqs EXCEPT ![r] = new]
    BY <2>1
  <2> HIDE DEF new
  <2>. QED
    BY <1>7, <2>5, <2>4, MoveChecked DEF ReadClosure
<1>8. ASSUME NEW r \in Requests, ReplaceBusinessHours(r)
      PROVE  ChecksHold'
  <2>1. Overtakes(r, {"cutoff"}) /\ UNCHANGED <<store, closures, now>>
        /\ reqs[r].pc = "checked"
    BY <1>8 DEF ReplaceBusinessHours, Commits
  <2>. QED
    BY <2>1, OvertakenByRows
<1>9. ASSUME NEW r \in Requests, CreateClosure(r)
      PROVE  ChecksHold'
  <2>1. /\ reqs[r].pc = "checked" /\ UNCHANGED <<store, hours, now>>
        /\ \/ Overtakes(r, {"cutoff"})
           \/ Ends(r) /\ UNCHANGED <<closures, stale>>
    BY <1>9 DEF CreateClosure, Commits
  <2>2. CASE Overtakes(r, {"cutoff"})
    BY <2>1, <2>2, OvertakenByRows
  <2>3. CASE Ends(r) /\ UNCHANGED <<closures, stale>>
    <3>1. Idle.pc = "idle"
      BY DEF Idle
    <3>. QED
      BY <2>1, <2>3, <3>1, MoveChecked DEF Ends
  <2>. QED
    BY <2>1, <2>2, <2>3
<1>10. ASSUME NEW r \in Requests, PartialUpdateClosure(r)
       PROVE  ChecksHold'
  <2>1. Overtakes(r, {"cutoff"}) /\ UNCHANGED <<store, hours, now>>
        /\ reqs[r].pc = "checked"
    BY <1>10 DEF PartialUpdateClosure, Commits
  <2>. QED
    BY <2>1, OvertakenByRows
<1>11. ASSUME NEW r \in Requests, DeleteClosure(r)
       PROVE  ChecksHold'
  <2> DEFINE date == reqs[r].payload.date
  <2>1. /\ \A q \in Requests :
             reqs'[q] = IF Names(reqs[q], date) THEN Idle ELSE reqs[q]
        /\ stale' = {q \in stale : ~Names(reqs[q], date)}
        /\ closures' = [d \in DOMAIN closures \ {date} |-> closures[d]]
        /\ UNCHANGED <<store, hours, now>>
    BY <1>11 DEF DeleteClosure
  <2>0. UNCHANGED <<store, hours, now>>
    BY <2>1
  <2>2. ASSUME NEW c, NEW from, ClosuresFit(c, closures, from)
        PROVE  ClosuresFit(c, closures', from)
    <3>1. /\ DOMAIN closures' \subseteq DOMAIN closures
          /\ \A d \in DOMAIN closures' : closures'[d] = closures[d]
      BY <2>1
    <3>. QED
      BY <3>1, <2>2 DEF ClosuresFit
  <2>3. ASSUME NEW q \in Requests, HasChecked(reqs[q]), reqs[q].pc # "idle",
               reqs'[q] = reqs[q]
        PROVE  HasChecked(reqs[q])'
    <3>1. IsRequest(reqs[q])
      BY DEF TypeOK
    <3>2. CASE reqs[q].op = "cutoff"
      <4>1. /\ HoursFit(reqs[q].payload, hours)
            /\ reqs[q].pc = "checked" =>
                 ClosuresFit(reqs[q].payload, closures,
                             GetBusinessDate(now, reqs[q].payload))
        BY <2>3, <3>2 DEF HasChecked
      <4>2. reqs[q].pc = "checked" =>
              ClosuresFit(reqs[q].payload, closures',
                          GetBusinessDate(now, reqs[q].payload))
        BY <4>1, <2>2
      <4>. QED
        BY <2>0, <2>3, <3>2, <4>1, <4>2
           DEF HasChecked, ClosuresFit, GetBusinessDate, ZonedDate, ZonedMinute
    <3>3. CASE reqs[q].op # "cutoff"
      BY <2>0, <2>3, <3>3 DEF HasChecked
    <3>. QED
      BY <3>2, <3>3
  <2>4. /\ \A q \in Requests : reqs'[q] = Idle \/ reqs'[q] = reqs[q]
        /\ \A q \in Requests : q \in stale /\ reqs'[q] # Idle => q \in stale'
    BY <2>1
  <2>5. ASSUME NEW q \in Requests \ stale'
        PROVE  reqs'[q] = reqs[q] /\ reqs[q].pc # "idle" /\ HasChecked(reqs[q])
                 => HasChecked(reqs[q])'
    <3>. SUFFICES ASSUME reqs'[q] = reqs[q], reqs[q].pc # "idle", HasChecked(reqs[q])
                  PROVE  HasChecked(reqs[q])'
      OBVIOUS
    <3>. QED
      BY <2>3
  <2>. QED
    BY <2>4, <2>5, WriteChecked
<1>12. ASSUME NEW r \in Requests, MoveCutoff(r)
       PROVE  ChecksHold'
  <2>1. /\ Overtakes(r, {"hours", "create", "update"})
        /\ UNCHANGED <<hours, closures, now>>
        /\ reqs[r].pc = "checked"
    BY <1>12 DEF MoveCutoff, Commits
  <2>2. /\ \A q \in Requests : reqs'[q] = IF q = r THEN Idle ELSE reqs[q]
        /\ stale' = (stale \ {r})
             \cup {q \in Requests \ {r} : /\ reqs[q].pc # "idle"
                                         /\ reqs[q].op \in {"hours", "create", "update"}}
    BY <2>1 DEF Overtakes, Ends, TypeOK
  <2>3. ASSUME NEW q \in Requests \ stale', reqs'[q] = reqs[q],
               reqs[q].pc # "idle", HasChecked(reqs[q])
        PROVE  HasChecked(reqs[q])'
    <3>1. q # r
      BY <2>2, <2>3 DEF Idle
    <3>2. reqs[q].op \in {"delete", "cutoff"}
      BY <2>2, <2>3, <3>1 DEF TypeOK, IsRequest
    <3>. QED
      BY <2>1, <2>3, <3>2 DEF HasChecked, HoursFit, ClosuresFit
  <2>. QED
    BY <2>2, <2>3, WriteChecked
<1>13. CASE SetPaused
  <2>1. store'.cutoff = store.cutoff /\ UNCHANGED <<hours, closures, now, reqs, stale>>
    BY <1>13 DEF SetPaused, TypeOK
  <2>2. ASSUME NEW q \in Requests, HasChecked(reqs[q])
        PROVE  HasChecked(reqs[q])'
    BY <2>1, <2>2 DEF HasChecked, HoursFit, ClosuresFit
  <2>. QED
    BY <2>1, <2>2, WriteChecked
<1>14. CASE Tick
  <2>1. /\ now \in Int /\ now' \in Int /\ now <= now'
        /\ UNCHANGED <<store, hours, closures, reqs, stale>>
    BY <1>14, Numbers DEF Tick, TypeOK
  <2>2. DOMAIN closures \subseteq Int
    BY Numbers DEF TypeOK, IsClosureBook
  <2>3. ASSUME NEW c \in Cutoffs, ClosuresFit(c, closures, GetBusinessDate(now, c))
        PROVE  ClosuresFit(c, closures, GetBusinessDate(now', c))
    BY <2>1, <2>2, <2>3, FewerClosures
  <2>4. ASSUME NEW q \in Requests, HasChecked(reqs[q]), reqs[q].pc # "idle"
        PROVE  HasChecked(reqs[q])'
    <3>1. IsRequest(reqs[q])
      BY DEF TypeOK
    <3>2. CASE reqs[q].op = "cutoff"
      <4>1. reqs[q].payload \in Cutoffs
        BY <3>1, <3>2, <2>4 DEF IsRequest
      <4>2. /\ HoursFit(reqs[q].payload, hours)
            /\ reqs[q].pc = "checked" =>
                 ClosuresFit(reqs[q].payload, closures,
                             GetBusinessDate(now, reqs[q].payload))
        BY <2>4, <3>2 DEF HasChecked
      <4>3. reqs[q].pc = "checked" =>
              ClosuresFit(reqs[q].payload, closures,
                          GetBusinessDate(now', reqs[q].payload))
        BY <4>1, <4>2, <2>3
      <4>. QED
        BY <2>1, <3>2, <4>2, <4>3
           DEF HasChecked, ClosuresFit, GetBusinessDate, ZonedDate, ZonedMinute
    <3>3. CASE reqs[q].op # "cutoff"
      BY <2>1, <2>4, <3>3 DEF HasChecked
    <3>. QED
      BY <3>2, <3>3
  <2>5. ASSUME NEW q \in Requests \ stale'
        PROVE  reqs'[q] = reqs[q] /\ reqs[q].pc # "idle" /\ HasChecked(reqs[q])
                 => HasChecked(reqs[q])'
    <3>. SUFFICES ASSUME reqs'[q] = reqs[q], reqs[q].pc # "idle", HasChecked(reqs[q])
                  PROVE  HasChecked(reqs[q])'
      OBVIOUS
    <3>. QED
      BY <2>4
  <2>. QED
    BY <2>1, <2>5, WriteChecked
<1>15. CASE UNCHANGED vars
  <2>1. ASSUME NEW q \in Requests, HasChecked(reqs[q])
        PROVE  HasChecked(reqs[q])'
    BY <1>15, <2>1 DEF vars, HasChecked, HoursFit, ClosuresFit
  <2>. QED
    BY <1>15, <2>1, WriteChecked DEF vars
<1>. QED
  BY <1>1, <1>2, <1>3, <1>4, <1>5, <1>6, <1>7, <1>8, <1>9, <1>10, <1>11, <1>12,
     <1>13, <1>14, <1>15 DEF Next, Step

-----------------------------------------------------------------------------
\* The inductive invariant holds at the start.
LEMMA IInvInit == Init => IInv
<1>1. Init => ChecksHold
  BY DEF Init, ChecksHold, Idle
<1>. QED
  BY <1>1, TypeInit DEF IInv

\* Every step keeps the inductive invariant.
LEMMA IInvStep == IInv /\ [Next]_vars => IInv'
BY TypeStep, CheckStep DEF IInv

(* An edit keeps the schedule inside its business days, unless what it had *)
(* checked against was changed under it.                                   *)
LEMMA FitStep ==
  ASSUME IInv, [Next]_vars, Fits, \A r \in stale : reqs'[r] = reqs[r]
  PROVE  Fits'
<1>1. CASE UNCHANGED <<store, hours, closures, now>>
  BY <1>1 DEF Fits, HoursFit, ClosuresFit
<1>2. ASSUME NEW r \in Requests, reqs[r].pc = "checked", reqs'[r] = Idle
      PROVE  HasChecked(reqs[r]) /\ IsRequest(reqs[r])
  <2>1. reqs[r] # Idle
    BY <1>2 DEF Idle
  <2>. QED
    BY <1>2, <2>1 DEF IInv, ChecksHold, TypeOK
<1>3. ASSUME NEW r \in Requests, Ends(r)
      PROVE  reqs'[r] = Idle
  BY <1>3 DEF Ends, IInv, TypeOK
<1>4. ASSUME NEW r \in Requests, ReplaceBusinessHours(r)
      PROVE  Fits'
  <2>1. /\ reqs[r].pc = "checked" /\ reqs[r].op = "hours" /\ Ends(r)
        /\ hours' = reqs[r].payload /\ UNCHANGED <<store, closures, now>>
    BY <1>4 DEF ReplaceBusinessHours, Commits, Overtakes
  <2>2. HoursFit(store.cutoff, hours')
    BY <1>2, <1>3, <2>1 DEF HasChecked
  <2>. QED
    BY <2>1, <2>2 DEF Fits, HoursFit, ClosuresFit
<1>5. ASSUME NEW r \in Requests, CreateClosure(r), ~UNCHANGED closures
      PROVE  Fits'
  <2> DEFINE new == reqs[r].payload
  <2>1. /\ reqs[r].pc = "checked" /\ reqs[r].op = "create" /\ Ends(r)
        /\ closures' = [d \in DOMAIN closures \cup {new.date} |->
                          IF d = new.date THEN new.row ELSE closures[d]]
        /\ UNCHANGED <<store, hours, now>>
    BY <1>5 DEF CreateClosure, Commits, Overtakes
  <2>2. ClosureFits(store.cutoff, new.row)
    BY <1>2, <1>3, <2>1 DEF HasChecked
  <2>3. \A d \in DOMAIN closures' :
           \/ closures'[d] = new.row
           \/ d \in DOMAIN closures /\ closures'[d] = closures[d]
    BY <2>1
  <2> HIDE DEF new
  <2>. QED
    BY <2>1, <2>2, <2>3 DEF Fits, HoursFit, ClosuresFit
<1>6. ASSUME NEW r \in Requests, PartialUpdateClosure(r)
      PROVE  Fits'
  <2> DEFINE new == reqs[r].payload
  <2>1. /\ reqs[r].pc = "checked" /\ reqs[r].op = "update" /\ Ends(r)
        /\ closures' = [closures EXCEPT ![new.date] = new.row]
        /\ UNCHANGED <<store, hours, now>>
    BY <1>6 DEF PartialUpdateClosure, Commits, Overtakes
  <2>2. ClosureFits(store.cutoff, new.row)
    BY <1>2, <1>3, <2>1 DEF HasChecked
  <2>3. \A d \in DOMAIN closures' :
           /\ d \in DOMAIN closures
           /\ closures'[d] = new.row \/ closures'[d] = closures[d]
    BY <2>1
  <2> HIDE DEF new
  <2>. QED
    BY <2>1, <2>2, <2>3 DEF Fits, HoursFit, ClosuresFit
<1>7. ASSUME NEW r \in Requests, DeleteClosure(r)
      PROVE  Fits'
  <2>1. /\ UNCHANGED <<store, hours, now>>
        /\ closures' = [d \in DOMAIN closures \ {reqs[r].payload.date} |-> closures[d]]
    BY <1>7 DEF DeleteClosure
  <2>2. \A d \in DOMAIN closures' : d \in DOMAIN closures /\ closures'[d] = closures[d]
    BY <2>1
  <2>. QED
    BY <2>1, <2>2 DEF Fits, HoursFit, ClosuresFit
<1>8. ASSUME NEW r \in Requests, MoveCutoff(r)
      PROVE  Fits'
  <2>1. /\ reqs[r].pc = "checked" /\ reqs[r].op = "cutoff" /\ Ends(r)
        /\ store' = [store EXCEPT !.cutoff = reqs[r].payload]
        /\ UNCHANGED <<hours, closures, now>>
    BY <1>8 DEF MoveCutoff, Commits, Overtakes
  <2>2. store'.cutoff = reqs[r].payload
    BY <2>1 DEF IInv, TypeOK
  <2>3. /\ HoursFit(reqs[r].payload, hours)
        /\ ClosuresFit(reqs[r].payload, closures,
                       GetBusinessDate(now, reqs[r].payload))
    BY <1>2, <1>3, <2>1 DEF HasChecked
  <2>. QED
    BY <2>1, <2>2, <2>3 DEF Fits
<1>9. CASE Tick
  <2>1. /\ now \in Int /\ now' \in Int /\ now <= now'
        /\ UNCHANGED <<store, hours, closures>>
    BY <1>9, Numbers DEF Tick, IInv, TypeOK
  <2>2. DOMAIN closures \subseteq Int /\ store.cutoff \in Cutoffs
    BY Numbers DEF IInv, TypeOK, IsClosureBook
  <2>3. ClosuresFit(store.cutoff, closures, GetBusinessDate(now', store.cutoff))
    BY <2>1, <2>2, FewerClosures DEF Fits
  <2>. QED
    BY <2>1, <2>3 DEF Fits, HoursFit
<1>10. CASE SetPaused
  <2>1. store'.cutoff = store.cutoff /\ UNCHANGED <<hours, closures, now>>
    BY <1>10 DEF SetPaused, IInv, TypeOK
  <2>. QED
    BY <2>1 DEF Fits, HoursFit, ClosuresFit
<1>11. ASSUME NEW r \in Requests, Step(r)
       PROVE  Fits'
  BY <1>1, <1>4, <1>5, <1>6, <1>7, <1>8, <1>11
     DEF Step, ReceiveHours, ReceiveClosure, ReceivePatch, ReceiveDelete,
         ReceiveCutoff, CheckClosures, ReadClosure, Reads, CreateClosure
<1>. QED
  BY <1>1, <1>9, <1>10, <1>11 DEF Next, vars

\* The inductive invariant holds in every reachable state.
THEOREM IInvHolds == Spec => []IInv
BY IInvInit, IInvStep, PTL DEF Spec

(* Schedules and requests stay well formed, whatever edits overtake each   *)
(* other: open before close, breaks inside, and an edit that writes a      *)
(* closure finds it.                                                       *)
THEOREM TypeCorrect == Spec => []TypeOK
<1>1. IInv => TypeOK
  BY DEF IInv
<1>. QED
  BY <1>1, IInvHolds, PTL

(* resolveStoreOpenState on one business day agrees with the schedule as   *)
(* spells of time, for every schedule that fits and every instant.         *)
THEOREM OpenOnSchedule == Spec => []OpenAsScheduled
<1>1. IInv => OpenAsScheduled
  BY OpenFollowsSpells DEF IInv
<1>. QED
  BY <1>1, IInvHolds, PTL

(* The announced opening (findNextOpenAt) is ahead, nothing opens before   *)
(* it, and the store opens then unless a break lies at that edge of the    *)
(* window; the day that is open ends at the announced time (closesAt).     *)
(* This is so whatever the number of days searched.                        *)
THEOREM TimesHold == Spec => []AnnouncedTimesHold
<1>1. IInv => AnnouncedTimesHold
  BY AnnouncementsHold DEF IInv
<1>. QED
  BY <1>1, IInvHolds, PTL

(* A schedule leaves its business days only by an edit that was overtaken: *)
(* for any number of requests, hours, closures and moves of the cutoff.    *)
THEOREM EditsFit == Spec => FreshEditsFit
<1>1. IInv /\ [Next]_vars =>
        [Fits /\ (\A r \in stale : reqs'[r] = reqs[r]) => Fits']_vars
  BY FitStep
<1>. QED
  BY <1>1, IInvHolds, PTL DEF Spec, FreshEditsFit
=============================================================================

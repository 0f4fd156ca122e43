------------------------- MODULE MenuOptionsProofs -------------------------
(***************************************************************************)
(* What the snapshot transactions of MenuOptions keep, for any number of   *)
(* options, choices and requests.  The inductive invariant says of every   *)
(* transaction in flight that, as long as nothing it relies on about the   *)
(* triggers is outdated, what it is about to write passes its checks       *)
(* against the rows as they are now (Safe), and that as long as its option *)
(* is not outdated it leaves the option's settings sound (FitsSettings).   *)
(* Then theorems of MenuRetention, for any number of menus, uploads,       *)
(* requests and purging servers: what becomes of deleted menus and of the  *)
(* objects of their images.  At the end those of MenuOrdering: what the    *)
(* validation of OptionSelection makes of all these menus.                 *)
(***************************************************************************)
EXTENDS MenuOrdering, MenuRetention, FiniteSetTheorems, WellFoundedInduction, TLAPS

OnlyLiveHaveTriggers == \A g \in Options : option[g].life # "live" => option[g].trigger = {}

OnlyLiveHaveChoices == \A c \in ChoiceRows : Live(c) => OptionOf[c] \in LiveOptions

OneMaker == \A r, q \in Requests :
  (r # q /\ tx[r].kind = "make" /\ tx[q].kind = "make") => tx[r].on # tx[q].on

(* Writes that can break no trigger.                                         *)
Harmless(w) ==
  /\ w.kind # "drop"
  /\ \A g \in Options : w.triggers[g] \in {Keep, {}}
  /\ \A c \in ChoiceRows : w.choices[c] # "deleted"

(* The three kinds of writes that rely on the triggers.                      *)
SetsTrigger(w) ==
  /\ w.kind # "drop"
  /\ \A c \in ChoiceRows : w.choices[c] # "deleted"
  /\ \A h \in Options \ {w.on} : w.triggers[h] = Keep
  /\ \E trigger \in SUBSET Rules :
       /\ w.triggers[w.on] = trigger
       /\ \A rule \in trigger : ValidRule(w.on, rule)
       /\ w.kind # "make" => ~ReachesCycle(w.on, trigger)
DropsOption(w) ==
  /\ w.kind = "drop"
  /\ \A c \in ChoiceRows : w.choices[c] = Keep
  /\ w.triggers = PrunedTriggers(w.on, ChoiceRows)
DeletesChoice(w) ==
  /\ w.kind = "edit"
  /\ \E c \in ChoiceRows :
       /\ OptionOf[c] = w.on
       /\ \A d \in ChoiceRows \ {c} : w.choices[d] # "deleted"
       /\ w.triggers = PrunedTriggers(w.on, {c})
Safe(w) == SetsTrigger(w) \/ DropsOption(w) \/ DeletesChoice(w)

Fits(w) ==
  /\ w.kind = "make" <=> option[w.on].life = "unborn"
  /\ \A h \in Options : w.triggers[h] # Keep => \A rule \in w.triggers[h] : rule.on # h
  /\ w.kind = "drop" => \A c \in ChoiceRows : w.choices[c] = Keep
  /\ Triggers \notin w.relies => Harmless(w)
  /\ Triggers \in w.relies \ w.outdated => Safe(w)

(* What decides whether an option's settings are sound.                      *)
SoundWith(required, min, states) ==
  DOMAIN states # {} /\ Consistent(required, min, Selectable(states))
SoundRow(g) ==
  SoundWith(option[g].required, option[g].minSelect, StatesOf(ChoicesOf(g)))

(* The choices of its option once the writes w are applied to them.          *)
StateAfter(w, c) ==
  IF choice[c] = "deleted" THEN "deleted" ELSE Written(w.choices[c], choice[c])
ChoicesAfter(w) ==
  {c \in ChoiceRows : OptionOf[c] = w.on /\ StateAfter(w, c) \in ChoiceState}
StatesAfter(w) == [c \in ChoicesAfter(w) |-> StateAfter(w, c)]

(* The writes leave the option sound if it is sound as it is now; writes     *)
(* that only add choices always do; and a creation is sound by itself.       *)
KeepsSettings(w) ==
  SoundRow(w.on) =>
    SoundWith(Written(w.required, option[w.on].required),
              Written(w.minSelect, option[w.on].minSelect), StatesAfter(w))
OnlyAdds(w) ==
  /\ w.required = Keep /\ w.minSelect = Keep
  /\ \A c \in ChoiceRows : w.choices[c] # Keep => choice[c] = "unborn"
CreatesSound(w) ==
  LET made == {c \in ChoiceRows : w.choices[c] # Keep} IN
  /\ w.required # Keep /\ w.minSelect # Keep
  /\ \A c \in made : w.choices[c] # "deleted"
  /\ SoundWith(w.required, w.minSelect, [c \in made |-> w.choices[c]])

FitsSettings(w) ==
  /\ \A c \in ChoiceRows : w.choices[c] # Keep => OptionOf[c] = w.on
  /\ w.kind = "make" => CreatesSound(w)
  /\ (w.kind = "edit" /\ w.on \notin w.relies) => OnlyAdds(w)
  /\ (w.kind = "edit" /\ w.on \in w.relies \ w.outdated) => KeepsSettings(w)

(* A choice that is yet to be created is created by one transaction, and in  *)
(* an option that is there.                                                  *)
OneCreator == \A c \in ChoiceRows : \A r, q \in InFlight :
  (choice[c] = "unborn" /\ r # q) => (tx[r].choices[c] = Keep \/ tx[q].choices[c] = Keep)
UnbornHaveNoChoices == \A c \in ChoiceRows :
  option[OptionOf[c]].life = "unborn" => choice[c] = "unborn"

SettingsInv ==
  /\ OneCreator /\ UnbornHaveNoChoices
  /\ \A r \in InFlight : \A w \in {tx[r]} : FitsSettings(w)

IInv ==
  /\ TypeOK
  /\ OnlyLiveHaveTriggers /\ OnlyLiveHaveChoices
  /\ OneMaker
  /\ \A r \in Requests : \A w \in {tx[r]} : w.kind # "none" => Fits(w)
  /\ SettingsInv

-----------------------------------------------------------------------------
(* A request without a transaction is one that writes nothing.              *)
LEMMA NoWritesType == NoWrites \in Transaction /\ NoWrites.kind = "none"
<1>1. \A g \in Options : Idle(g) \in Transaction /\ Idle(g).kind = "none"
  BY DEF Idle, Transaction
<1>. QED
  BY <1>1, MenuAssumption DEF NoWrites

(* Counting the choices of an option gives a number of choices.              *)
LEMMA SelectableBound ==
  ASSUME NEW states, DOMAIN states \subseteq ChoiceRows
  PROVE  Selectable(states) \in 0 .. Cardinality(ChoiceRows)
<1> DEFINE S == {c \in DOMAIN states : states[c] # "HIDDEN"}
<1>1. S \in SUBSET ChoiceRows
  OBVIOUS
<1>2. /\ IsFiniteSet(S)
      /\ Cardinality(S) <= Cardinality(ChoiceRows)
  BY <1>1, MenuAssumption, FS_Subset
<1>3. Cardinality(S) \in Nat /\ Cardinality(ChoiceRows) \in Nat
  BY <1>2, MenuAssumption, FS_CardinalityType
<1>. QED
  BY <1>2, <1>3 DEF Selectable

(* The corrected settings can be stored.                                     *)
LEMMA LoweredType ==
  ASSUME NEW min, NEW n \in 0 .. Cardinality(ChoiceRows)
  PROVE  /\ Lowered(min, n).required \in {Keep} \cup BOOLEAN
         /\ Lowered(min, n).minSelect \in {Keep} \cup (0 .. Cardinality(ChoiceRows))
<1>1. CASE n >= min
  BY <1>1 DEF Lowered, AsTheyAre
<1>2. CASE ~(n >= min)
  BY <1>2 DEF Lowered
<1>. QED
  BY <1>1, <1>2

(* The corrected settings suit the choices that are left.                    *)
LEMMA LoweredIsSound ==
  ASSUME NEW required \in BOOLEAN, NEW min \in 0 .. Cardinality(ChoiceRows), NEW n \in Nat,
         NEW left \in 0 .. Cardinality(ChoiceRows), Consistent(required, min, n)
  PROVE  Consistent(Written(Lowered(min, left).required, required),
                    Written(Lowered(min, left).minSelect, min), left)
<1>1. (required <=> min >= 1) /\ min \in Nat /\ left \in Nat
  BY MenuAssumption, FS_CardinalityType DEF Consistent
<1>2. CASE left >= min
  <2>1. Lowered(min, left).required = Keep /\ Lowered(min, left).minSelect = Keep
    BY <1>2 DEF Lowered, AsTheyAre
  <2>. QED
    BY <1>1, <1>2, <2>1 DEF Written, Consistent
<1>3. CASE ~(left >= min)
  <2>1. /\ Lowered(min, left).required = IF left = 0 THEN FALSE ELSE Keep
        /\ Lowered(min, left).minSelect = left
    BY <1>3 DEF Lowered
  <2>2. Written(left, min) = left /\ Written(FALSE, required) = FALSE
    BY KeepAssumption DEF Written
  <2>3. Written(Keep, required) = required
    BY DEF Written
  <2>4. required = TRUE
    BY <1>1, <1>3
  <2>5. CASE left = 0
    <3>1. Consistent(FALSE, 0, 0)
      BY DEF Consistent
    <3>. QED
      BY <2>1, <2>2, <2>5, <3>1
  <2>6. CASE left # 0
    BY <1>1, <2>1, <2>2, <2>3, <2>4, <2>6 DEF Consistent
  <2>. QED
    BY <2>5, <2>6
<1>. QED
  BY <1>2, <1>3

(* What the choices of an option are after writes to none, or one, of them.  *)
LEMMA NoChoiceWritten ==
  ASSUME NEW w, \A c \in ChoiceRows : w.choices[c] = Keep
  PROVE  StatesAfter(w) = StatesOf(ChoicesOf(w.on))
<1>1. \A c \in ChoiceRows : StateAfter(w, c) = choice[c]
  BY DEF StateAfter, Written
<1>2. ChoicesAfter(w) = ChoicesOf(w.on)
  BY <1>1 DEF ChoicesAfter, ChoicesOf, Live
<1>. QED
  BY <1>1, <1>2 DEF StatesAfter, StatesOf, ChoicesOf

\* A write that names one choice changes that choice only.
LEMMA OneChoiceWritten ==
  ASSUME NEW w, NEW c \in ChoiceRows, OptionOf[c] = w.on, Live(c), w.choices[c] # Keep,
         \A d \in ChoiceRows \ {c} : w.choices[d] = Keep
  PROVE  /\ w.choices[c] \in ChoiceState =>
              StatesAfter(w) = [StatesOf(ChoicesOf(w.on)) EXCEPT ![c] = w.choices[c]]
         /\ w.choices[c] = "deleted" =>
              StatesAfter(w) = StatesOf(ChoicesOf(w.on) \ {c})
<1>1. /\ \A d \in ChoiceRows \ {c} : StateAfter(w, d) = choice[d]
      /\ StateAfter(w, c) = w.choices[c]
  BY DEF StateAfter, Written, Live, ChoiceState
<1>2. c \in ChoicesOf(w.on)
  BY DEF ChoicesOf
<1>3. ASSUME w.choices[c] \in ChoiceState
      PROVE  StatesAfter(w) = [StatesOf(ChoicesOf(w.on)) EXCEPT ![c] = w.choices[c]]
  <2>1. ChoicesAfter(w) = ChoicesOf(w.on)
    BY <1>1, <1>2, <1>3 DEF ChoicesAfter, ChoicesOf, Live
  <2>. QED
    BY <1>1, <1>2, <2>1 DEF StatesAfter, StatesOf, ChoicesOf
<1>4. ASSUME w.choices[c] = "deleted"
      PROVE  StatesAfter(w) = StatesOf(ChoicesOf(w.on) \ {c})
  <2>1. ChoicesAfter(w) = ChoicesOf(w.on) \ {c}
    BY <1>1, <1>4 DEF ChoicesAfter, ChoicesOf, Live, ChoiceState
  <2>. QED
    BY <1>1, <2>1 DEF StatesAfter, StatesOf, ChoicesOf
<1>. QED
  BY <1>3, <1>4

(* One choice changes or goes and the settings follow.                       *)
LEMMA CorrectedSettings ==
  ASSUME TypeOK, NEW w, w.on \in Options, ChoicesAfter(w) # {},
         w.required = Lowered(option[w.on].minSelect, Selectable(StatesAfter(w))).required,
         w.minSelect = Lowered(option[w.on].minSelect, Selectable(StatesAfter(w))).minSelect
  PROVE  KeepsSettings(w)
<1> SUFFICES ASSUME SoundRow(w.on)
             PROVE  SoundWith(Written(w.required, option[w.on].required),
                              Written(w.minSelect, option[w.on].minSelect), StatesAfter(w))
  BY DEF KeepsSettings
<1>1. /\ option[w.on].required \in BOOLEAN
      /\ option[w.on].minSelect \in 0 .. Cardinality(ChoiceRows)
  BY DEF TypeOK, Row
<1>2. Selectable(StatesAfter(w)) \in 0 .. Cardinality(ChoiceRows)
  BY SelectableBound DEF StatesAfter, ChoicesAfter
<1>3. PICK n : n = Selectable(StatesOf(ChoicesOf(w.on)))
  OBVIOUS
<1>4. n \in Nat
  <2>1. n \in 0 .. Cardinality(ChoiceRows)
    BY <1>3, SelectableBound DEF StatesOf, ChoicesOf
  <2>. QED
    BY <2>1, MenuAssumption, FS_CardinalityType
<1>5. Consistent(option[w.on].required, option[w.on].minSelect, n)
  BY <1>3 DEF SoundRow, SoundWith
<1>6. DOMAIN StatesAfter(w) # {}
  BY DEF StatesAfter
<1>. QED
  BY <1>1, <1>2, <1>4, <1>5, <1>6, LoweredIsSound DEF SoundWith

(* A choice more, whatever its state, leaves the settings sound.             *)
LEMMA AddingKeeps ==
  ASSUME TypeOK, NEW w, w.on \in Options, OnlyAdds(w)
  PROVE  KeepsSettings(w)
<1> SUFFICES ASSUME SoundRow(w.on)
             PROVE  SoundWith(Written(w.required, option[w.on].required),
                              Written(w.minSelect, option[w.on].minSelect), StatesAfter(w))
  BY DEF KeepsSettings
<1>1. /\ Written(w.required, option[w.on].required) = option[w.on].required
      /\ Written(w.minSelect, option[w.on].minSelect) = option[w.on].minSelect
      /\ option[w.on].minSelect \in 0 .. Cardinality(ChoiceRows)
  BY DEF OnlyAdds, Written, TypeOK, Row
<1>2. \A c \in ChoicesOf(w.on) : c \in ChoicesAfter(w) /\ StateAfter(w, c) = choice[c]
  BY DEF OnlyAdds, ChoicesOf, Live, ChoicesAfter, StateAfter, Written, ChoiceState
<1> DEFINE before == {c \in DOMAIN StatesOf(ChoicesOf(w.on)) :
                        StatesOf(ChoicesOf(w.on))[c] # "HIDDEN"}
           after == {c \in DOMAIN StatesAfter(w) : StatesAfter(w)[c] # "HIDDEN"}
<1>3. before \subseteq after /\ after \subseteq ChoiceRows
  BY <1>2 DEF StatesOf, StatesAfter, ChoicesAfter
<1>4. /\ IsFiniteSet(after) /\ IsFiniteSet(before)
      /\ Cardinality(before) <= Cardinality(after)
  BY <1>3, MenuAssumption, FS_Subset
<1>5. Cardinality(before) \in Nat /\ Cardinality(after) \in Nat
      /\ Cardinality(ChoiceRows) \in Nat
  BY <1>4, MenuAssumption, FS_CardinalityType
<1>6. /\ Selectable(StatesOf(ChoicesOf(w.on))) = Cardinality(before)
      /\ Selectable(StatesAfter(w)) = Cardinality(after)
  BY DEF Selectable
<1> HIDE DEF before, after
<1>7. DOMAIN StatesAfter(w) # {}
  BY <1>2 DEF SoundRow, SoundWith, StatesOf, StatesAfter
<1>8. Consistent(option[w.on].required, option[w.on].minSelect, Selectable(StatesAfter(w)))
  <2>1. Consistent(option[w.on].required, option[w.on].minSelect, Cardinality(before))
    BY <1>6 DEF SoundRow, SoundWith
  <2>2. option[w.on].minSelect \in Nat
    BY <1>1, <1>5
  <2>3. option[w.on].minSelect <= Cardinality(after)
    BY <1>4, <1>5, <2>1, <2>2 DEF Consistent
  <2>. QED
    BY <1>6, <2>1, <2>3 DEF Consistent
<1>. QED
  BY <1>1, <1>7, <1>8 DEF SoundWith

(* Pruning makes no rule, turns none to another option and takes out what is *)
(* gone.                                                                     *)
PrunedFrom(rule, t, g, gone) ==
  /\ rule \in Rules
  /\ rule.on = g => rule.choices \cap gone = {}
  /\ \E old \in t : rule.on = old.on /\ rule.choices \subseteq old.choices

\* What pruning leaves of a rule is a rule, on no choice that is gone.
LEMMA PrunedRules ==
  ASSUME NEW t \in SUBSET Rules, NEW g, NEW gone, NEW rule \in Pruned(t, g, gone)
  PROVE  PrunedFrom(rule, t, g, gone)
<1>1. PICK old \in t : /\ rule = [old EXCEPT !.choices = IF old.on = g THEN @ \ gone ELSE @]
                       /\ rule.choices # {}
  BY DEF Pruned
<1>2. /\ rule.on = old.on
      /\ rule.choices = IF old.on = g THEN old.choices \ gone ELSE old.choices
      /\ rule = [on |-> rule.on, choices |-> rule.choices]
  BY <1>1 DEF Rules
<1>3. rule \in Rules
  BY <1>1, <1>2 DEF Rules
<1>4. rule.on = g => rule.choices \cap gone = {}
  BY <1>2
<1>. QED
  BY <1>2, <1>3, <1>4 DEF PrunedFrom

(* Pruned triggers can be stored.                                            *)
LEMMA PrunedTriggersType ==
  ASSUME TypeOK, NEW g \in Options, NEW gone
  PROVE  /\ PrunedTriggers(g, gone) \in [Options -> {Keep} \cup SUBSET Rules]
         /\ \A h \in Options : PrunedTriggers(g, gone)[h] # Keep =>
              \A rule \in PrunedTriggers(g, gone)[h] : rule.on # h
<1>1. \A h \in Options : option[h].trigger \in SUBSET Rules
  BY DEF TypeOK, Row
<1>2. ASSUME NEW h \in Options, NEW t \in SUBSET Rules, t = option[h].trigger,
             NEW rule \in Pruned(t, g, gone)
      PROVE  rule \in Rules /\ rule.on # h
  <2>1. PrunedFrom(rule, t, g, gone)
    BY PrunedRules
  <2>. QED
    BY <1>2, <2>1 DEF PrunedFrom, TypeOK
<1>3. \A h \in Options : /\ Pruned(option[h].trigger, g, gone) \subseteq Rules
                         /\ \A rule \in Pruned(option[h].trigger, g, gone) : rule.on # h
  BY <1>1, <1>2
<1>. QED
  BY <1>3 DEF PrunedTriggers

-----------------------------------------------------------------------------
(* What of the triggers and their cycles depends on the triggers only.       *)
LEMMA SameCycles ==
  ASSUME \A h \in Options : option'[h].trigger = option[h].trigger,
         NEW g, NEW trigger
  PROVE  ReachesCycle(g, trigger)' <=> ReachesCycle(g, trigger)
<1> DEFINE next == [h \in Options |->
                      {rule.on : rule \in IF h = g THEN trigger ELSE option[h].trigger}]
<1>1. next' = next
  OBVIOUS
<1>. QED
  BY <1>1 DEF ReachesCycle

(* Which triggers are pruned, too.                                           *)
LEMMA SamePruned ==
  ASSUME OnlyLiveHaveTriggers, OnlyLiveHaveTriggers',
         \A h \in Options : option'[h].trigger = option[h].trigger,
         NEW g, NEW gone
  PROVE  PrunedTriggers(g, gone)' = PrunedTriggers(g, gone)
<1>1. Rewritten(g) = {h \in Options \ {g} : \E rule \in option[h].trigger : rule.on = g}
  BY DEF OnlyLiveHaveTriggers, Rewritten, LiveOptions
<1>2. Rewritten(g)' = {h \in Options \ {g} : \E rule \in option'[h].trigger : rule.on = g}
  BY DEF OnlyLiveHaveTriggers, Rewritten, LiveOptions
<1>3. Rewritten(g)' = Rewritten(g)
  BY <1>1, <1>2
<1>. QED
  BY <1>3 DEF PrunedTriggers, Rewritten

(* Safe writes stay safe as long as no trigger changes and nothing that a    *)
(* trigger may refer to disappears.                                          *)
LEMMA StaysSafe ==
  ASSUME OnlyLiveHaveTriggers, OnlyLiveHaveTriggers',
         \A h \in Options : option'[h].trigger = option[h].trigger,
         \A h \in LiveOptions : option'[h].life = "live",
         \A c \in ChoiceRows : Live(c) => Live(c)',
         NEW w, Safe(w)
  PROVE  Safe(w)'
<1>1. ASSUME SetsTrigger(w)
      PROVE  SetsTrigger(w)'
  <2>1. \A g, rule : ValidRule(g, rule) => ValidRule(g, rule)'
    BY DEF ValidRule, LiveOptions, ChoicesOf
  <2>2. \A g, trigger : ReachesCycle(g, trigger)' <=> ReachesCycle(g, trigger)
    BY SameCycles
  <2>. QED
    BY <1>1, <2>1, <2>2 DEF SetsTrigger
<1>2. \A g, gone : PrunedTriggers(g, gone)' = PrunedTriggers(g, gone)
  BY SamePruned
<1>3. ASSUME DropsOption(w)
      PROVE  DropsOption(w)'
  BY <1>2, <1>3 DEF DropsOption
<1>4. ASSUME DeletesChoice(w)
      PROVE  DeletesChoice(w)'
  BY <1>2, <1>4 DEF DeletesChoice
<1>. QED
  BY <1>1, <1>3, <1>4 DEF Safe

(* The new choices that a transaction may write: nobody else's.              *)
WritesNewAlone(w) == \A c \in ChoiceRows :
  (w.choices[c] # Keep /\ choice[c] = "unborn") => \A q \in InFlight : tx[q].choices[c] = Keep

(* Whether writes fit the settings depends on the rows only.                 *)
LEMMA SameSettings ==
  ASSUME option' = option, choice' = choice, NEW w
  PROVE  FitsSettings(w)' <=> FitsSettings(w)
BY DEF FitsSettings, OnlyAdds, CreatesSound, KeepsSettings, SoundRow, SoundWith, StatesOf,
       ChoicesOf, Live, StatesAfter, ChoicesAfter, StateAfter, Written, Consistent, Selectable

(* What is in flight still fits the settings, and so does what begins.       *)
LEMMA BeginKeepsSettings ==
  ASSUME TypeOK, SettingsInv, NEW r \in Requests, NEW w \in Transaction, Begin(r, w),
         FitsSettings(w), WritesNewAlone(w)
  PROVE  SettingsInv'
<1>1. /\ option' = option /\ choice' = choice
      /\ tx' = [tx EXCEPT ![r] = w]
  BY DEF Begin
<1>2. /\ \A q \in Requests : tx'[q] = IF q = r THEN w ELSE tx[q]
      /\ \A q \in InFlight' : q # r => q \in InFlight
  BY <1>1 DEF TypeOK, InFlight
<1>3. OneCreator'
  BY <1>1, <1>2 DEF SettingsInv, OneCreator, WritesNewAlone, InFlight
<1>4. UnbornHaveNoChoices'
  BY <1>1 DEF SettingsInv, UnbornHaveNoChoices
<1>5. \A v : FitsSettings(v)' <=> FitsSettings(v)
  BY <1>1, SameSettings
<1>6. \A q \in InFlight' : \A v \in {tx'[q]} : FitsSettings(v)'
  BY <1>2, <1>5 DEF SettingsInv, InFlight
<1>. QED
  BY <1>3, <1>4, <1>6 DEF SettingsInv

(* A transaction begins: the rows stay, and its writes have to fit them.     *)
LEMMA BeginKeeps ==
  ASSUME IInv, NEW r \in Requests, NEW w \in Transaction, Begin(r, w), Fits(w),
         FitsSettings(w), WritesNewAlone(w),
         w.kind = "make" => \A q \in InFlight : tx[q].on # w.on
  PROVE  IInv'
<1>1. /\ option' = option /\ choice' = choice
      /\ tx' = [tx EXCEPT ![r] = w]
  BY DEF Begin
<1>2. \A q \in Requests : tx'[q] = IF q = r THEN w ELSE tx[q]
  BY <1>1 DEF IInv, TypeOK
<1>3. TypeOK'
  BY <1>1 DEF IInv, TypeOK
<1>4. OnlyLiveHaveTriggers /\ OnlyLiveHaveTriggers' /\ OnlyLiveHaveChoices'
  BY <1>1 DEF IInv, OnlyLiveHaveTriggers, OnlyLiveHaveChoices, LiveOptions, Live
<1>5. OneMaker'
  BY <1>2 DEF IInv, OneMaker, InFlight
<1>6. \A v : Safe(v) => Safe(v)'
  BY <1>1, <1>4, StaysSafe DEF LiveOptions, Live
<1>7. ASSUME NEW v, Fits(v)
      PROVE  Fits(v)'
  BY <1>1, <1>6, <1>7 DEF Fits, Harmless
<1>8. \A q \in Requests : \A v \in {tx'[q]} : v.kind # "none" => Fits(v)'
  BY <1>2, <1>7 DEF IInv
<1>9. SettingsInv'
  BY BeginKeepsSettings DEF IInv
<1>. QED
  BY <1>3, <1>4, <1>5, <1>8, <1>9 DEF IInv

-----------------------------------------------------------------------------
(* Each kind of transaction begins with writes that fit; a creation writes   *)
(* the choices and the trigger of an option nobody else is creating.         *)
LEMMA CreateOptionKeeps ==
  ASSUME IInv, NEW r \in Requests, CreateOption(r)
  PROVE  IInv'
<1> SUFFICES ASSUME
      NEW g \in NewOptions,
      NEW cs \in (SUBSET {c \in NewChoices : OptionOf[c] = g}) \ {{}},
      NEW states \in [cs -> ChoiceState], NEW required \in BOOLEAN,
      NEW min \in 0 .. Cardinality(cs), NEW trigger \in ValidTriggers(g),
      Consistent(required, min, Selectable(states)),
      Begin(r, Creation(g, states, required, min, trigger))
    PROVE IInv'
  BY DEF CreateOption
<1> DEFINE w == Creation(g, states, required, min, trigger)
<1>1. Begin(r, w)
  OBVIOUS
<1>3. /\ g \in Options /\ option[g].life = "unborn"
      /\ \A q \in InFlight : tx[q].on # g
  BY DEF NewOptions
<1>4. /\ trigger \in SUBSET Rules
      /\ \A rule \in trigger : ValidRule(g, rule)
  BY DEF ValidTriggers
<1>5. min \in 0 .. Cardinality(ChoiceRows)
  <2>1. cs \in SUBSET ChoiceRows
    BY DEF NewChoices
  <2>2. IsFiniteSet(cs) /\ Cardinality(cs) <= Cardinality(ChoiceRows)
    BY <2>1, MenuAssumption, FS_Subset
  <2>3. Cardinality(cs) \in Nat /\ Cardinality(ChoiceRows) \in Nat
    BY <2>2, MenuAssumption, FS_CardinalityType
  <2>. QED
    BY <2>2, <2>3
<1>6. /\ w.kind = "make" /\ w.on = g /\ w.outdated = {}
      /\ w.relies = IF trigger = {} THEN {} ELSE {Triggers}
      /\ w.triggers = [h \in Options |-> IF h = g THEN trigger ELSE Keep]
      /\ \A c \in ChoiceRows : w.choices[c] = IF c \in cs THEN states[c] ELSE Keep
      /\ w \in Transaction
  BY <1>3, <1>4, <1>5 DEF Creation, Idle, Transaction
<1> HIDE DEF w
<1>7. \A h \in Options : w.triggers[h] # Keep => \A rule \in w.triggers[h] : rule.on # h
  BY <1>3, <1>4, <1>6 DEF ValidRule
<1>8. \A c \in ChoiceRows : w.choices[c] # "deleted"
  BY <1>6, KeepAssumption DEF ChoiceState
<1>9. trigger = {} => Harmless(w)
  BY <1>6, <1>8 DEF Harmless
<1>10. SetsTrigger(w)
  BY <1>3, <1>4, <1>6, <1>8 DEF SetsTrigger
<1>11. Fits(w)
  BY <1>3, <1>6, <1>7, <1>9, <1>10 DEF Fits, Safe
<1>12. CreatesSound(w)
  <2>1. w.required = required /\ w.minSelect = min
    BY DEF w, Creation, Idle
  <2>2. required # Keep /\ min # Keep
    BY <1>5, KeepAssumption
  <2>3. {c \in ChoiceRows : w.choices[c] # Keep} = cs
    BY <1>6, KeepAssumption DEF NewChoices
  <2>4. [c \in cs |-> w.choices[c]] = states
    BY <1>6 DEF NewChoices
  <2>5. SoundWith(required, min, states)
    BY DEF SoundWith
  <2>. QED
    BY <1>8, <2>1, <2>2, <2>3, <2>4, <2>5 DEF CreatesSound
<1>13. \A c \in ChoiceRows : w.choices[c] # Keep => OptionOf[c] = g /\ c \in NewChoices
  BY <1>6
<1>14. FitsSettings(w)
  BY <1>6, <1>12, <1>13 DEF FitsSettings
<1>15. WritesNewAlone(w)
  BY <1>13 DEF WritesNewAlone, NewChoices
<1>. QED
  BY <1>1, <1>3, <1>6, <1>11, <1>14, <1>15, BeginKeeps

(* An update writes a trigger only if the payload names one.                 *)
LEMMA UpdateOptionKeeps ==
  ASSUME IInv, NEW r \in Requests, UpdateOption(r)
  PROVE  IInv'
<1> SUFFICES ASSUME
      NEW g \in LiveOptions, NEW named \in PayloadColumns, NEW required \in BOOLEAN,
      NEW min \in 0 .. Cardinality(ChoicesOf(g)),
      NEW trigger \in IF "trigger" \in named THEN ValidTriggers(g) ELSE {{}},
      "required" \notin named => required = option[g].required,
      "minSelect" \notin named => min = option[g].minSelect,
      Consistent(required, min, Selectable(StatesOf(ChoicesOf(g)))),
      Begin(r, Edition(g, named, required, min, trigger))
    PROVE IInv'
  BY DEF UpdateOption
<1>1. PICK w : w = Edition(g, named, required, min, trigger) /\ Begin(r, w)
  OBVIOUS
<1>2. g \in Options /\ option[g].life = "live"
  BY DEF LiveOptions
<1>3. /\ trigger \in SUBSET Rules
      /\ "trigger" \notin named => trigger = {}
      /\ \A rule \in trigger : ValidRule(g, rule)
      /\ trigger # {} => ~ReachesCycle(g, trigger)
  BY DEF ValidTriggers
<1>4. min \in 0 .. Cardinality(ChoiceRows)
  <2>1. ChoicesOf(g) \in SUBSET ChoiceRows
    BY DEF ChoicesOf
  <2>2. IsFiniteSet(ChoicesOf(g)) /\ Cardinality(ChoicesOf(g)) <= Cardinality(ChoiceRows)
    BY <2>1, MenuAssumption, FS_Subset
  <2>3. Cardinality(ChoicesOf(g)) \in Nat /\ Cardinality(ChoiceRows) \in Nat
    BY <2>2, MenuAssumption, FS_CardinalityType
  <2>. QED
    BY <2>2, <2>3
<1>5. /\ w.kind = "edit" /\ w.on = g /\ w.outdated = {}
      /\ w.relies = (IF named \cap Settings = {} THEN {} ELSE {g})
                      \cup (IF trigger = {} THEN {} ELSE {Triggers})
      /\ w.triggers = [h \in Options |->
                         IF h = g /\ "trigger" \in named THEN trigger ELSE Keep]
      /\ w.choices = [c \in ChoiceRows |-> Keep]
      /\ w.minSelect \in {Keep, min}
  BY <1>1 DEF Edition, Idle
<1>6. w.required \in {Keep, TRUE, FALSE}
  BY <1>1 DEF Edition, Idle
<1>7. w = [kind |-> w.kind, on |-> w.on, required |-> w.required,
           minSelect |-> w.minSelect, triggers |-> w.triggers, choices |-> w.choices,
           relies |-> w.relies, outdated |-> w.outdated]
  BY <1>1 DEF Edition, Idle
<1>8. w \in Transaction
  BY <1>2, <1>3, <1>4, <1>5, <1>6, <1>7 DEF Transaction
<1>9. Triggers \in w.relies <=> trigger # {}
  BY <1>2, <1>5, TriggersAssumption
<1>10. \A h \in Options : w.triggers[h] # Keep => \A rule \in w.triggers[h] : rule.on # h
  BY <1>2, <1>3, <1>5 DEF ValidRule
<1>11. \A c \in ChoiceRows : w.choices[c] # "deleted"
  BY <1>5, KeepAssumption
<1>12. trigger = {} => Harmless(w)
  BY <1>5, <1>11 DEF Harmless
<1>13. trigger # {} => SetsTrigger(w)
  BY <1>2, <1>3, <1>5, <1>11 DEF SetsTrigger
<1>14. Fits(w)
  BY <1>2, <1>5, <1>9, <1>10, <1>12, <1>13 DEF Fits, Safe
<1>15. /\ w.required = IF "required" \in named THEN required ELSE Keep
       /\ w.minSelect = IF "minSelect" \in named THEN min ELSE Keep
  BY <1>1 DEF Edition, Idle
<1>16. KeepsSettings(w)
  <2>1. /\ "required" \notin named => required = option[g].required
        /\ "minSelect" \notin named => min = option[g].minSelect
        /\ Consistent(required, min, Selectable(StatesOf(ChoicesOf(g))))
    OBVIOUS
  <2>2. /\ Written(w.required, option[g].required) = required
        /\ Written(w.minSelect, option[g].minSelect) = min
    BY <1>4, <1>15, <2>1, KeepAssumption DEF Written
  <2>3. StatesAfter(w) = StatesOf(ChoicesOf(g))
    BY <1>5, NoChoiceWritten
  <2>. QED
    BY <1>5, <2>1, <2>2, <2>3 DEF KeepsSettings, SoundRow, SoundWith
<1>17. g \notin w.relies => OnlyAdds(w)
  BY <1>5, <1>15 DEF OnlyAdds, Settings
<1>18. FitsSettings(w) /\ WritesNewAlone(w)
  BY <1>5, <1>16, <1>17 DEF FitsSettings, WritesNewAlone
<1>. QED
  BY <1>1, <1>5, <1>8, <1>14, <1>18, BeginKeeps

(* Deleting an option prunes by all its choices and writes none of them.     *)
LEMMA DeleteOptionKeeps ==
  ASSUME IInv, NEW r \in Requests, DeleteOption(r)
  PROVE  IInv'
<1> SUFFICES ASSUME NEW g \in LiveOptions,
             Begin(r, [Idle(g) EXCEPT
               !.kind = "drop", !.triggers = PrunedTriggers(g, ChoiceRows),
               !.relies = {Triggers}])
    PROVE IInv'
  BY DEF DeleteOption
<1>1. PICK w : /\ w = [Idle(g) EXCEPT
                         !.kind = "drop", !.triggers = PrunedTriggers(g, ChoiceRows),
                         !.relies = {Triggers}]
               /\ Begin(r, w)
  OBVIOUS
<1>2. g \in Options /\ option[g].life = "live"
  BY DEF LiveOptions
<1>3. /\ w.kind = "drop" /\ w.on = g /\ w.outdated = {} /\ w.relies = {Triggers}
      /\ w.triggers = PrunedTriggers(g, ChoiceRows)
      /\ w.choices = [c \in ChoiceRows |-> Keep]
      /\ w.required = Keep /\ w.minSelect = Keep
  BY <1>1 DEF Idle
<1>4. w = [kind |-> w.kind, on |-> w.on, required |-> w.required,
           minSelect |-> w.minSelect, triggers |-> w.triggers, choices |-> w.choices,
           relies |-> w.relies, outdated |-> w.outdated]
  BY <1>1 DEF Idle
<1>5. /\ w.triggers \in [Options -> {Keep} \cup SUBSET Rules]
      /\ \A h \in Options : w.triggers[h] # Keep => \A rule \in w.triggers[h] : rule.on # h
  BY <1>2, <1>3, PrunedTriggersType DEF IInv
<1>6. w \in Transaction
  BY <1>2, <1>3, <1>4, <1>5 DEF Transaction
<1>7. DropsOption(w)
  BY <1>3 DEF DropsOption
<1>8. Fits(w)
  BY <1>2, <1>3, <1>5, <1>7 DEF Fits, Safe
<1>9. FitsSettings(w) /\ WritesNewAlone(w)
  BY <1>3 DEF FitsSettings, WritesNewAlone
<1>. QED
  BY <1>1, <1>3, <1>6, <1>8, <1>9, BeginKeeps

(* A new choice writes nothing else.                                         *)
LEMMA CreateChoiceKeeps ==
  ASSUME IInv, NEW r \in Requests, CreateChoice(r)
  PROVE  IInv'
<1> SUFFICES ASSUME NEW c \in NewChoices, NEW state \in PayloadStates[c],
             OptionOf[c] \in LiveOptions,
             Begin(r, [Idle(OptionOf[c]) EXCEPT !.kind = "edit", !.choices[c] = state])
    PROVE IInv'
  BY DEF CreateChoice
<1>1. PICK w : /\ w = [Idle(OptionOf[c]) EXCEPT !.kind = "edit", !.choices[c] = state]
               /\ Begin(r, w)
  OBVIOUS
<1>2. c \in ChoiceRows /\ state \in ChoiceState
  BY <1>1, PayloadAssumption DEF NewChoices
<1>3. OptionOf[c] \in Options /\ option[OptionOf[c]].life = "live"
  BY <1>1 DEF LiveOptions
<1>4. /\ w.kind = "edit" /\ w.on = OptionOf[c] /\ w.outdated = {} /\ w.relies = {}
      /\ w.triggers = [h \in Options |-> Keep]
      /\ w.choices = [d \in ChoiceRows |-> IF d = c THEN state ELSE Keep]
      /\ w.required = Keep /\ w.minSelect = Keep
  BY <1>1 DEF Idle
<1>5. w = [kind |-> w.kind, on |-> w.on, required |-> w.required,
           minSelect |-> w.minSelect, triggers |-> w.triggers, choices |-> w.choices,
           relies |-> w.relies, outdated |-> w.outdated]
  BY <1>1 DEF Idle
<1>6. w \in Transaction
  BY <1>2, <1>3, <1>4, <1>5 DEF Transaction
<1>7. Harmless(w)
  BY <1>2, <1>4, KeepAssumption DEF Harmless, ChoiceState
<1>8. Fits(w)
  BY <1>3, <1>4, <1>7 DEF Fits
<1>9. OnlyAdds(w)
  BY <1>4 DEF OnlyAdds, NewChoices
<1>10. FitsSettings(w)
  BY <1>4, <1>9 DEF FitsSettings
<1>11. WritesNewAlone(w)
  BY <1>4 DEF WritesNewAlone, NewChoices
<1>. QED
  BY <1>1, <1>4, <1>6, <1>8, <1>10, <1>11, BeginKeeps

(* Updating a choice may lower its option's settings; no trigger is written. *)
LEMMA UpdateChoiceKeeps ==
  ASSUME IInv, NEW r \in Requests, UpdateChoice(r)
  PROVE  IInv'
<1>1. SUFFICES ASSUME NEW c \in ChoiceRows, NEW state \in PayloadStates[c],
             NEW settings, NEW w, NEW g, g = OptionOf[c], Live(c),
             settings = IF state = choice[c] THEN AsTheyAre
                        ELSE Lowered(option[g].minSelect,
                               Selectable([StatesOf(ChoicesOf(g)) EXCEPT ![c] = state])),
             w = [Idle(g) EXCEPT
                    !.kind = "edit", !.choices[c] = state, !.relies = {g},
                    !.required = settings.required, !.minSelect = settings.minSelect],
             Begin(r, w)
    PROVE IInv'
  BY DEF UpdateChoice
<1>3. state \in ChoiceState /\ g \in Options /\ option[g].life = "live"
  BY <1>1, PayloadAssumption, MenuAssumption DEF IInv, OnlyLiveHaveChoices, LiveOptions
<1>4. /\ settings.required \in {Keep} \cup BOOLEAN
      /\ settings.minSelect \in {Keep} \cup (0 .. Cardinality(ChoiceRows))
  <2> DEFINE left == [StatesOf(ChoicesOf(g)) EXCEPT ![c] = state]
  <2>1. DOMAIN left \subseteq ChoiceRows
    BY DEF StatesOf, ChoicesOf
  <2>2. Selectable(left) \in 0 .. Cardinality(ChoiceRows)
    BY <2>1, SelectableBound
  <2>. QED
    BY <1>1, <2>2, LoweredType DEF AsTheyAre
<1>5. /\ w.kind = "edit" /\ w.on = g /\ w.outdated = {} /\ w.relies = {g}
      /\ w.triggers = [h \in Options |-> Keep]
      /\ w.choices = [d \in ChoiceRows |-> IF d = c THEN state ELSE Keep]
      /\ w.required = settings.required /\ w.minSelect = settings.minSelect
  BY <1>1 DEF Idle
<1>6. w = [kind |-> w.kind, on |-> w.on, required |-> w.required,
           minSelect |-> w.minSelect, triggers |-> w.triggers, choices |-> w.choices,
           relies |-> w.relies, outdated |-> w.outdated]
  BY <1>1 DEF Idle
<1>7. w \in Transaction
  BY <1>3, <1>4, <1>5, <1>6 DEF Transaction
<1>8. Harmless(w)
  BY <1>3, <1>5, KeepAssumption DEF Harmless, ChoiceState
<1>9. Triggers \notin w.relies
  BY <1>3, <1>5, TriggersAssumption
<1>10. Fits(w)
  BY <1>3, <1>5, <1>8, <1>9 DEF Fits
<1>11. w.choices[c] = state /\ state # Keep /\ state \in ChoiceState
  BY <1>3, <1>5, KeepAssumption
<1>12. /\ \A d \in ChoiceRows : w.choices[d] # Keep => d = c
       /\ OptionOf[c] = w.on
  BY <1>1, <1>5
<1>13. StatesAfter(w) = [StatesOf(ChoicesOf(g)) EXCEPT ![c] = state]
  <2>1. /\ OptionOf[c] = w.on /\ Live(c) /\ w.choices[c] # Keep
        /\ \A d \in ChoiceRows \ {c} : w.choices[d] = Keep
    BY <1>1, <1>11, <1>12
  <2>2. StatesAfter(w) = [StatesOf(ChoicesOf(w.on)) EXCEPT ![c] = w.choices[c]]
    BY <1>11, <2>1, OneChoiceWritten
  <2>. QED
    BY <1>5, <1>11, <2>2
<1>14. KeepsSettings(w)
  <2>1. CASE state = choice[c]
    <3>1. StatesAfter(w) = StatesOf(ChoicesOf(g))
      BY <1>13, <2>1 DEF StatesOf
    <3>2. w.required = Keep /\ w.minSelect = Keep
      BY <1>1, <1>5, <2>1 DEF AsTheyAre
    <3>. QED
      BY <1>5, <3>1, <3>2 DEF KeepsSettings, SoundRow, Written
  <2>2. CASE state # choice[c]
    <3>1. DOMAIN StatesAfter(w) = ChoicesAfter(w) /\ c \in ChoicesOf(g)
      BY <1>1 DEF StatesAfter, ChoicesOf
    <3>2. ChoicesAfter(w) # {}
      BY <1>13, <3>1 DEF StatesOf
    <3>3. settings = Lowered(option[w.on].minSelect, Selectable(StatesAfter(w)))
      BY <1>1, <1>5, <1>13, <2>2
    <3>. QED
      BY <1>3, <1>5, <3>2, <3>3, CorrectedSettings DEF IInv
  <2>. QED
    BY <2>1, <2>2
<1>15. FitsSettings(w)
  BY <1>5, <1>12, <1>14 DEF FitsSettings
<1>16. WritesNewAlone(w)
  BY <1>1, <1>12 DEF WritesNewAlone, Live, ChoiceState
<1>. QED
  BY <1>1, <1>5, <1>7, <1>10, <1>15, <1>16, BeginKeeps

(* Deleting a choice prunes by the choice and relies on the triggers.        *)
LEMMA DeleteChoiceKeeps ==
  ASSUME IInv, NEW r \in Requests, DeleteChoice(r)
  PROVE  IInv'
<1>1. SUFFICES ASSUME NEW c \in ChoiceRows,
             NEW settings, NEW w, NEW g, g = OptionOf[c], Live(c), ChoicesOf(g) # {c},
             settings = Lowered(option[g].minSelect, Selectable(StatesOf(ChoicesOf(g) \ {c}))),
             w = [Idle(g) EXCEPT
                    !.kind = "edit", !.choices[c] = "deleted",
                    !.required = settings.required, !.minSelect = settings.minSelect,
                    !.triggers = PrunedTriggers(g, {c}), !.relies = {g, Triggers}],
             Begin(r, w)
    PROVE IInv'
  BY DEF DeleteChoice
<1>2. g \in Options /\ option[g].life = "live"
  BY <1>1 DEF IInv, OnlyLiveHaveChoices, LiveOptions
<1>3. /\ settings.required \in {Keep} \cup BOOLEAN
      /\ settings.minSelect \in {Keep} \cup (0 .. Cardinality(ChoiceRows))
  <2> DEFINE left == StatesOf(ChoicesOf(g) \ {c})
  <2>1. DOMAIN left \subseteq ChoiceRows
    BY DEF StatesOf, ChoicesOf
  <2>2. Selectable(left) \in 0 .. Cardinality(ChoiceRows)
    BY <2>1, SelectableBound
  <2>. QED
    BY <1>1, <2>2, LoweredType
<1>4. /\ w.kind = "edit" /\ w.on = g /\ w.outdated = {} /\ w.relies = {g, Triggers}
      /\ w.triggers = PrunedTriggers(g, {c})
      /\ w.choices = [d \in ChoiceRows |-> IF d = c THEN "deleted" ELSE Keep]
      /\ w.required = settings.required /\ w.minSelect = settings.minSelect
  BY <1>1 DEF Idle
<1>5. w = [kind |-> w.kind, on |-> w.on, required |-> w.required,
           minSelect |-> w.minSelect, triggers |-> w.triggers, choices |-> w.choices,
           relies |-> w.relies, outdated |-> w.outdated]
  BY <1>1 DEF Idle
<1>6. /\ w.triggers \in [Options -> {Keep} \cup SUBSET Rules]
      /\ \A h \in Options : w.triggers[h] # Keep => \A rule \in w.triggers[h] : rule.on # h
  <2>1. \A gone : /\ PrunedTriggers(g, gone) \in [Options -> {Keep} \cup SUBSET Rules]
                  /\ \A h \in Options : PrunedTriggers(g, gone)[h] # Keep =>
                       \A rule \in PrunedTriggers(g, gone)[h] : rule.on # h
    BY <1>2, PrunedTriggersType DEF IInv
  <2> DEFINE t == PrunedTriggers(g, {c})
  <2>2. /\ t \in [Options -> {Keep} \cup SUBSET Rules]
        /\ \A h \in Options : t[h] # Keep => \A rule \in t[h] : rule.on # h
    BY <2>1
  <2>3. w.triggers = t
    BY <1>4
  <2> HIDE DEF t
  <2>. QED
    BY <2>2, <2>3
<1>7. w \in Transaction
  BY <1>2, <1>3, <1>4, <1>5, <1>6 DEF Transaction
<1>8. DeletesChoice(w)
  <2>1. OptionOf[c] = w.on
    BY <1>1, <1>4
  <2>2. \A d \in ChoiceRows \ {c} : w.choices[d] # "deleted"
    BY <1>4, KeepAssumption
  <2>. QED
    BY <1>4, <2>1, <2>2 DEF DeletesChoice
<1>9. Fits(w)
  BY <1>2, <1>4, <1>6, <1>8 DEF Fits, Safe
<1>10. w.choices[c] = "deleted" /\ "deleted" # Keep
  BY <1>4, KeepAssumption
<1>11. /\ \A d \in ChoiceRows : w.choices[d] # Keep => d = c
       /\ OptionOf[c] = w.on
  BY <1>1, <1>4
<1>12. StatesAfter(w) = StatesOf(ChoicesOf(g) \ {c})
  <2>1. /\ OptionOf[c] = w.on /\ Live(c) /\ w.choices[c] # Keep
        /\ \A d \in ChoiceRows \ {c} : w.choices[d] = Keep
    BY <1>1, <1>10, <1>11
  <2>2. StatesAfter(w) = StatesOf(ChoicesOf(w.on) \ {c})
    BY <1>10, <2>1, OneChoiceWritten
  <2>. QED
    BY <1>4, <2>2
<1>13. KeepsSettings(w)
  <2>1. DOMAIN StatesAfter(w) = ChoicesAfter(w) /\ c \in ChoicesOf(g)
    BY <1>1 DEF StatesAfter, ChoicesOf
  <2>2. ChoicesAfter(w) # {}
    BY <1>1, <1>12, <2>1 DEF StatesOf
  <2>3. settings = Lowered(option[w.on].minSelect, Selectable(StatesAfter(w)))
    BY <1>1, <1>4, <1>12
  <2>. QED
    BY <1>2, <1>4, <2>2, <2>3, CorrectedSettings DEF IInv
<1>14. FitsSettings(w)
  BY <1>4, <1>11, <1>13 DEF FitsSettings
<1>15. WritesNewAlone(w)
  BY <1>1, <1>11 DEF WritesNewAlone, Live, ChoiceState
<1>. QED
  BY <1>1, <1>4, <1>7, <1>9, <1>14, <1>15, BeginKeeps

-----------------------------------------------------------------------------
(* What a commit does to a row and to a choice.                              *)
LEMMA CommitRows ==
  ASSUME IInv, NEW r \in Requests, Commit(r), NEW w, w = tx[r]
  PROVE  /\ w \in Transaction /\ w.kind # "none" /\ Fits(w)
         /\ DOMAIN option' = Options /\ DOMAIN choice' = ChoiceRows
         /\ \A g \in Options :
              option'[g] = IF w.kind = "drop" /\ g = w.on THEN Gone
                           ELSE IF g \in LiveOptions \/ (w.kind = "make" /\ g = w.on)
                             THEN Stored(option[g], g, w) ELSE option[g]
         /\ \A c \in ChoiceRows :
              choice'[c] = IF (w.kind = "drop" /\ OptionOf[c] = w.on /\ Live(c))
                                \/ choice[c] = "deleted" THEN "deleted"
                           ELSE Written(w.choices[c], choice[c])
         /\ \A c \in ChoiceRows : (w.choices[c] # Keep /\ choice[c] = "unborn") =>
              OptionOf[c] \in LiveOptions \/ (w.kind = "make" /\ OptionOf[c] = w.on)
<1>1. w \in Transaction
  BY DEF IInv, TypeOK
<1>2. w.kind # "none" /\ Fits(w)
  BY DEF Commit, IInv
<1>. QED
  BY <1>1, <1>2 DEF Commit

(* The committed transaction is over, the others may be outdated.            *)
LEMMA CommitTx ==
  ASSUME IInv, NEW r \in Requests, Commit(r)
  PROVE  /\ tx' \in [Requests -> Transaction]
         /\ tx'[r] = NoWrites
         /\ \A q \in Requests \ {r} :
              /\ tx'[q] = [tx[q] EXCEPT !.outdated = @ \cup (tx[q].relies \cap Changed)]
              /\ \A f \in {"kind", "on", "required", "minSelect", "triggers", "choices",
                          "relies"} :
                   tx'[q][f] = tx[q][f]
              /\ tx'[q].outdated = tx[q].outdated \cup (tx[q].relies \cap Changed)
<1>1. tx' = [q \in Requests |->
               IF q = r THEN NoWrites
               ELSE [tx[q] EXCEPT !.outdated = @ \cup (tx[q].relies \cap Changed)]]
  BY DEF Commit
<1>2. \A q \in Requests : tx[q] \in Transaction
  BY DEF IInv, TypeOK
<1>3. \A q \in Requests :
        [tx[q] EXCEPT !.outdated = @ \cup (tx[q].relies \cap Changed)] \in Transaction
  BY <1>2 DEF Transaction
<1>. QED
  BY <1>1, <1>2, <1>3, NoWritesType, ZenonT(60) DEF Transaction

(* What stays as it was as long as no trigger changes and nothing is deleted. *)
LEMMA UnchangedTriggers ==
  ASSUME IInv, NEW r \in Requests, Commit(r), Triggers \notin Changed
  PROVE  /\ \A h \in Options : option'[h].trigger = option[h].trigger
         /\ \A h \in LiveOptions : option'[h].life = "live"
         /\ \A c \in ChoiceRows : Live(c) => Live(c)'
<1>1. /\ \A h \in Options : option'[h].trigger = option[h].trigger
      /\ \A h \in LiveOptions : option'[h].life = "live"
      /\ \A c \in ChoiceRows : Live(c) => choice'[c] # "deleted"
  BY DEF Changed
<1>2. PICK w : w = tx[r]
  OBVIOUS
<1>3. ASSUME NEW c \in ChoiceRows, Live(c)
      PROVE  choice'[c] \in ChoiceState
  <2>1. w.choices[c] \in {Keep, "deleted"} \cup ChoiceState
    BY <1>2, CommitRows DEF Transaction
  <2>2. choice'[c] \in {"deleted", choice[c]} \cup ChoiceState
    BY <1>2, <2>1, CommitRows DEF Written
  <2>. QED
    BY <1>1, <1>3, <2>2 DEF Live
<1>. QED
  BY <1>1, <1>3 DEF Live

(* What a commit leaves alone: the settings of an option and the choices of  *)
(* it, unless the option is the one it is about.                             *)
LEMMA OtherSettings ==
  ASSUME IInv, NEW r \in Requests, Commit(r), NEW w, w = tx[r],
         NEW g \in Options, g # w.on
  PROVE  /\ option'[g].life = option[g].life
         /\ \A s \in Settings : option'[g][s] = option[g][s]
         /\ \A c \in ChoiceRows : OptionOf[c] = g => choice'[c] = choice[c]
<1>1. w \in Transaction /\ w.kind # "none" /\ FitsSettings(w)
  BY CommitRows DEF IInv, SettingsInv, InFlight
<1>2. /\ Stored(option[g], g, w).life = "live"
      /\ Stored(option[g], g, w).required = option[g].required
      /\ Stored(option[g], g, w).minSelect = option[g].minSelect
  BY DEF Stored
<1>3. option'[g] = IF g \in LiveOptions THEN Stored(option[g], g, w) ELSE option[g]
  BY CommitRows
<1>4. \A c \in ChoiceRows : OptionOf[c] = g => w.choices[c] = Keep
  BY <1>1 DEF FitsSettings
<1>5. \A c \in ChoiceRows : OptionOf[c] = g => choice'[c] = choice[c]
  BY <1>4, CommitRows DEF Written
<1>. QED
  BY <1>2, <1>3, <1>5 DEF Settings, LiveOptions

(* The writes of a transaction in flight still fit the settings when another *)
(* one commits: what their check depends on is unchanged, or outdated.       *)
LEMMA OthersFitSettings ==
  ASSUME IInv, NEW r \in Requests, Commit(r), UnbornHaveNoChoices',
         NEW q \in InFlight, q # r, NEW u, u = tx[q], NEW v, v = tx'[q]
  PROVE  FitsSettings(v)'
<1>1. /\ v.kind = u.kind /\ v.on = u.on /\ v.required = u.required
      /\ v.minSelect = u.minSelect /\ v.choices = u.choices /\ v.relies = u.relies
      /\ v.outdated = u.outdated \cup (u.relies \cap Changed)
  BY CommitTx, ZenonT(60) DEF InFlight
<1>2. FitsSettings(u)
  BY DEF IInv, SettingsInv
<1>3. u.on \in Options
  BY DEF IInv, TypeOK, Transaction, InFlight
<1>4. \A c \in ChoiceRows : v.choices[c] # Keep => OptionOf[c] = v.on
  BY <1>1, <1>2 DEF FitsSettings
<1>5. v.kind = "make" => CreatesSound(v)
  BY <1>1, <1>2 DEF FitsSettings, CreatesSound
<1>6. \A c \in ChoiceRows : (u.choices[c] # Keep /\ choice[c] = "unborn") =>
        choice'[c] = "unborn"
  <2> SUFFICES ASSUME NEW c \in ChoiceRows, u.choices[c] # Keep, choice[c] = "unborn"
               PROVE  choice'[c] = "unborn"
    OBVIOUS
  <2>1. PICK w : w = tx[r]
    OBVIOUS
  <2>2. r \in InFlight
    BY <2>1, CommitRows DEF InFlight
  <2>3. w.choices[c] = Keep
    BY <2>1, <2>2 DEF IInv, SettingsInv, OneCreator
  <2>4. ~Live(c) /\ choice[c] # "deleted"
    BY DEF Live, ChoiceState
  <2>. QED
    BY <2>1, <2>3, <2>4, CommitRows DEF Written
<1>7. OnlyAdds(u) => OnlyAdds(v)'
  BY <1>1, <1>6 DEF OnlyAdds
<1>8. ASSUME u.on \in u.relies, u.on \notin Changed, KeepsSettings(u)
      PROVE  KeepsSettings(v)'
  <2>1. /\ option'[u.on].required = option[u.on].required
        /\ option'[u.on].minSelect = option[u.on].minSelect
        /\ \A c \in ChoiceRows : OptionOf[c] = u.on => choice'[c] = choice[c]
    BY <1>3, <1>8 DEF Changed, Settings
  <2>2. StatesOf(ChoicesOf(u.on))' = StatesOf(ChoicesOf(u.on))
    BY <2>1 DEF StatesOf, ChoicesOf, Live
  <2>3. \A c \in ChoiceRows : OptionOf[c] = u.on => StateAfter(v, c)' = StateAfter(u, c)
    BY <1>1, <2>1 DEF StateAfter
  <2>4. ChoicesAfter(v)' = ChoicesAfter(u)
    BY <1>1, <2>3 DEF ChoicesAfter
  <2>5. StatesAfter(v)' = StatesAfter(u)
    BY <2>3, <2>4 DEF StatesAfter, ChoicesAfter
  <2>. QED
    BY <1>1, <1>8, <2>1, <2>2, <2>5 DEF KeepsSettings, SoundRow, SoundWith, Selectable
<1>. QED
  BY <1>1, <1>2, <1>4, <1>5, <1>7, <1>8 DEF FitsSettings

(* So a commit keeps what is known about the settings.                       *)
LEMMA CommitKeepsSettings ==
  ASSUME IInv, NEW r \in Requests, Commit(r)
  PROVE  SettingsInv'
<1>1. PICK w : w = tx[r]
  OBVIOUS
<1>2. /\ w \in Transaction /\ w.kind # "none" /\ Fits(w)
  BY <1>1, CommitRows
<1>3. \A g \in Options : option'[g].life = "unborn" =>
        option[g].life = "unborn" /\ ~(w.kind = "make" /\ g = w.on)
  <2>1. Gone.life = "deleted" /\ \A g : Stored(option[g], g, w).life = "live"
    BY DEF Gone, Unborn, Stored
  <2>. QED
    BY <1>1, <2>1, CommitRows
<1>4. \A c \in ChoiceRows : choice[c] # "unborn" => choice'[c] # "unborn"
  <2>1. \A c \in ChoiceRows : w.choices[c] = Keep \/ w.choices[c] # "unborn"
    BY <1>2 DEF Transaction, ChoiceState
  <2>. QED
    BY <1>1, <2>1, CommitRows DEF Written
<1>5. \A q \in InFlight' : /\ q # r /\ q \in InFlight
                            /\ tx'[q].choices = tx[q].choices
  BY CommitTx, NoWritesType DEF InFlight
<1>6. OneCreator'
  BY <1>4, <1>5 DEF IInv, SettingsInv, OneCreator
<1>7. UnbornHaveNoChoices'
  <2> SUFFICES ASSUME NEW c \in ChoiceRows, option'[OptionOf[c]].life = "unborn"
               PROVE  choice'[c] = "unborn"
    BY DEF UnbornHaveNoChoices
  <2>1. OptionOf[c] \in Options
    BY MenuAssumption
  <2>2. option[OptionOf[c]].life = "unborn" /\ ~(w.kind = "make" /\ OptionOf[c] = w.on)
    BY <1>3, <2>1
  <2>3. choice[c] = "unborn"
    BY <2>2 DEF IInv, SettingsInv, UnbornHaveNoChoices
  <2>4. w.choices[c] = Keep
    BY <1>1, <2>2, <2>3, CommitRows DEF LiveOptions
  <2>5. ~Live(c) /\ choice[c] # "deleted"
    BY <2>3 DEF Live, ChoiceState
  <2>. QED
    BY <1>1, <2>3, <2>4, <2>5, CommitRows DEF Written
<1>8. \A q \in InFlight' : \A v \in {tx'[q]} : FitsSettings(v)'
  BY <1>5, <1>7, OthersFitSettings
<1>. QED
  BY <1>6, <1>7, <1>8 DEF SettingsInv

(* A commit keeps the invariant: what it changes is outdated for the others. *)
LEMMA CommitKeeps ==
  ASSUME IInv, NEW r \in Requests, Commit(r)
  PROVE  IInv'
<1>1. PICK w : w = tx[r]
  OBVIOUS
<1>2. /\ w \in Transaction /\ w.kind # "none" /\ Fits(w)
      /\ DOMAIN option' = Options /\ DOMAIN choice' = ChoiceRows
  BY <1>1, CommitRows
<1>3. \A g \in Options :
        option'[g] = IF w.kind = "drop" /\ g = w.on THEN Gone
                     ELSE IF g \in LiveOptions \/ (w.kind = "make" /\ g = w.on)
                       THEN Stored(option[g], g, w) ELSE option[g]
  BY <1>1, CommitRows
<1>4. \A c \in ChoiceRows :
        choice'[c] = IF (w.kind = "drop" /\ OptionOf[c] = w.on /\ Live(c))
                          \/ choice[c] = "deleted" THEN "deleted"
                     ELSE Written(w.choices[c], choice[c])
  BY <1>1, CommitRows
<1>5. ASSUME NEW g \in Options
      PROVE  /\ option'[g] \in Row
             /\ \A rule \in option'[g].trigger : rule.on # g
             /\ option'[g].life # "live" => option'[g].trigger = {}
  <2>1. /\ option[g] \in Row
        /\ \A rule \in option[g].trigger : rule.on # g
        /\ option[g].life # "live" => option[g].trigger = {}
    BY DEF IInv, TypeOK, OnlyLiveHaveTriggers
  <2>2. Gone \in Row /\ Gone.trigger = {}
    <3>1. Cardinality(ChoiceRows) \in Nat
      BY MenuAssumption, FS_CardinalityType
    <3>2. Unborn \in Row /\ Unborn.trigger = {}
      BY <3>1 DEF Unborn, Row
    <3>. QED
      BY <3>2 DEF Gone, Row
  <2>3. PICK row : row = Stored(option[g], g, w)
    OBVIOUS
  <2>4. /\ row.life = "live"
        /\ row.trigger = Written(w.triggers[g], option[g].trigger)
    BY <2>3 DEF Stored
  <2>5. row \in Row
    BY <1>2, <2>1, <2>3 DEF Row, Transaction, Stored, Written
  <2>6. \A rule \in row.trigger : rule.on # g
    BY <1>2, <2>1, <2>4 DEF Fits, Written
  <2>. QED
    BY <1>3, <2>1, <2>2, <2>3, <2>4, <2>5, <2>6
<1>6. \A c \in ChoiceRows : choice'[c] \in ChoiceState \cup {"unborn", "deleted"}
  <2>1. \A c \in ChoiceRows : /\ choice[c] \in ChoiceState \cup {"unborn", "deleted"}
                              /\ w.choices[c] \in {Keep, "deleted"} \cup ChoiceState
    BY <1>2 DEF IInv, TypeOK, Transaction
  <2>. QED
    BY <1>4, <2>1 DEF Written
<1>7. TypeOK'
  <2>1. option' \in [Options -> Row]
    BY <1>3, <1>5, CommitRows DEF Commit
  <2>2. choice' \in [ChoiceRows -> ChoiceState \cup {"unborn", "deleted"}]
    BY <1>6 DEF Commit
  <2>. QED
    BY <1>5, <2>1, <2>2, CommitTx DEF TypeOK
<1>8. OnlyLiveHaveTriggers'
  BY <1>5 DEF OnlyLiveHaveTriggers
<1>9. \A g \in Options :
         option'[g].life = IF w.kind = "drop" /\ g = w.on THEN "deleted"
                           ELSE IF g \in LiveOptions \/ (w.kind = "make" /\ g = w.on)
                             THEN "live" ELSE option[g].life
  <2>1. Gone.life = "deleted"
    BY DEF Gone, Unborn
  <2>2. \A g : Stored(option[g], g, w).life = "live"
    BY DEF Stored
  <2>. QED
    BY <1>3, <2>1, <2>2
<1>10. OnlyLiveHaveChoices'
  <2> SUFFICES ASSUME NEW c \in ChoiceRows, choice'[c] \in ChoiceState
               PROVE  option'[OptionOf[c]].life = "live" /\ OptionOf[c] \in Options
    BY DEF OnlyLiveHaveChoices, Live, LiveOptions
  <2>1. OptionOf[c] \in Options
    BY MenuAssumption
  <2>2. choice[c] # "deleted"
    BY <1>4 DEF ChoiceState
  <2>3. choice[c] \in ChoiceState \/ choice[c] = "unborn"
    BY <2>2 DEF IInv, TypeOK
  <2>4. OptionOf[c] \in LiveOptions \/ (w.kind = "make" /\ OptionOf[c] = w.on)
    <3>1. CASE choice[c] \in ChoiceState
      BY <3>1 DEF IInv, OnlyLiveHaveChoices, Live
    <3>2. CASE choice[c] = "unborn"
      <4>1. w.choices[c] # Keep
        BY <1>4, <3>2 DEF ChoiceState, Written
      <4>. QED
        BY <1>1, <3>2, <4>1, CommitRows
    <3>. QED
      BY <2>3, <3>1, <3>2
  <2>5. ~(w.kind = "drop" /\ OptionOf[c] = w.on)
    <3> SUFFICES ASSUME w.kind = "drop", OptionOf[c] = w.on
                 PROVE  FALSE
      OBVIOUS
    <3>1. w.choices[c] = Keep
      BY <1>2 DEF Fits
    <3>2. choice'[c] = choice[c] /\ ~Live(c)
      BY <1>4, <3>1 DEF Written, Live, ChoiceState
    <3>. QED
      BY <3>2 DEF Live
  <2>. QED
    BY <1>9, <2>1, <2>4, <2>5
<1>11. OneMaker'
  <2>1. \A q \in Requests : tx'[q].kind = "make" =>
          q # r /\ tx[q].kind = "make" /\ tx'[q].on = tx[q].on
    BY CommitTx, NoWritesType
  <2>. QED
    BY <2>1 DEF IInv, OneMaker
<1>12. ASSUME NEW q \in Requests \ {r}, NEW v, v = tx'[q], v.kind # "none"
       PROVE  Fits(v)'
  <2>1. PICK u : u = tx[q]
    OBVIOUS
  <2>2. /\ v.kind = u.kind /\ v.on = u.on /\ v.triggers = u.triggers
        /\ v.choices = u.choices /\ v.relies = u.relies
        /\ v.outdated = u.outdated \cup (u.relies \cap Changed)
    BY <1>12, <2>1, CommitTx
  <2>3. Fits(u) /\ u.on \in Options
    BY <1>12, <2>1, <2>2 DEF IInv, TypeOK, Transaction
  <2>4. v.kind = "make" <=> option'[v.on].life = "unborn"
    <3>1. u.kind = "make" <=> option[u.on].life = "unborn"
      BY <2>3 DEF Fits
    <3>2. w.kind = "make" <=> option[w.on].life = "unborn"
      BY <1>2 DEF Fits
    <3>3. (w.kind = "make" /\ u.kind = "make") => w.on # u.on
      BY <1>1, <2>1 DEF IInv, OneMaker
    <3>4. option'[u.on].life = "unborn" <=> option[u.on].life = "unborn"
      BY <1>9, <2>3, <3>1, <3>2, <3>3 DEF LiveOptions
    <3>. QED
      BY <2>2, <3>1, <3>4
  <2>5. Triggers \notin v.relies => Harmless(v)
    BY <2>2, <2>3 DEF Fits, Harmless
  <2>6. Triggers \in v.relies \ v.outdated => Safe(v)'
    <3> SUFFICES ASSUME Triggers \in u.relies \ u.outdated, Triggers \notin Changed
                 PROVE  Safe(v)'
      BY <2>2
    <3>1. Safe(u)
      BY <2>3 DEF Fits
    <3>2. Safe(v)
      BY <2>2, <3>1 DEF Safe, SetsTrigger, DropsOption, DeletesChoice
    <3>3. OnlyLiveHaveTriggers /\ OnlyLiveHaveTriggers'
      BY <1>8 DEF IInv
    <3>. QED
      BY <3>2, <3>3, UnchangedTriggers, StaysSafe
  <2>. QED
    BY <2>2, <2>3, <2>4, <2>5, <2>6 DEF Fits, Harmless
<1>13. \A q \in Requests : \A v \in {tx'[q]} : v.kind # "none" => Fits(v)'
  BY <1>12, CommitTx, NoWritesType
<1>14. SettingsInv'
  BY CommitKeepsSettings
<1>. QED
  BY <1>7, <1>8, <1>10, <1>11, <1>13, <1>14 DEF IInv

(* So does a rollback, which leaves the rows as they are.                    *)
LEMMA AbortKeeps ==
  ASSUME IInv, NEW r \in Requests, Abort(r)
  PROVE  IInv'
<1>1. /\ option' = option /\ choice' = choice
      /\ tx' = [tx EXCEPT ![r] = NoWrites]
  BY DEF Abort
<1>2. \A q \in Requests : tx'[q] = IF q = r THEN NoWrites ELSE tx[q]
  BY <1>1 DEF IInv, TypeOK
<1>3. TypeOK'
  BY <1>1, NoWritesType DEF IInv, TypeOK
<1>4. OnlyLiveHaveTriggers /\ OnlyLiveHaveTriggers' /\ OnlyLiveHaveChoices'
  BY <1>1 DEF IInv, OnlyLiveHaveTriggers, OnlyLiveHaveChoices, LiveOptions, Live
<1>5. OneMaker'
  BY <1>2, NoWritesType DEF IInv, OneMaker
<1>6. \A v : Safe(v) => Safe(v)'
  BY <1>1, <1>4, StaysSafe DEF LiveOptions, Live
<1>7. ASSUME NEW v, Fits(v)
      PROVE  Fits(v)'
  BY <1>1, <1>6, <1>7 DEF Fits, Harmless
<1>8. \A q \in Requests : \A v \in {tx'[q]} : v.kind # "none" => Fits(v)'
  BY <1>2, <1>7, NoWritesType DEF IInv
<1>9. SettingsInv'
  <2>1. \A q \in InFlight' : q \in InFlight /\ tx'[q] = tx[q]
    BY <1>2, NoWritesType DEF InFlight
  <2>2. \A v : FitsSettings(v)' <=> FitsSettings(v)
    BY <1>1, SameSettings
  <2>. QED
    BY <1>1, <2>1, <2>2 DEF IInv, SettingsInv, OneCreator, UnbornHaveNoChoices
<1>. QED
  BY <1>3, <1>4, <1>5, <1>8, <1>9 DEF IInv

-----------------------------------------------------------------------------
(* Nothing is stored and nothing is in flight at first.                      *)
LEMMA InitFits == Init => IInv
<1> SUFFICES ASSUME Init
             PROVE  IInv
  OBVIOUS
<1>1. Cardinality(ChoiceRows) \in Nat
  BY MenuAssumption, FS_CardinalityType
<1>2. Unborn \in Row /\ Unborn.trigger = {} /\ Unborn.life = "unborn"
  BY <1>1 DEF Unborn, Row
<1>3. \A r \in Requests : tx[r] \in Transaction /\ tx[r].kind = "none"
  BY NoWritesType DEF Init
<1>4. TypeOK
  BY <1>2, <1>3 DEF Init, TypeOK
<1>5. OnlyLiveHaveTriggers
  BY <1>2 DEF Init, OnlyLiveHaveTriggers
<1>6. OnlyLiveHaveChoices
  BY DEF Init, OnlyLiveHaveChoices, Live, ChoiceState
<1>7. OneMaker
  BY <1>3 DEF OneMaker
<1>8. SettingsInv
  <2>1. InFlight = {}
    BY <1>3 DEF InFlight
  <2>. QED
    BY <2>1 DEF Init, SettingsInv, OneCreator, UnbornHaveNoChoices
<1>. QED
  BY <1>3, <1>4, <1>5, <1>6, <1>7, <1>8 DEF IInv

(* Every step keeps the invariant.                                           *)
LEMMA StepFits == IInv /\ [Next]_vars => IInv'
<1> SUFFICES ASSUME IInv, [Next]_vars
             PROVE  IInv'
  OBVIOUS
<1>1. CASE UNCHANGED vars
  <2>1. option' = option /\ choice' = choice /\ tx' = tx
    BY <1>1 DEF vars
  <2>2. TypeOK'
    BY <2>1 DEF IInv, TypeOK
  <2>3. OnlyLiveHaveTriggers /\ OnlyLiveHaveTriggers' /\ OnlyLiveHaveChoices'
    BY <2>1 DEF IInv, OnlyLiveHaveTriggers, OnlyLiveHaveChoices, LiveOptions, Live
  <2>4. OneMaker'
    BY <2>1 DEF IInv, OneMaker
  <2>5. \A v : Safe(v) => Safe(v)'
    BY <2>1, <2>3, StaysSafe DEF LiveOptions, Live
  <2>6. ASSUME NEW v, Fits(v)
        PROVE  Fits(v)'
    BY <2>1, <2>5, <2>6 DEF Fits, Harmless
  <2>7. \A q \in Requests : \A v \in {tx'[q]} : v.kind # "none" => Fits(v)'
    BY <2>1, <2>6 DEF IInv
  <2>8. SettingsInv'
    <3>1. \A v : FitsSettings(v)' <=> FitsSettings(v)
      BY <2>1, SameSettings
    <3>. QED
      BY <2>1, <3>1 DEF IInv, SettingsInv, OneCreator, UnbornHaveNoChoices, InFlight
  <2>. QED
    BY <2>2, <2>3, <2>4, <2>7, <2>8 DEF IInv
<1>2. CASE Next
  <2>1. PICK r \in Requests :
          \/ CreateOption(r) \/ UpdateOption(r) \/ DeleteOption(r)
          \/ CreateChoice(r) \/ UpdateChoice(r) \/ DeleteChoice(r)
          \/ Commit(r) \/ Abort(r)
    BY <1>2 DEF Next
  <2>. QED
    BY <2>1, CreateOptionKeeps, UpdateOptionKeeps, DeleteOptionKeeps, CreateChoiceKeeps,
       UpdateChoiceKeeps, DeleteChoiceKeeps, CommitKeeps, AbortKeeps
<1>. QED
  BY <1>1, <1>2

(* Every step commits one transaction or leaves the rows as they are.        *)
LEMMA OnlyCommitsWrite ==
  ASSUME Next
  PROVE  (\E r \in Requests : Commit(r)) \/ (option' = option /\ choice' = choice)
<1>1. PICK r \in Requests :
        \/ CreateOption(r) \/ UpdateOption(r) \/ DeleteOption(r)
        \/ CreateChoice(r) \/ UpdateChoice(r) \/ DeleteChoice(r)
        \/ Commit(r) \/ Abort(r)
  BY DEF Next
<1>2. \A v : Begin(r, v) => option' = option /\ choice' = choice
  BY DEF Begin
<1>3. CASE Commit(r)
  BY <1>3
<1>4. CASE Abort(r)
  BY <1>4 DEF Abort
<1>5. CASE \/ CreateOption(r) \/ UpdateOption(r) \/ DeleteOption(r)
           \/ CreateChoice(r) \/ UpdateChoice(r) \/ DeleteChoice(r)
  BY <1>2, <1>5 DEF CreateOption, UpdateOption, DeleteOption, CreateChoice, UpdateChoice,
                    DeleteChoice
<1>. QED
  BY <1>1, <1>3, <1>4, <1>5

(* What the transactions in flight may be about to write is known: the       *)
(* inductive invariant holds in every reachable state.                       *)
THEOREM TransactionsFit == Spec => []IInv
<1>. QED
  BY InitFits, StepFits, PTL DEF Spec

(* The rows and the transactions have their types; no rule is without a      *)
(* choice or on its own option (the columns of menu_option_group).           *)
THEOREM MenuTypes == Spec => []TypeOK
<1>1. IInv => TypeOK
  BY DEF IInv
<1>. QED
  BY <1>1, TransactionsFit, PTL

-----------------------------------------------------------------------------
(* The option that a commit is about is sound afterwards, if it was sound    *)
(* and nothing it relied on about the option is outdated.                    *)
LEMMA OwnSettings ==
  ASSUME IInv, NEW r \in Requests, Commit(r), NEW w, w = tx[r], w.on \notin w.outdated,
         NEW g, g = w.on, SettingsSound(g)
  PROVE  SettingsSound(g)'
<1>1. /\ w \in Transaction /\ w.kind # "none" /\ Fits(w) /\ FitsSettings(w)
      /\ g \in Options
  BY CommitRows DEF IInv, SettingsInv, InFlight, Transaction
<1>2. CASE w.kind = "drop"
  BY <1>1, <1>2, CommitRows DEF SettingsSound, Gone, Unborn
<1>3. /\ Stored(option[g], g, w).required = Written(w.required, option[g].required)
      /\ Stored(option[g], g, w).minSelect = Written(w.minSelect, option[g].minSelect)
  BY DEF Stored
<1>4. w.kind # "drop" => \A c \in ChoiceRows : choice'[c] = StateAfter(w, c)
  BY CommitRows DEF StateAfter
<1>5. w.kind # "drop" => StatesOf(ChoicesOf(g))' = StatesAfter(w)
  BY <1>4 DEF StatesOf, ChoicesOf, Live, StatesAfter, ChoicesAfter
<1>6. CASE w.kind = "make"
  <2> DEFINE made == {c \in ChoiceRows : w.choices[c] # Keep}
  <2>1. /\ w.required # Keep /\ w.minSelect # Keep
        /\ \A c \in made : w.choices[c] # "deleted"
        /\ SoundWith(w.required, w.minSelect, [c \in made |-> w.choices[c]])
    BY <1>1, <1>6 DEF FitsSettings, CreatesSound
  <2>2. option[g].life = "unborn"
    BY <1>1, <1>6 DEF Fits
  <2>3. \A c \in ChoiceRows : OptionOf[c] = g => choice[c] = "unborn"
    BY <2>2 DEF IInv, SettingsInv, UnbornHaveNoChoices
  <2>4. \A c \in made : OptionOf[c] = g /\ w.choices[c] \in ChoiceState
    BY <1>1, <2>1 DEF FitsSettings, Transaction
  <2>5. \A c \in ChoiceRows : OptionOf[c] = g => StateAfter(w, c) = Written(w.choices[c], "unborn")
    BY <2>3 DEF StateAfter
  <2>6. ChoicesAfter(w) = made
    BY <2>4, <2>5 DEF ChoicesAfter, Written, ChoiceState
  <2>7. StatesAfter(w) = [c \in made |-> w.choices[c]]
    BY <2>4, <2>5, <2>6 DEF StatesAfter, Written
  <2>8. option'[g] = Stored(option[g], g, w)
    BY <1>6, <1>1, CommitRows
  <2>9. option'[g].required = w.required /\ option'[g].minSelect = w.minSelect
    BY <1>3, <2>1, <2>8 DEF Written
  <2>10. StatesOf(ChoicesOf(g))' = [c \in made |-> w.choices[c]]
    BY <1>5, <1>6, <2>7
  <2> HIDE DEF made
  <2>11. DOMAIN StatesOf(ChoicesOf(g))' # {} /\ ChoicesOf(g)' = DOMAIN StatesOf(ChoicesOf(g))'
    BY <2>1, <2>10 DEF SoundWith, StatesOf
  <2>12. Consistent(option'[g].required, option'[g].minSelect,
                    Selectable(StatesOf(ChoicesOf(g))'))
    BY <2>1, <2>9, <2>10 DEF SoundWith
  <2>. QED
    BY <2>11, <2>12 DEF SettingsSound, StatesOf, Selectable
<1>7. CASE w.kind = "edit"
  <2>1. KeepsSettings(w)
    BY <1>1, <1>7, AddingKeeps DEF IInv, FitsSettings
  <2>2. CASE option[g].life # "live"
    <3>1. option'[g] = option[g]
      BY <1>1, <1>7, <2>2, CommitRows DEF LiveOptions
    <3>. QED
      BY <2>2, <3>1 DEF SettingsSound
  <2>3. CASE option[g].life = "live"
    <3>1. SoundRow(g)
      BY <2>3 DEF SettingsSound, SoundRow, SoundWith, StatesOf
    <3>2. SoundWith(Written(w.required, option[g].required),
                    Written(w.minSelect, option[g].minSelect), StatesAfter(w))
      BY <2>1, <3>1 DEF KeepsSettings
    <3>3. option'[g] = Stored(option[g], g, w)
      BY <1>1, <1>7, <2>3, CommitRows DEF LiveOptions
    <3>4. StatesOf(ChoicesOf(g))' = StatesAfter(w)
      BY <1>5, <1>7
    <3>5. DOMAIN StatesOf(ChoicesOf(g))' # {} /\ ChoicesOf(g)' = DOMAIN StatesOf(ChoicesOf(g))'
      BY <3>2, <3>4 DEF SoundWith, StatesOf
    <3>6. Consistent(option'[g].required, option'[g].minSelect,
                     Selectable(StatesOf(ChoicesOf(g))'))
      BY <1>3, <3>2, <3>3, <3>4 DEF SoundWith
    <3>. QED
      BY <3>5, <3>6 DEF SettingsSound, StatesOf, Selectable
  <2>. QED
    BY <2>2, <2>3
<1>. QED
  BY <1>1, <1>2, <1>6, <1>7 DEF Transaction

(* A required option asks for at least one choice, no option asks for more   *)
(* than customers can see or is left without a choice: a commit can break    *)
(* that only if the option changed between the transaction's read and it     *)
(* (assertGroupConstraints, the merge of updateOption, the correction in     *)
(* updateChoice and deleteChoice).                                           *)
THEOREM FreshCommitsAreSound == Spec => FreshCommitsKeepSettings
<1>1. ASSUME IInv, [Next]_vars, NEW g \in Options, SettingsSound(g), CommitsFresh(g)
      PROVE  SettingsSound(g)'
  <2>1. ASSUME NEW r \in Requests, Commit(r)
        PROVE  SettingsSound(g)'
    <3>1. PICK w : w = tx[r]
      OBVIOUS
    <3>2. w.kind # "none" /\ g \notin w.outdated
      BY <1>1, <2>1, <3>1, CommitRows, CommitTx, NoWritesType DEF CommitsFresh
    <3>3. CASE g = w.on
      BY <1>1, <2>1, <3>1, <3>2, <3>3, OwnSettings
    <3>4. CASE g # w.on
      <4>1. /\ option'[g].life = option[g].life
            /\ \A s \in Settings : option'[g][s] = option[g][s]
            /\ \A c \in ChoiceRows : OptionOf[c] = g => choice'[c] = choice[c]
        BY <1>1, <2>1, <3>1, <3>4, OtherSettings
      <4>2. ChoicesOf(g)' = ChoicesOf(g) /\ StatesOf(ChoicesOf(g))' = StatesOf(ChoicesOf(g))
        BY <4>1 DEF ChoicesOf, Live, StatesOf
      <4>3. /\ option'[g].required = option[g].required
            /\ option'[g].minSelect = option[g].minSelect
        BY <4>1 DEF Settings
      <4>. QED
        BY <1>1, <4>1, <4>2, <4>3 DEF SettingsSound
    <3>. QED
      BY <3>3, <3>4
  <2>2. ASSUME option' = option, choice' = choice
        PROVE  SettingsSound(g)'
    BY <1>1, <2>2 DEF SettingsSound, StatesOf, ChoicesOf, Live
  <2>3. CASE UNCHANGED vars
    BY <2>2, <2>3 DEF vars
  <2>4. CASE Next
    BY <2>1, <2>2, <2>4, OnlyCommitsWrite
  <2>. QED
    BY <1>1, <2>3, <2>4
<1>2. ASSUME IInv, [Next]_vars
      PROVE  \A g \in Options : (SettingsSound(g) /\ CommitsFresh(g)) => SettingsSound(g)'
  BY <1>1, <1>2
<1>. QED
  BY <1>2, TransactionsFit, PTL DEF Spec, FreshCommitsKeepSettings

-----------------------------------------------------------------------------
(* Triggers that refer to no other option than before close no cycle.        *)
LEMMA FewerTargets ==
  ASSUME OnlyLiveHaveTriggers, TriggersAcyclic,
         \A h \in Options : \A rule \in option'[h].trigger :
            \E old \in option[h].trigger : rule.on = old.on
  PROVE  TriggersAcyclic'
<1> SUFFICES ASSUME NEW S, S \subseteq LiveOptions', S # {},
                    \A g \in S : \E rule \in option'[g].trigger : rule.on \in S
             PROVE  FALSE
  BY DEF TriggersAcyclic
<1>1. \A g \in S : \E old \in option[g].trigger : old.on \in S
  BY DEF LiveOptions
<1>2. S \subseteq LiveOptions
  BY <1>1 DEF OnlyLiveHaveTriggers, LiveOptions
<1>. QED
  BY <1>1, <1>2 DEF TriggersAcyclic

(* The rows after the commit of writes that drop no option.                  *)
LEMMA NothingDropped ==
  ASSUME IInv, NEW r \in Requests, Commit(r), NEW w, w = tx[r], w.kind # "drop"
  PROVE  /\ \A h \in LiveOptions : h \in LiveOptions'
         /\ \A c \in ChoiceRows : (Live(c) /\ w.choices[c] # "deleted") => Live(c)'
         /\ \A h \in Options :
              option'[h].trigger = IF h \in LiveOptions \/ (w.kind = "make" /\ h = w.on)
                                     THEN Written(w.triggers[h], option[h].trigger)
                                     ELSE {}
<1>1. w \in Transaction
  BY CommitRows
<1>2. \A g \in Options :
        option'[g] = IF g \in LiveOptions \/ (w.kind = "make" /\ g = w.on)
                       THEN Stored(option[g], g, w) ELSE option[g]
  BY CommitRows
<1>3. \A g : /\ Stored(option[g], g, w).life = "live"
             /\ Stored(option[g], g, w).trigger = Written(w.triggers[g], option[g].trigger)
  BY DEF Stored
<1>4. \A h \in LiveOptions : h \in LiveOptions'
  BY <1>2, <1>3 DEF LiveOptions
<1>5. \A h \in Options \ LiveOptions : option[h].trigger = {}
  BY DEF IInv, OnlyLiveHaveTriggers, LiveOptions
<1>6. \A c \in ChoiceRows : w.choices[c] \in {Keep, "deleted"} \cup ChoiceState
  BY <1>1 DEF Transaction
<1>7. \A c \in ChoiceRows : choice[c] # "deleted" =>
        choice'[c] = Written(w.choices[c], choice[c])
  BY CommitRows
<1>8. ASSUME NEW c \in ChoiceRows, Live(c), w.choices[c] # "deleted"
      PROVE  Live(c)'
  BY <1>6, <1>7, <1>8 DEF Live, Written, ChoiceState
<1>. QED
  BY <1>2, <1>3, <1>4, <1>5, <1>8

(* Writes that rely on no trigger leave only fewer rules and more rows.      *)
LEMMA HarmlessCommit ==
  ASSUME IInv, NEW r \in Requests, Commit(r), NEW w, w = tx[r], Harmless(w),
         TriggersRefer, TriggersAcyclic
  PROVE  (TriggersRefer /\ TriggersAcyclic)'
<1>1. /\ \A h \in LiveOptions : h \in LiveOptions'
      /\ \A c \in ChoiceRows : Live(c) => Live(c)'
  BY NothingDropped DEF Harmless
<1>2. \A h \in Options : w.triggers[h] \in {Keep, {}}
  BY DEF Harmless
<1>3. \A h \in Options : option'[h].trigger \subseteq option[h].trigger
  BY <1>2, NothingDropped DEF Harmless, Written
<1>4. \A h \in Options : option[h].trigger # {} => h \in LiveOptions
  BY DEF IInv, OnlyLiveHaveTriggers, LiveOptions
<1>5. TriggersAcyclic'
  BY <1>3, FewerTargets DEF IInv
<1>6. \A g : ChoicesOf(g) \subseteq ChoicesOf(g)'
  BY <1>1 DEF ChoicesOf
<1>7. TriggersRefer'
  BY <1>1, <1>3, <1>4, <1>6 DEF TriggersRefer, LiveOptions
<1>. QED
  BY <1>5, <1>7

(* A new trigger that is valid still closes no cycle when it is written: a   *)
(* cycle through the option g would be one that ReachesCycle looks for, and  *)
(* an option that is only now created is in no other trigger.                *)
LEMMA SettingCommit ==
  ASSUME IInv, NEW r \in Requests, Commit(r), NEW w, w = tx[r], SetsTrigger(w),
         TriggersRefer, TriggersAcyclic
  PROVE  (TriggersRefer /\ TriggersAcyclic)'
<1>1. /\ w \in Transaction /\ Fits(w)
      /\ w.kind # "drop" /\ \A c \in ChoiceRows : w.choices[c] # "deleted"
      /\ \A h \in Options \ {w.on} : w.triggers[h] = Keep
  BY CommitRows DEF SetsTrigger
<1>2. PICK t \in SUBSET Rules :
        /\ w.triggers[w.on] = t
        /\ \A rule \in t : ValidRule(w.on, rule)
        /\ w.kind # "make" => ~ReachesCycle(w.on, t)
  BY DEF SetsTrigger
<1>3. PICK g : g = w.on
  OBVIOUS
<1>4. /\ g \in Options
      /\ w.kind = "make" => g \notin LiveOptions
  BY <1>1, <1>3 DEF Transaction, Fits, LiveOptions
<1>5. /\ \A h \in LiveOptions : h \in LiveOptions'
      /\ \A c \in ChoiceRows : Live(c) => Live(c)'
  BY <1>1, NothingDropped
<1>6. /\ \A h \in Options \ {g} : option'[h].trigger = option[h].trigger
      /\ option'[g].trigger \in {t, {}}
      /\ option'[g].trigger # {} => g \in LiveOptions \/ w.kind = "make"
  <2>1. \A h \in Options :
          option'[h].trigger = IF h \in LiveOptions \/ (w.kind = "make" /\ h = w.on)
                                 THEN Written(w.triggers[h], option[h].trigger)
                                 ELSE {}
    BY <1>1, NothingDropped
  <2>2. \A h \in Options : option[h].life # "live" => option[h].trigger = {}
    BY DEF IInv, OnlyLiveHaveTriggers
  <2>3. t # Keep
    BY KeepAssumption
  <2>. QED
    BY <1>1, <1>2, <1>3, <1>4, <2>1, <2>2, <2>3 DEF Written, LiveOptions
<1>7. \A rule \in t : ValidRule(g, rule)
  BY <1>2, <1>3
<1>8. \A h \in Options : option[h].trigger # {} => h \in LiveOptions
  BY DEF IInv, OnlyLiveHaveTriggers, LiveOptions
<1>9. TriggersRefer'
  <2> SUFFICES ASSUME NEW h \in LiveOptions', NEW rule \in option'[h].trigger
               PROVE  rule.on \in LiveOptions /\ rule.choices \subseteq ChoicesOf(rule.on)
    BY <1>5 DEF TriggersRefer, ChoicesOf
  <2>1. h \in Options
    BY DEF LiveOptions
  <2>2. CASE h = g
    BY <1>6, <1>7, <2>2 DEF ValidRule
  <2>3. CASE h # g
    BY <1>6, <1>8, <2>1, <2>3 DEF TriggersRefer
  <2>. QED
    BY <2>2, <2>3
<1>10. TriggersAcyclic'
  <2> SUFFICES ASSUME NEW S, S \subseteq LiveOptions', S # {},
                      \A h \in S : \E rule \in option'[h].trigger : rule.on \in S
               PROVE  FALSE
    BY DEF TriggersAcyclic
  <2>1. S \subseteq Options
    BY DEF LiveOptions
  <2>2. \A h \in S \ {g} : h \in LiveOptions /\ \E rule \in option[h].trigger : rule.on \in S
    BY <1>6, <1>8, <2>1
  <2>3. g \in S => \E rule \in t : rule.on \in S
    BY <1>6
  <2>4. CASE g \notin S
    BY <2>2, <2>4, ZenonT(60) DEF TriggersAcyclic
  <2>5. CASE g \in S /\ w.kind = "make"
    <3> DEFINE R == S \ {g}
    <3>1. R \subseteq LiveOptions
      BY <2>2
    <3>2. R # {}
      BY <1>7, <2>3, <2>5 DEF ValidRule
    <3>3. ASSUME NEW h \in R
          PROVE  \E rule \in option[h].trigger : rule.on \in R
      <4>1. PICK rule \in option[h].trigger : rule.on \in S
        BY <2>2
      <4>2. rule.on \in LiveOptions
        BY <3>1 DEF TriggersRefer
      <4>. QED
        BY <1>4, <2>5, <4>1, <4>2
    <3> HIDE DEF R
    <3>. QED
      BY <3>1, <3>2, <3>3 DEF TriggersAcyclic
  <2>6. CASE g \in S /\ w.kind # "make"
    <3> DEFINE next == [h \in Options |->
                          {rule.on : rule \in IF h = g THEN t ELSE option[h].trigger}]
               reached == {h \in Options : \A Z \in SUBSET Options :
                             (g \in Z /\ \A k \in Z : next[k] \subseteq Z) => h \in Z}
    <3>1. \A h \in S : next[h] \cap S # {}
      BY <2>1, <2>2, <2>3
    <3>2. \A h \in Options : next[h] \subseteq Options
      <4>1. \A h \in Options : option[h].trigger \in SUBSET Rules
        BY DEF IInv, TypeOK, Row
      <4>. QED
        BY <4>1 DEF Rules
    <3> HIDE DEF next
    <3>3. g \in reached
      BY <1>4
    <3>4. \A h \in reached : next[h] \subseteq reached
      BY <3>2
    <3>5. ~\E Z \in (SUBSET reached) \ {{}} : \A h \in Z : next[h] \cap Z # {}
      BY <1>2, <1>3, <2>6 DEF ReachesCycle, next
    <3> HIDE DEF reached
    <3>6. PICK Z : Z = S \cap reached
      OBVIOUS
    <3>7. Z \in (SUBSET reached) \ {{}}
      BY <2>6, <3>3, <3>6
    <3>8. \A h \in Z : next[h] \cap Z # {}
      BY <3>1, <3>4, <3>6
    <3>. QED
      BY <3>5, <3>7, <3>8
  <2>. QED
    BY <2>4, <2>5, <2>6
<1>. QED
  BY <1>9, <1>10

(* The rows that the pruning writes: every rule that is left was there, with *)
(* at least its choices, and none is on g with one of the choices gone.      *)
LEMMA PruningCommit ==
  ASSUME IInv, NEW r \in Requests, Commit(r), NEW w, w = tx[r],
         w.kind # "make", NEW g, NEW gone, w.triggers = PrunedTriggers(g, gone)
  PROVE  \A h \in Options : \A rule \in option'[h].trigger :
           /\ rule \in Rules
           /\ rule.on = g => rule.choices \cap gone = {}
           /\ \E old \in option[h].trigger :
                rule.on = old.on /\ rule.choices \subseteq old.choices
<1> SUFFICES ASSUME NEW h \in Options, NEW t, t = option[h].trigger,
                    NEW rule \in option'[h].trigger
             PROVE  PrunedFrom(rule, t, g, gone)
  BY DEF PrunedFrom
<1>1. t \in SUBSET Rules /\ \A old \in t : old.on # h
  BY DEF IInv, TypeOK, Row
<1>2. option[h].life # "live" => t = {}
  BY DEF IInv, OnlyLiveHaveTriggers
<1>3. h \in LiveOptions /\ option'[h].trigger = Written(w.triggers[h], t)
  <2>1. /\ Gone.trigger = {}
        /\ Stored(option[h], h, w).trigger = Written(w.triggers[h], option[h].trigger)
    BY DEF Gone, Unborn, Stored
  <2>2. \/ option'[h] = Gone
        \/ (option'[h] = option[h] /\ h \notin LiveOptions)
        \/ (option'[h] = Stored(option[h], h, w) /\ h \in LiveOptions)
    BY CommitRows
  <2>. QED
    BY <1>2, <2>1, <2>2 DEF LiveOptions
<1>4. CASE h \notin Rewritten(g)
  <2>1. rule \in t
    BY <1>3, <1>4 DEF PrunedTriggers, Written
  <2>2. rule.on # g
    BY <1>1, <1>3, <1>4, <2>1 DEF Rewritten
  <2>. QED
    BY <1>1, <2>1, <2>2 DEF PrunedFrom
<1>5. CASE h \in Rewritten(g)
  <2>1. w.triggers[h] = Pruned(t, g, gone)
    BY <1>5 DEF PrunedTriggers
  <2>2. \A v \in Pruned(t, g, gone) : v \in Rules
    BY <1>1, PrunedRules DEF PrunedFrom
  <2>3. Pruned(t, g, gone) # Keep
    BY <2>2, KeepAssumption
  <2>4. rule \in Pruned(t, g, gone)
    BY <1>3, <2>1, <2>3 DEF Written
  <2>. QED
    BY <1>1, <2>4, PrunedRules
<1>. QED
  BY <1>4, <1>5

(* A dropped option was pruned out of every trigger, with all its choices.   *)
LEMMA DroppingCommit ==
  ASSUME IInv, NEW r \in Requests, Commit(r), NEW w, w = tx[r], DropsOption(w),
         TriggersRefer, TriggersAcyclic
  PROVE  (TriggersRefer /\ TriggersAcyclic)'
<1>1. /\ w.kind = "drop"
      /\ \A c \in ChoiceRows : w.choices[c] = Keep
      /\ w.triggers = PrunedTriggers(w.on, ChoiceRows)
  BY DEF DropsOption
<1>2. \A h \in Options : \A rule \in option'[h].trigger :
        /\ rule \in Rules
        /\ rule.on = w.on => rule.choices \cap ChoiceRows = {}
        /\ \E old \in option[h].trigger :
             rule.on = old.on /\ rule.choices \subseteq old.choices
  BY <1>1, PruningCommit
<1>3. TriggersAcyclic'
  BY <1>2, FewerTargets DEF IInv
<1>4. \A h \in Options : option[h].trigger # {} => h \in LiveOptions
  BY DEF IInv, OnlyLiveHaveTriggers, LiveOptions
<1>5. \A h \in LiveOptions : h # w.on => h \in LiveOptions'
  <2>1. \A h \in LiveOptions : h # w.on => option'[h] = Stored(option[h], h, w)
    BY CommitRows DEF LiveOptions
  <2>2. \A h : Stored(option[h], h, w).life = "live"
    BY DEF Stored
  <2>. QED
    BY <2>1, <2>2 DEF LiveOptions
<1>6. \A c \in ChoiceRows : (Live(c) /\ OptionOf[c] # w.on) => Live(c)'
  <2>1. \A c \in ChoiceRows : (Live(c) /\ OptionOf[c] # w.on) => choice'[c] = choice[c]
    BY <1>1, CommitRows DEF Live, Written, ChoiceState
  <2>. QED
    BY <2>1 DEF Live
<1>7. TriggersRefer'
  <2> SUFFICES ASSUME NEW h \in LiveOptions', NEW rule \in option'[h].trigger
               PROVE  rule.on \in LiveOptions' /\ rule.choices \subseteq ChoicesOf(rule.on)'
    BY DEF TriggersRefer
  <2>1. h \in Options
    BY DEF LiveOptions
  <2>2. /\ rule.choices \subseteq ChoiceRows /\ rule.choices # {}
        /\ rule.on = w.on => rule.choices \cap ChoiceRows = {}
    BY <1>2, <2>1 DEF Rules
  <2>3. rule.on # w.on
    BY <2>2
  <2>4. PICK old \in option[h].trigger :
          rule.on = old.on /\ rule.choices \subseteq old.choices
    BY <1>2, <2>1
  <2>5. old.on \in LiveOptions /\ old.choices \subseteq ChoicesOf(old.on)
    BY <1>4, <2>1, <2>4 DEF TriggersRefer
  <2>. QED
    BY <1>5, <1>6, <2>3, <2>4, <2>5 DEF ChoicesOf
<1>. QED
  BY <1>3, <1>7

(* A deleted choice was pruned out of every trigger.                         *)
LEMMA DeletingCommit ==
  ASSUME IInv, NEW r \in Requests, Commit(r), NEW w, w = tx[r], DeletesChoice(w),
         TriggersRefer, TriggersAcyclic
  PROVE  (TriggersRefer /\ TriggersAcyclic)'
<1>1. w.kind = "edit"
  BY DEF DeletesChoice
<1>2. PICK c \in ChoiceRows :
        /\ OptionOf[c] = w.on
        /\ \A d \in ChoiceRows \ {c} : w.choices[d] # "deleted"
        /\ w.triggers = PrunedTriggers(w.on, {c})
  BY DEF DeletesChoice
<1>3. \A h \in Options : \A rule \in option'[h].trigger :
        /\ rule \in Rules
        /\ rule.on = w.on => rule.choices \cap {c} = {}
        /\ \E old \in option[h].trigger :
             rule.on = old.on /\ rule.choices \subseteq old.choices
  BY <1>1, <1>2, PruningCommit
<1>4. TriggersAcyclic'
  BY <1>3, FewerTargets DEF IInv
<1>5. \A h \in Options : option[h].trigger # {} => h \in LiveOptions
  BY DEF IInv, OnlyLiveHaveTriggers, LiveOptions
<1>6. /\ \A h \in LiveOptions : h \in LiveOptions'
      /\ \A d \in ChoiceRows \ {c} : Live(d) => Live(d)'
  BY <1>1, <1>2, NothingDropped
<1>7. TriggersRefer'
  <2> SUFFICES ASSUME NEW h \in LiveOptions', NEW rule \in option'[h].trigger
               PROVE  rule.on \in LiveOptions' /\ rule.choices \subseteq ChoicesOf(rule.on)'
    BY DEF TriggersRefer
  <2>1. h \in Options
    BY DEF LiveOptions
  <2>2. PICK old \in option[h].trigger :
          rule.on = old.on /\ rule.choices \subseteq old.choices
    BY <1>3, <2>1
  <2>3. old.on \in LiveOptions /\ old.choices \subseteq ChoicesOf(old.on)
    BY <1>5, <2>1, <2>2 DEF TriggersRefer
  <2>4. c \notin rule.choices
    BY <1>2, <1>3, <2>1, <2>2, <2>3 DEF ChoicesOf
  <2>. QED
    BY <1>6, <2>2, <2>3, <2>4 DEF ChoicesOf
<1>. QED
  BY <1>4, <1>7

-----------------------------------------------------------------------------
(* No rule refers to an option or a choice that is gone, and the triggers    *)
(* have no cycle: a commit can break that only if some trigger changed, or   *)
(* something was deleted, between the transaction's read and it              *)
(* (assertTriggerIsValid, assertNoTriggerCycle, pruneTriggersReferencing).   *)
THEOREM FreshCommitsAreSafe == Spec => FreshCommitsKeepTriggers
<1>1. ASSUME IInv, [Next]_vars, TriggersRefer, TriggersAcyclic, CommitsFresh(Triggers)
      PROVE  (TriggersRefer /\ TriggersAcyclic)'
  <2>1. ASSUME NEW r \in Requests, Commit(r)
        PROVE  (TriggersRefer /\ TriggersAcyclic)'
    <3>1. PICK w : w = tx[r]
      OBVIOUS
    <3>2. w.kind # "none" /\ Fits(w)
      BY <1>1, <2>1, <3>1, CommitRows
    <3>3. Triggers \notin w.outdated
      BY <1>1, <2>1, <3>1, <3>2, CommitTx, NoWritesType DEF CommitsFresh
    <3>4. Harmless(w) \/ Safe(w)
      BY <3>2, <3>3 DEF Fits
    <3>. QED
      BY <1>1, <2>1, <3>1, <3>4, HarmlessCommit, SettingCommit, DroppingCommit,
         DeletingCommit DEF Safe
  <2>2. ASSUME option' = option, choice' = choice
        PROVE  (TriggersRefer /\ TriggersAcyclic)'
    BY <1>1, <2>2 DEF TriggersRefer, TriggersAcyclic, LiveOptions, ChoicesOf, Live
  <2>3. CASE UNCHANGED vars
    BY <2>2, <2>3 DEF vars
  <2>4. CASE Next
    BY <2>1, <2>2, <2>4, OnlyCommitsWrite
  <2>. QED
    BY <1>1, <2>3, <2>4
<1>. QED
  BY <1>1, TransactionsFit, PTL DEF Spec, FreshCommitsKeepTriggers

-----------------------------------------------------------------------------
(***************************************************************************)
(* Deleted menus and images: MenuRetention                                 *)
(***************************************************************************)

\* Menus and uploads as a run names them.
Picks == SUBSET (Menus \X (Images \cup {Invalid}))

RunStates ==
  {Asleep}
  \cup [pc : {"reclaim"}, cutoff : Int, todo : Picks]
  \cup [pc : {"trash"}, cutoff : Int, todo : Picks, m : Menus, k : Images,
        left : SUBSET Variants, copied : SUBSET Variants]
  \cup [pc : {"options"}, targets : SUBSET Menus, deletable : SUBSET Menus]
  \cup [pc : {"menus"}, deletable : SUBSET Menus]
SenderStates ==
  {Ready, Done}
  \cup [pc : {"promoting"}, k : Images, target : Menus \cup {None}, left : SUBSET Variants]
  \cup [pc : {"ordering"}, m : Menus]

RunsTyped == runs \in [Purgers -> RunStates] /\ reqs \in [Senders -> SenderStates]

\* The menu has been overdue and cannot come back, unless it was deleted a
\* second time; what was trashed for it was not ordered.
Past(m) ==
  \/ m \in revived
  \/ /\ menu[m].row # "absent" /\ menu[m].deletedAt # None
     /\ menu[m].deletedAt < RetentionCutoff
Discarded(m) == Past(m) /\ (m \in revived \/ ~menu[m].ordered)

\* Options are of menus that are there.
OptionsInv == \A m \in Menus : menu[m].row # "here" => ~menu[m].options

\* An order is placed on the day on which its menu was read as live.
OrderingInv ==
  \A r \in Senders : reqs[r].pc = "ordering" => menu[reqs[r].m].deletedAt \in {None, now}

\* What a run may take, from its read on.
RunOK(q) ==
  /\ q.pc \in {"reclaim", "trash"} =>
       q.cutoff <= RetentionCutoff /\ \A t \in q.todo : Discarded(t[1])
  /\ q.pc = "trash" => Discarded(q.m) /\ \A v \in q.copied : <<q.k, v>> \in trash
  /\ q.pc = "options" => \A m \in q.targets : Past(m)
  /\ q.pc \in {"options", "menus"} => \A m \in q.deletable : Past(m)
RunsInv == \A p \in Purgers : \A q \in {runs[p]} : RunOK(q)

\* Nothing is trashed for a menu that can come back.
TrashedInv == \A t \in trashedFor : Discarded(t[1])

\* What has been copied for a menu stands, or was trashed for another one.
Stands(k, v) == <<k, v>> \in bucket \/ \E n \in Menus : <<n, k>> \in trashedFor
Promoted(q) ==
  q.pc = "promoting" =>
    \A v \in Variants \ q.left : Stands(q.k, v) /\ <<q.k, v>> \in bucket \cup trash
PromotedInv == \A r \in Senders : \A q \in {reqs[r]} : Promoted(q)

\* The menus whose images must stand.
OnSale(m) ==
  /\ Exists(m) /\ menu[m].imageKey \in Images
  /\ ~Overdue(m) \/ menu[m].ordered
OnSaleInv ==
  \A m \in Menus \ revived : OnSale(m) => \A v \in Variants : Stands(menu[m].imageKey, v)

RetentionIInv ==
  /\ RetentionTypeOK /\ RunsTyped
  /\ OptionsInv /\ OrderingInv /\ RunsInv /\ TrashedInv /\ PromotedInv
  /\ OnSaleInv /\ NothingLost

-----------------------------------------------------------------------------
\* What every step does to the state, as far as the invariant is concerned.

\* Nothing is taken back.
GoesOn ==
  /\ now <= now'
  /\ revived \subseteq revived'
  /\ trash \subseteq trash'
  /\ trashedFor \subseteq trashedFor'

\* An object leaves the bucket for the trash, and for a menu.
ObjectsStay ==
  \A b \in bucket :
    b \in bucket' \/ (b \in trash' /\ \E n \in Menus : <<n, b[1]>> \in trashedFor')

\* A menu that is past stays as it is, as far as that matters.
PastStays ==
  \A m \in Menus :
    Past(m) /\ m \notin revived' =>
      /\ menu'[m].row # "absent"
      /\ menu'[m].deletedAt = menu[m].deletedAt
      /\ menu'[m].ordered = menu[m].ordered

\* Objects are trashed for menus that can be discarded.
TrashIsAllowed == \A t \in trashedFor' \ trashedFor : Discarded(t[1])

\* The runs and the requests are those of before, or as they should be.
RunsAllowed == \A p \in Purgers : \A q \in {runs'[p]} : q = runs[p] \/ RunOK(q)'
SendersAllowed == \A r \in Senders : \A q \in {reqs'[r]} : q = reqs[r] \/ Promoted(q)'

\* A key is that of before, on a menu not newly shown, or all its objects stand.
KeyStands(k) == \A v \in Variants : Stands(k, v) /\ <<k, v>> \in bucket \cup trash
KeysStand ==
  \A m \in Menus : menu'[m].imageKey \in Images =>
    \/ /\ menu'[m].imageKey = menu[m].imageKey
       /\ m \notin revived' /\ OnSale(m)' => OnSale(m)
    \/ \A k \in {menu'[m].imageKey} : KeyStands(k)'

\* What is past stays past, and what is discarded stays so.
LEMMA StaysDiscarded ==
  ASSUME RetentionTypeOK, RetentionTypeOK', GoesOn, PastStays, NEW m \in Menus
  PROVE  (Past(m) => Past(m)') /\ (Discarded(m) => Discarded(m)')
<1>1. menu[m] \in MenuRow /\ menu'[m] \in MenuRow /\ now \in Int /\ now' \in Int
  BY DEF RetentionTypeOK
<1>2. Retention \in Int /\ None \notin Nat
  BY RetentionAssumption
<1>3. menu[m].deletedAt \in Nat \cup {None}
  BY <1>1 DEF MenuRow
<1>4. CASE m \in revived'
  BY <1>4 DEF Past, Discarded
<1>5. CASE m \notin revived' /\ Past(m)
  <2>1. m \notin revived
    BY <1>5 DEF GoesOn
  <2>2. menu[m].deletedAt # None /\ menu[m].deletedAt < now - Retention
    BY <1>5, <2>1 DEF Past, RetentionCutoff
  <2>3. menu[m].deletedAt \in Int /\ now \in Int /\ now' \in Int /\ Retention \in Int
    BY <1>1, <1>2, <1>3, <2>2
  <2>4. menu[m].deletedAt < now' - Retention
    <3>1. now <= now'
      BY DEF GoesOn
    <3> QED
      BY <2>2, <2>3, <3>1
  <2>5. menu'[m].row # "absent" /\ menu'[m].deletedAt = menu[m].deletedAt
        /\ menu'[m].ordered = menu[m].ordered
    BY <1>5 DEF PastStays
  <2>6. Past(m)'
    BY <2>2, <2>4, <2>5 DEF Past, RetentionCutoff
  <2> QED
    BY <2>1, <2>5, <2>6 DEF Discarded
<1>6. CASE ~Past(m)
  BY <1>6 DEF Discarded
<1> QED
  BY <1>4, <1>5, <1>6

\* What stands goes on to stand.
LEMMA StaysStanding ==
  ASSUME GoesOn, ObjectsStay, NEW k, NEW v
  PROVE  /\ Stands(k, v) => Stands(k, v)'
         /\ <<k, v>> \in bucket \cup trash => <<k, v>> \in bucket' \cup trash'
<1>1. CASE <<k, v>> \in bucket
  <2>1. <<k, v>> \in bucket'
        \/ (<<k, v>> \in trash' /\ \E n \in Menus : <<n, k>> \in trashedFor')
    BY <1>1 DEF ObjectsStay
  <2> QED
    BY <2>1 DEF Stands
<1>2. CASE <<k, v>> \notin bucket
  BY <1>2 DEF Stands, GoesOn
<1> QED
  BY <1>1, <1>2

\* A run that was as it should be is so still.
LEMMA RunStaysOK ==
  ASSUME RetentionTypeOK, RetentionTypeOK', GoesOn, PastStays, NEW q \in RunStates, RunOK(q)
  PROVE  RunOK(q)'
<1>0. now \in Int /\ now' \in Int /\ Retention \in Int
  BY RetentionAssumption DEF RetentionTypeOK
<1>1. \A m \in Menus : (Past(m) => Past(m)') /\ (Discarded(m) => Discarded(m)')
  BY StaysDiscarded
<1>2. CASE q.pc = "reclaim"
  <2>1. q.cutoff \in Int /\ q.todo \in Picks
    BY <1>2 DEF RunStates, Asleep
  <2>2. q.cutoff <= RetentionCutoff'
    <3>1. q.cutoff <= now - Retention
      BY <1>2 DEF RunOK, RetentionCutoff
    <3> QED
      BY <1>0, <2>1, <3>1 DEF GoesOn, RetentionCutoff
  <2>3. \A t \in q.todo : t[1] \in Menus
    BY <2>1 DEF Picks
  <2>4. \A t \in q.todo : Discarded(t[1])'
    BY <1>1, <1>2, <2>3 DEF RunOK
  <2> QED
    BY <1>2, <2>2, <2>4 DEF RunOK
<1>3. CASE q.pc = "trash"
  <2>1. q.cutoff \in Int /\ q.todo \in Picks /\ q.m \in Menus
    BY <1>3 DEF RunStates, Asleep
  <2>2. q.cutoff <= RetentionCutoff'
    <3>1. q.cutoff <= now - Retention
      BY <1>3 DEF RunOK, RetentionCutoff
    <3> QED
      BY <1>0, <2>1, <3>1 DEF GoesOn, RetentionCutoff
  <2>3. \A t \in q.todo : t[1] \in Menus
    BY <2>1 DEF Picks
  <2>4. \A t \in q.todo : Discarded(t[1])'
    BY <1>1, <1>3, <2>3 DEF RunOK
  <2>5. Discarded(q.m)'
    BY <1>1, <1>3, <2>1 DEF RunOK
  <2>6. \A v \in q.copied : <<q.k, v>> \in trash'
    BY <1>3 DEF RunOK, GoesOn
  <2> QED
    BY <1>3, <2>2, <2>4, <2>5, <2>6 DEF RunOK
<1>4. CASE q.pc = "options"
  <2>1. q.targets \subseteq Menus /\ q.deletable \subseteq Menus
    BY <1>4 DEF RunStates, Asleep
  <2> QED
    BY <1>1, <1>4, <2>1 DEF RunOK
<1>5. CASE q.pc = "menus"
  <2>1. q.deletable \subseteq Menus
    BY <1>5 DEF RunStates, Asleep
  <2> QED
    BY <1>1, <1>5, <2>1 DEF RunOK
<1>6. CASE q.pc \notin {"reclaim", "trash", "options", "menus"}
  BY <1>6 DEF RunOK
<1> QED
  BY <1>2, <1>3, <1>4, <1>5, <1>6

\* So the invariant is kept by a step that does no more than that.
LEMMA Keeps ==
  ASSUME RetentionIInv,
         RetentionTypeOK', RunsTyped', OptionsInv', OrderingInv',
         GoesOn, ObjectsStay, PastStays, TrashIsAllowed, RunsAllowed, SendersAllowed,
         KeysStand
  PROVE  RetentionIInv'
<1> USE DEF RetentionIInv
<1>1. \A m \in Menus : (Past(m) => Past(m)') /\ (Discarded(m) => Discarded(m)')
  BY StaysDiscarded
<1>2. \A k, v : /\ Stands(k, v) => Stands(k, v)'
                /\ <<k, v>> \in bucket \cup trash => <<k, v>> \in bucket' \cup trash'
  BY StaysStanding
<1>3. RunsInv'
  <2> SUFFICES ASSUME NEW p \in Purgers, NEW q \in {runs'[p]}
               PROVE  RunOK(q)'
    BY DEF RunsInv
  <2>1. q = runs[p] => q \in RunStates /\ RunOK(q)
    BY DEF RunsTyped, RunsInv
  <2>2. q = runs[p] => RunOK(q)'
    BY <2>1, RunStaysOK
  <2> QED
    BY <2>2 DEF RunsAllowed
<1>4. TrashedInv'
  <2> SUFFICES ASSUME NEW t \in trashedFor'
               PROVE  Discarded(t[1])'
    BY DEF TrashedInv
  <2>1. t[1] \in Menus
    BY DEF RetentionTypeOK
  <2>2. Discarded(t[1])
    BY DEF TrashedInv, TrashIsAllowed
  <2> QED
    BY <1>1, <2>1, <2>2
<1>5. PromotedInv'
  <2> SUFFICES ASSUME NEW r \in Senders, NEW q \in {reqs'[r]}
               PROVE  Promoted(q)'
    BY DEF PromotedInv
  <2>1. q = reqs[r] => Promoted(q)
    BY DEF PromotedInv
  <2>2. Promoted(q) => Promoted(q)'
    BY <1>2 DEF Promoted
  <2> QED
    BY <2>1, <2>2 DEF SendersAllowed
<1>6. OnSaleInv'
  <2> SUFFICES ASSUME NEW m \in Menus, m \notin revived', OnSale(m)', NEW v \in Variants
               PROVE  Stands(menu[m].imageKey, v)'
    BY DEF OnSaleInv
  <2>1. menu'[m].imageKey \in Images /\ m \notin revived
    BY DEF OnSale, GoesOn
  <2>2. CASE menu'[m].imageKey = menu[m].imageKey /\ OnSale(m)
    BY <1>2, <2>1, <2>2 DEF OnSaleInv
  <2>3. CASE \A k \in {menu'[m].imageKey} : KeyStands(k)'
    BY <2>3 DEF KeyStands
  <2> QED
    BY <2>1, <2>2, <2>3 DEF KeysStand
<1>7. NothingLost'
  <2> SUFFICES ASSUME NEW m \in Menus, menu'[m].imageKey \in Images, NEW v \in Variants
               PROVE  <<menu'[m].imageKey, v>> \in bucket' \cup trash'
    BY DEF NothingLost, ObjectsOf
  <2>2. CASE menu'[m].imageKey = menu[m].imageKey
    <3>1. <<menu[m].imageKey, v>> \in bucket \cup trash
      BY <2>2 DEF NothingLost, ObjectsOf
    <3> QED
      BY <1>2, <2>2, <3>1
  <2>3. CASE \A k \in {menu'[m].imageKey} : KeyStands(k)'
    BY <2>3 DEF KeyStands
  <2> QED
    BY <2>2, <2>3 DEF KeysStand
<1> QED
  BY <1>3, <1>4, <1>5, <1>6, <1>7

-----------------------------------------------------------------------------
\* Steps that leave a part of the state alone.

\* The rows are those of before.
LEMMA SameRows ==
  ASSUME RetentionIInv, UNCHANGED <<now, menu, revived>>
  PROVE  PastStays /\ KeysStand /\ OptionsInv'
<1>1. PastStays
  BY DEF PastStays, Past
<1>2. \A m \in Menus : OnSale(m)' => OnSale(m)
  BY DEF OnSale, Exists, Overdue, DeletedBefore, RetentionCutoff
<1>3. KeysStand
  BY <1>2 DEF KeysStand
<1>4. OptionsInv'
  BY DEF RetentionIInv, OptionsInv
<1> QED
  BY <1>1, <1>3, <1>4

\* The objects are those of before.
LEMMA SameObjects ==
  ASSUME UNCHANGED <<bucket, trash, trashedFor>>
  PROVE  ObjectsStay /\ TrashIsAllowed
BY DEF ObjectsStay, TrashIsAllowed

\* The orders that are being placed are on menus deleted today at the most.
LEMMA OrderingStays ==
  ASSUME RetentionIInv, now' = now, RunsTyped',
         \A m \in Menus : menu'[m].deletedAt \in {menu[m].deletedAt, None, now},
         \A r \in Senders : reqs'[r].pc = "ordering" => reqs'[r] = reqs[r]
  PROVE  OrderingInv'
<1> SUFFICES ASSUME NEW r \in Senders, reqs'[r].pc = "ordering"
             PROVE  menu'[reqs'[r].m].deletedAt \in {None, now'}
  BY DEF OrderingInv
<1>1. reqs'[r] = reqs[r]
  OBVIOUS
<1>2. reqs[r].m \in Menus
  BY <1>1 DEF RetentionIInv, RunsTyped, SenderStates, Ready, Done
<1>3. menu[reqs[r].m].deletedAt \in {None, now}
  BY <1>1 DEF RetentionIInv, OrderingInv
<1> QED
  BY <1>1, <1>2, <1>3

\* A run goes on and writes nothing.
LEMMA RunAlone ==
  ASSUME RetentionIInv, UNCHANGED <<now, db, s3, reqs>>,
         NEW p \in Purgers, NEW q \in RunStates, Runs(p, q), RunOK(q),
         lock' \in Purgers \cup {None}, faults' \in 0 .. MaxFaults
  PROVE  RetentionIInv'
<1> USE DEF db, s3
<1>1. RetentionTypeOK'
  BY DEF RetentionIInv, RetentionTypeOK
<1>2. RunsTyped'
  BY DEF RetentionIInv, RunsTyped, Runs
<1>3. GoesOn
  BY DEF GoesOn, RetentionIInv, RetentionTypeOK
<1>4. PastStays /\ KeysStand /\ OptionsInv' /\ ObjectsStay /\ TrashIsAllowed
  BY SameRows, SameObjects
<1>5. OrderingInv'
  BY <1>2, OrderingStays
<1>6. RunOK(q)'
  BY <1>1, <1>3, <1>4, RunStaysOK DEF RetentionIInv
<1>7. RunsAllowed
  <2> SUFFICES ASSUME NEW o \in Purgers, NEW s \in {runs'[o]}
               PROVE  s = runs[o] \/ RunOK(s)'
    BY DEF RunsAllowed
  <2>1. o = p => s = q
    BY DEF Runs, RetentionIInv, RunsTyped
  <2>2. o # p => s = runs[o]
    BY DEF Runs, RetentionIInv, RunsTyped
  <2> QED
    BY <1>6, <2>1, <2>2
<1>8. SendersAllowed
  BY DEF SendersAllowed
<1> QED
  BY <1>1, <1>2, <1>3, <1>4, <1>5, <1>7, <1>8, Keeps

\* A request goes on, and copies objects to the bucket at the most.
LEMMA SenderAlone ==
  ASSUME RetentionIInv, UNCHANGED <<now, db, tmp, trash, trashedFor, lock, runs, faults>>,
         bucket \subseteq bucket', bucket' \subseteq Images \X Variants,
         NEW r \in Senders, NEW q \in SenderStates, Becomes(r, q), Promoted(q)',
         q.pc = "ordering" => menu[q.m].deletedAt = None
  PROVE  RetentionIInv'
<1> USE DEF db, s3
<1>1. RetentionTypeOK'
  BY DEF RetentionIInv, RetentionTypeOK
<1>2. RunsTyped'
  BY DEF RetentionIInv, RunsTyped, Becomes
<1>3. GoesOn
  BY DEF GoesOn, RetentionIInv, RetentionTypeOK
<1>4. PastStays /\ KeysStand /\ OptionsInv'
  BY SameRows
<1>5. ObjectsStay /\ TrashIsAllowed
  BY DEF ObjectsStay, TrashIsAllowed
<1>6. \A s \in Senders : reqs'[s] = IF s = r THEN q ELSE reqs[s]
  BY DEF Becomes, RetentionIInv, RunsTyped
<1>7. OrderingInv'
  BY <1>6 DEF RetentionIInv, OrderingInv
<1>8. RunsAllowed
  BY DEF RunsAllowed
<1>9. SendersAllowed
  <2> SUFFICES ASSUME NEW s \in Senders, NEW o \in {reqs'[s]}
               PROVE  o = reqs[s] \/ Promoted(o)'
    BY DEF SendersAllowed
  <2>1. o = q \/ o = reqs[s]
    BY <1>6
  <2> QED
    BY <2>1
<1> QED
  BY <1>1, <1>2, <1>3, <1>4, <1>5, <1>7, <1>8, <1>9, Keeps

\* One row is written.
LEMMA RowWritten ==
  ASSUME RetentionIInv, UNCHANGED <<now, s3, lock, faults>>,
         RunsTyped', RunsAllowed, SendersAllowed,
         \A r \in Senders : reqs'[r].pc = "ordering" => reqs'[r] = reqs[r],
         revived \subseteq revived', revived' \subseteq Menus,
         NEW m \in Menus, NEW row \in MenuRow, menu' = [menu EXCEPT ![m] = row],
         row.row # "here" => ~row.options,
         row.deletedAt \in {menu[m].deletedAt, None, now},
         Past(m) /\ m \notin revived' =>
            /\ row.row # "absent"
            /\ row.deletedAt = menu[m].deletedAt
            /\ row.ordered = menu[m].ordered,
         row.imageKey \in Images =>
            \/ row.imageKey = menu[m].imageKey /\ (m \notin revived' /\ OnSale(m)' => OnSale(m))
            \/ KeyStands(row.imageKey)
  PROVE  RetentionIInv'
<1> USE DEF s3
<1>0. menu \in [Menus -> MenuRow]
  BY DEF RetentionIInv, RetentionTypeOK
<1>a. \A n \in Menus : menu'[n] = IF n = m THEN row ELSE menu[n]
  BY <1>0
<1>1. RetentionTypeOK'
  BY <1>0 DEF RetentionIInv, RetentionTypeOK
<1>2. OptionsInv'
  BY <1>a DEF OptionsInv, RetentionIInv
<1>3. OrderingInv'
  BY <1>a, OrderingStays
<1>4. GoesOn
  BY DEF GoesOn, RetentionIInv, RetentionTypeOK
<1>5. ObjectsStay /\ TrashIsAllowed
  BY SameObjects
<1>6. PastStays
  <2> SUFFICES ASSUME NEW n \in Menus, Past(n), n \notin revived'
               PROVE  /\ menu'[n].row # "absent"
                      /\ menu'[n].deletedAt = menu[n].deletedAt
                      /\ menu'[n].ordered = menu[n].ordered
    BY DEF PastStays
  <2>1. CASE n = m
    BY <1>a, <2>1
  <2>2. CASE n # m
    BY <1>a, <2>2 DEF Past
  <2> QED
    BY <2>1, <2>2
<1>7. KeysStand
  <2> SUFFICES ASSUME NEW n \in Menus, menu'[n].imageKey \in Images
               PROVE  \/ /\ menu'[n].imageKey = menu[n].imageKey
                         /\ n \notin revived' /\ OnSale(n)' => OnSale(n)
                      \/ \A k \in {menu'[n].imageKey} : KeyStands(k)'
    BY DEF KeysStand
  <2>1. CASE n = m
    <3>1. \A k : KeyStands(k) => KeyStands(k)'
      BY DEF KeyStands, Stands
    <3>2. menu'[n].imageKey = row.imageKey
      BY <1>a, <2>1
    <3> QED
      BY <2>1, <3>1, <3>2
  <2>2. CASE n # m
    <3>1. menu'[n] = menu[n]
      BY <1>a, <2>2
    <3>2. OnSale(n)' => OnSale(n)
      BY <3>1 DEF OnSale, Exists, Overdue, DeletedBefore, RetentionCutoff
    <3> QED
      BY <3>1, <3>2
  <2> QED
    BY <2>1, <2>2
<1> QED
  BY <1>1, <1>2, <1>3, <1>4, <1>5, <1>6, <1>7, Keeps

-----------------------------------------------------------------------------
\* One lemma per action.

\* Time only brings menus nearer to the end of their retention.
LEMMA TickKeeps ==
  ASSUME RetentionIInv, Tick
  PROVE  RetentionIInv'
<1> USE DEF Tick, db, s3
<1>0. now \in 0 .. MaxTime /\ MaxTime \in Nat /\ Retention \in Nat /\ None \notin Nat
  BY RetentionAssumption DEF RetentionIInv, RetentionTypeOK
<1>1. RetentionTypeOK'
  <2>1. now' \in 0 .. MaxTime
    BY <1>0
  <2> QED
    BY <2>1 DEF RetentionIInv, RetentionTypeOK
<1>2. RunsTyped' /\ OptionsInv' /\ OrderingInv'
  BY DEF RetentionIInv, RunsTyped, OptionsInv, OrderingInv
<1>3. GoesOn
  BY <1>0 DEF GoesOn
<1>4. ObjectsStay /\ TrashIsAllowed
  BY SameObjects
<1>5. PastStays
  BY DEF PastStays, Past
<1>6. RunsAllowed /\ SendersAllowed
  BY DEF RunsAllowed, SendersAllowed
<1>7. KeysStand
  <2>1. ASSUME NEW m \in Menus, Overdue(m)
        PROVE  Overdue(m)'
    <3>1. menu[m].deletedAt \in Nat
      BY <2>1 DEF RetentionIInv, RetentionTypeOK, MenuRow, Overdue, DeletedBefore
    <3>2. menu[m].deletedAt < now - Retention
      BY <2>1 DEF Overdue, DeletedBefore, RetentionCutoff
    <3>3. menu[m].deletedAt < now' - Retention
      BY <1>0, <3>1, <3>2
    <3> QED
      BY <2>1, <3>3 DEF Overdue, DeletedBefore, RetentionCutoff, Exists
  <2>2. \A m \in Menus : OnSale(m)' => OnSale(m)
    BY <2>1 DEF OnSale, Exists
  <2> QED
    BY <2>2 DEF KeysStand
<1> QED
  BY <1>1, <1>2, <1>3, <1>4, <1>5, <1>6, <1>7, Keeps

\* An upload comes and expires at its own prefix only.
LEMMA TmpKeeps ==
  ASSUME RetentionIInv, NEW k \in Images, Upload(k) \/ TmpExpires(k)
  PROVE  RetentionIInv'
<1> USE DEF db, Upload, TmpExpires
<1>1. RetentionTypeOK'
  BY DEF RetentionIInv, RetentionTypeOK
<1>2. RunsTyped' /\ OptionsInv' /\ OrderingInv'
  BY DEF RetentionIInv, RunsTyped, OptionsInv, OrderingInv
<1>3. GoesOn
  BY DEF GoesOn, RetentionIInv, RetentionTypeOK
<1>4. PastStays /\ KeysStand /\ ObjectsStay /\ TrashIsAllowed
  BY SameRows, SameObjects
<1>5. RunsAllowed /\ SendersAllowed
  BY DEF RunsAllowed, SendersAllowed
<1> QED
  BY <1>1, <1>2, <1>3, <1>4, <1>5, Keeps

\* A request that ends, or has not copied anything yet.
LEMMA PromotesKeeps ==
  ASSUME RetentionIInv, NEW r \in Senders, CreateMenu(r) \/ PatchImage(r)
  PROVE  RetentionIInv'
<1>1. PICK target \in Menus \cup {None} : Promotes(r, target)
  BY DEF CreateMenu, PatchImage
<1>2. PICK k \in Images :
        Becomes(r, [pc |-> "promoting", k |-> k, target |-> target, left |-> Variants])
  BY <1>1 DEF Promotes
<1> DEFINE q == [pc |-> "promoting", k |-> k, target |-> target, left |-> Variants]
<1>3. q \in SenderStates
  BY DEF SenderStates
<1>4. Promoted(q)' /\ q.pc # "ordering"
  BY DEF Promoted
<1>5. UNCHANGED <<now, db, s3, lock, runs, faults>>
  BY <1>1 DEF Promotes
<1>6. bucket \subseteq bucket' /\ bucket' \subseteq Images \X Variants
  BY <1>5 DEF s3, RetentionIInv, RetentionTypeOK
<1>7. Becomes(r, q)
  BY <1>2
<1> HIDE DEF q
<1> QED
  BY <1>3, <1>4, <1>5, <1>6, <1>7, SenderAlone DEF s3

\* A copied variant is there.
LEMMA CopyKeeps ==
  ASSUME RetentionIInv, NEW r \in Senders, NEW v \in Variants, CopyToMenu(r, v)
  PROVE  RetentionIInv'
<1>q. PICK q : q = reqs[r]
  OBVIOUS
<1>0. q \in SenderStates /\ q.pc = "promoting" /\ v \in q.left
  BY <1>q DEF CopyToMenu, RetentionIInv, RunsTyped
<1>1. q \in [pc : {"promoting"}, k : Images, target : Menus \cup {None}, left : SUBSET Variants]
  BY <1>0 DEF SenderStates, Ready, Done
<1>2. UNCHANGED <<now, db, tmp, trash, trashedFor, lock, runs, faults>>
  BY DEF CopyToMenu
<1>3. CASE bucket' = bucket \cup {<<q.k, v>>} /\ Becomes(r, [q EXCEPT !.left = q.left \ {v}])
  <2>n. PICK n : n = [q EXCEPT !.left = q.left \ {v}]
    OBVIOUS
  <2>1. n \in [pc : {"promoting"}, k : Images, target : Menus \cup {None},
               left : SUBSET Variants]
    BY <1>1, <2>n
  <2>2. n \in SenderStates /\ n.pc = "promoting" /\ n.k = q.k /\ n.left = q.left \ {v}
    BY <1>1, <2>1, <2>n DEF SenderStates
  <2>3. bucket \subseteq bucket' /\ bucket' \subseteq Images \X Variants
    BY <1>1, <1>3 DEF RetentionIInv, RetentionTypeOK
  <2>4. Promoted(q)
    BY <1>q DEF RetentionIInv, PromotedInv
  <2>5. ASSUME NEW w \in Variants \ n.left
        PROVE  Stands(n.k, w)' /\ <<n.k, w>> \in bucket' \cup trash'
    <3>1. CASE w = v
      BY <1>3, <2>2, <3>1 DEF Stands
    <3>2. CASE w # v
      <4>1. w \in Variants \ q.left
        BY <2>2, <3>2
      <4>2. Stands(q.k, w) /\ <<q.k, w>> \in bucket \cup trash
        BY <1>0, <2>4, <4>1 DEF Promoted
      <4> QED
        BY <1>2, <2>2, <2>3, <4>2 DEF Stands
    <3> QED
      BY <3>1, <3>2
  <2>6. Promoted(n)'
    BY <2>5 DEF Promoted
  <2>7. Becomes(r, n)
    BY <1>3, <2>n
  <2> QED
    BY <1>2, <2>2, <2>3, <2>6, <2>7, SenderAlone
<1>4. CASE Becomes(r, Done) /\ UNCHANGED bucket
  <2>1. Done \in SenderStates /\ Done.pc = "done"
    BY DEF SenderStates, Done
  <2>2. Promoted(Done)'
    BY <2>1 DEF Promoted
  <2>3. bucket \subseteq bucket' /\ bucket' \subseteq Images \X Variants
    BY <1>4 DEF RetentionIInv, RetentionTypeOK
  <2> QED
    BY <1>2, <1>4, <2>1, <2>2, <2>3, SenderAlone
<1> QED
  BY <1>q, <1>3, <1>4 DEF CopyToMenu

\* A menu that is read to be ordered is live.
LEMMA ReadMenuKeeps ==
  ASSUME RetentionIInv, NEW r \in Senders, ReadMenu(r)
  PROVE  RetentionIInv'
<1>1. PICK m \in Menus : Offered(m) /\ Becomes(r, [pc |-> "ordering", m |-> m])
  BY DEF ReadMenu
<1> DEFINE q == [pc |-> "ordering", m |-> m]
<1>2. q \in SenderStates /\ q.pc = "ordering" /\ q.m = m
  BY DEF SenderStates
<1>3. Promoted(q)' /\ menu[q.m].deletedAt = None
  BY <1>1 DEF Promoted, Offered
<1>4. UNCHANGED <<now, db, s3, lock, runs, faults>>
  BY DEF ReadMenu
<1>5. bucket \subseteq bucket' /\ bucket' \subseteq Images \X Variants
  BY <1>4 DEF s3, RetentionIInv, RetentionTypeOK
<1>6. Becomes(r, q)
  BY <1>1
<1> HIDE DEF q
<1> QED
  BY <1>2, <1>3, <1>4, <1>5, <1>6, SenderAlone DEF s3

\* A request that ends leaves the runs and the other requests alone.
LEMMA SenderEnds ==
  ASSUME RetentionIInv, NEW r \in Senders, Becomes(r, Done), UNCHANGED runs
  PROVE  /\ RunsTyped' /\ RunsAllowed /\ SendersAllowed
         /\ \A s \in Senders : reqs'[s].pc = "ordering" => reqs'[s] = reqs[s]
<1>1. \A s \in Senders : reqs'[s] = IF s = r THEN Done ELSE reqs[s]
  BY DEF Becomes, RetentionIInv, RunsTyped
<1>2. Done \in SenderStates /\ Done.pc = "done"
  BY DEF SenderStates, Done
<1>3. RunsTyped'
  BY <1>2 DEF RetentionIInv, RunsTyped, Becomes
<1>4. RunsAllowed
  BY DEF RunsAllowed
<1>5. SendersAllowed
  <2> SUFFICES ASSUME NEW s \in Senders, NEW q \in {reqs'[s]}
               PROVE  q = reqs[s] \/ Promoted(q)'
    BY DEF SendersAllowed
  <2>1. q = Done \/ q = reqs[s]
    BY <1>1
  <2>2. q = Done => Promoted(q)'
    BY <1>2 DEF Promoted
  <2> QED
    BY <2>1, <2>2
<1>6. \A s \in Senders : reqs'[s].pc = "ordering" => reqs'[s] = reqs[s]
  BY <1>1, <1>2
<1> QED
  BY <1>3, <1>4, <1>5, <1>6

\* A request that writes nothing at the end.
LEMMA SenderGivesUp ==
  ASSUME RetentionIInv, NEW r \in Senders, Becomes(r, Done), UNCHANGED <<now, db, s3, lock, runs, faults>>
  PROVE  RetentionIInv'
<1>1. PICK q : q = Done
  OBVIOUS
<1>2. q \in SenderStates /\ q.pc = "done"
  BY <1>1 DEF SenderStates, Done
<1>3. Promoted(q)'
  BY <1>2 DEF Promoted
<1>4. bucket \subseteq bucket' /\ bucket' \subseteq Images \X Variants
  BY DEF s3, RetentionIInv, RetentionTypeOK
<1>5. Becomes(r, q)
  BY <1>1
<1> QED
  BY <1>2, <1>3, <1>4, <1>5, SenderAlone DEF s3

\* The row gets a key whose objects stand.
LEMMA WriteKeeps ==
  ASSUME RetentionIInv, NEW r \in Senders, WriteImageKey(r)
  PROVE  RetentionIInv'
<1>q. PICK q : q = reqs[r]
  OBVIOUS
<1>0. q \in SenderStates /\ q.pc = "promoting" /\ q.left = {}
  BY <1>q DEF WriteImageKey, RetentionIInv, RunsTyped
<1>1. q.k \in Images /\ q.target \in Menus \cup {None}
  BY <1>0 DEF SenderStates, Ready, Done
<1>2. UNCHANGED <<now, revived, s3, lock, runs, faults>> /\ Becomes(r, Done)
  BY DEF WriteImageKey
<1>3. KeyStands(q.k)
  <2>1. Promoted(q)
    BY <1>q DEF RetentionIInv, PromotedInv
  <2> QED
    BY <1>0, <2>1 DEF Promoted, KeyStands
<1>4. /\ RunsTyped' /\ RunsAllowed /\ SendersAllowed
      /\ \A s \in Senders : reqs'[s].pc = "ordering" => reqs'[s] = reqs[s]
  BY <1>2, SenderEnds
<1>5. revived \subseteq revived' /\ revived' \subseteq Menus
  BY <1>2 DEF RetentionIInv, RetentionTypeOK
<1>6. ASSUME NEW m \in Menus, menu[m].row = "absent", menu' = [menu EXCEPT ![m] = New(q.k)]
      PROVE  RetentionIInv'
  <2>1. PICK row : row = New(q.k)
    OBVIOUS
  <2>2. row \in MenuRow
    BY <1>1, <2>1 DEF New, MenuRow
  <2>3. /\ row.row = "here" /\ row.deletedAt = None /\ row.imageKey = q.k
    BY <2>1 DEF New
  <2>4. Past(m) => m \in revived'
    BY <1>2, <1>6 DEF Past
  <2>5. menu' = [menu EXCEPT ![m] = row]
    BY <1>6, <2>1
  <2> QED
    BY <1>2, <1>3, <1>4, <1>5, <2>2, <2>3, <2>4, <2>5, RowWritten
<1>7. ASSUME NEW m \in Menus, Exists(m), menu' = [menu EXCEPT ![m].imageKey = q.k]
      PROVE  RetentionIInv'
  <2>0. menu \in [Menus -> MenuRow]
    BY DEF RetentionIInv, RetentionTypeOK
  <2>1. PICK row : row = [menu[m] EXCEPT !.imageKey = q.k]
    OBVIOUS
  <2>2. row \in MenuRow
    BY <1>1, <2>0, <2>1 DEF MenuRow
  <2>3. /\ row.row = menu[m].row /\ row.deletedAt = menu[m].deletedAt
        /\ row.ordered = menu[m].ordered /\ row.options = menu[m].options
        /\ row.imageKey = q.k
    BY <2>0, <2>1 DEF MenuRow
  <2>4. row.row = "here"
    BY <1>7, <2>3 DEF Exists
  <2>5. menu' = [menu EXCEPT ![m] = row]
    BY <1>7, <2>1
  <2> QED
    BY <1>2, <1>3, <1>4, <1>5, <2>2, <2>3, <2>4, <2>5, RowWritten
<1>8. CASE menu' = menu
  BY <1>2, <1>8, SenderGivesUp DEF db
<1> QED
  BY <1>q, <1>1, <1>6, <1>7, <1>8 DEF WriteImageKey

\* What the requests of an owner send to the database in one statement.
LEMMA SentKeeps ==
  ASSUME RetentionIInv, NEW r \in Senders, Sends(r),
         revived \subseteq revived', revived' \subseteq Menus,
         NEW m \in Menus, NEW row \in MenuRow, menu' = [menu EXCEPT ![m] = row],
         row.row = "here", Exists(m),
         row.ordered = menu[m].ordered,
         row.imageKey \in {menu[m].imageKey, None},
         row.deletedAt \in {menu[m].deletedAt, None, now},
         row.deletedAt = menu[m].deletedAt \/ ~Overdue(m) \/ m \in revived'
  PROVE  RetentionIInv'
<1>1. UNCHANGED <<now, s3, lock, runs, faults>> /\ Becomes(r, Done)
  BY DEF Sends
<1>2. /\ RunsTyped' /\ RunsAllowed /\ SendersAllowed
      /\ \A s \in Senders : reqs'[s].pc = "ordering" => reqs'[s] = reqs[s]
  BY <1>1, SenderEnds
<1>3. menu \in [Menus -> MenuRow] /\ menu'[m] = row
  BY DEF RetentionIInv, RetentionTypeOK
<1>4. Past(m) /\ m \notin revived' => row.deletedAt = menu[m].deletedAt
  BY DEF Past, Overdue, DeletedBefore
<1>5. m \notin revived' /\ OnSale(m)' /\ row.imageKey \in Images => OnSale(m)
  <2> SUFFICES ASSUME m \notin revived', OnSale(m)', row.imageKey \in Images
               PROVE  OnSale(m)
    OBVIOUS
  <2>1. menu[m].imageKey \in Images
    BY RetentionAssumption
  <2>2. CASE row.deletedAt = menu[m].deletedAt
    BY <1>1, <1>3, <2>1, <2>2 DEF OnSale, Exists, Overdue, DeletedBefore, RetentionCutoff
  <2>3. CASE ~Overdue(m)
    BY <2>1, <2>3 DEF OnSale
  <2> QED
    BY <2>2, <2>3
<1>6. row.imageKey \in Images => row.imageKey = menu[m].imageKey
  BY RetentionAssumption
<1> QED
  BY <1>1, <1>2, <1>4, <1>5, <1>6, RowWritten

\* The requests of an owner: the image, the options, deleting and restoring.
LEMMA OwnersKeep ==
  ASSUME RetentionIInv, NEW r \in Senders,
         RemoveImage(r) \/ AddOption(r) \/ SoftDeleteMenu(r) \/ RestoreMenu(r)
  PROVE  RetentionIInv'
<1>0. /\ menu \in [Menus -> MenuRow] /\ revived \subseteq Menus
      /\ now \in Nat /\ Retention \in Nat /\ None \notin Nat
  BY RetentionAssumption DEF RetentionIInv, RetentionTypeOK
<1>1. ASSUME RemoveImage(r)
      PROVE  RetentionIInv'
  <2>1. Sends(r) /\ revived' = revived
    BY <1>1 DEF RemoveImage
  <2>2. PICK m \in Menus : Exists(m) /\ menu' = [menu EXCEPT ![m].imageKey = None]
    BY <1>1 DEF RemoveImage
  <2>3. PICK row : row = [menu[m] EXCEPT !.imageKey = None]
    OBVIOUS
  <2>4. row \in MenuRow
    BY <1>0, <2>3 DEF MenuRow
  <2>5. /\ row.row = menu[m].row /\ row.deletedAt = menu[m].deletedAt
        /\ row.ordered = menu[m].ordered /\ row.imageKey = None
    BY <1>0, <2>3 DEF MenuRow
  <2>6. menu' = [menu EXCEPT ![m] = row]
    BY <2>2, <2>3
  <2>7. row.row = "here"
    BY <2>2, <2>5 DEF Exists
  <2> QED
    BY <1>0, <2>1, <2>2, <2>4, <2>5, <2>6, <2>7, SentKeeps
<1>2. ASSUME AddOption(r)
      PROVE  RetentionIInv'
  <2>1. Sends(r) /\ revived' = revived
    BY <1>2 DEF AddOption
  <2>2. PICK m \in Menus : Exists(m) /\ menu' = [menu EXCEPT ![m].options = TRUE]
    BY <1>2 DEF AddOption, Offered
  <2>3. PICK row : row = [menu[m] EXCEPT !.options = TRUE]
    OBVIOUS
  <2>4. row \in MenuRow
    BY <1>0, <2>3 DEF MenuRow
  <2>5. /\ row.row = menu[m].row /\ row.deletedAt = menu[m].deletedAt
        /\ row.ordered = menu[m].ordered /\ row.imageKey = menu[m].imageKey
    BY <1>0, <2>3 DEF MenuRow
  <2>6. menu' = [menu EXCEPT ![m] = row]
    BY <2>2, <2>3
  <2>7. row.row = "here"
    BY <2>2, <2>5 DEF Exists
  <2> QED
    BY <1>0, <2>1, <2>2, <2>4, <2>5, <2>6, <2>7, SentKeeps
<1>3. ASSUME SoftDeleteMenu(r)
      PROVE  RetentionIInv'
  <2>1. Sends(r)
    BY <1>3 DEF SoftDeleteMenu
  <2>2. PICK m \in Menus :
          /\ Exists(m)
          /\ menu' = [menu EXCEPT ![m].deletedAt = now]
          /\ revived' = revived \cup {n \in {m} : DeletedBefore(n, RetentionCutoff)}
    BY <1>3 DEF SoftDeleteMenu
  <2>3. PICK row : row = [menu[m] EXCEPT !.deletedAt = now]
    OBVIOUS
  <2>4. row \in MenuRow
    BY <1>0, <2>3 DEF MenuRow
  <2>5. /\ row.row = menu[m].row /\ row.deletedAt = now
        /\ row.ordered = menu[m].ordered /\ row.imageKey = menu[m].imageKey
    BY <1>0, <2>3 DEF MenuRow
  <2>6. menu' = [menu EXCEPT ![m] = row]
    BY <2>2, <2>3
  <2>7. row.row = "here"
    BY <2>2, <2>5 DEF Exists
  <2>8. Overdue(m) => m \in revived'
    BY <2>2 DEF Overdue
  <2>9. revived \subseteq revived' /\ revived' \subseteq Menus
    BY <1>0, <2>2
  <2> QED
    BY <1>0, <2>1, <2>2, <2>4, <2>5, <2>6, <2>7, <2>8, <2>9, SentKeeps
<1>4. ASSUME RestoreMenu(r)
      PROVE  RetentionIInv'
  <2>1. Sends(r) /\ revived' = revived
    BY <1>4 DEF RestoreMenu
  <2>2. PICK m \in Menus : Restorable(m) /\ menu' = [menu EXCEPT ![m].deletedAt = None]
    BY <1>4 DEF RestoreMenu
  <2>3. PICK row : row = [menu[m] EXCEPT !.deletedAt = None]
    OBVIOUS
  <2>4. row \in MenuRow
    BY <1>0, <2>3 DEF MenuRow
  <2>5. /\ row.row = menu[m].row /\ row.deletedAt = None
        /\ row.ordered = menu[m].ordered /\ row.imageKey = menu[m].imageKey
    BY <1>0, <2>3 DEF MenuRow
  <2>6. menu' = [menu EXCEPT ![m] = row]
    BY <2>2, <2>3
  <2>7. Exists(m) /\ row.row = "here"
    BY <2>2, <2>5 DEF Exists, Restorable
  <2>8. ~Overdue(m)
    <3>1. menu[m].deletedAt \in Nat /\ menu[m].deletedAt >= now - Retention
      BY <1>0, <2>2 DEF Restorable, RetentionCutoff, MenuRow
    <3> QED
      BY <1>0, <3>1 DEF Overdue, DeletedBefore, RetentionCutoff
  <2> QED
    BY <1>0, <2>1, <2>2, <2>4, <2>5, <2>6, <2>7, <2>8, SentKeeps
<1> QED
  BY <1>1, <1>2, <1>3, <1>4

\* An order item is inserted for a menu that was live earlier that day.
LEMMA InsertKeeps ==
  ASSUME RetentionIInv, NEW r \in Senders, InsertItem(r)
  PROVE  RetentionIInv'
<1>q. PICK m : m = reqs[r].m
  OBVIOUS
<1>0. /\ menu \in [Menus -> MenuRow] /\ revived \subseteq Menus
      /\ now \in Nat /\ Retention \in Nat \ {0} /\ None \notin Nat
  BY RetentionAssumption DEF RetentionIInv, RetentionTypeOK
<1>1. m \in Menus /\ menu[m].deletedAt \in {None, now}
  BY <1>q DEF InsertItem, RetentionIInv, RunsTyped, SenderStates, Ready, Done, OrderingInv
<1>2. UNCHANGED <<now, revived, s3, lock, runs, faults>> /\ Becomes(r, Done)
  BY DEF InsertItem
<1>3. CASE menu' = menu
  BY <1>2, <1>3, SenderGivesUp DEF db
<1>4. ASSUME Exists(m), menu' = [menu EXCEPT ![m].ordered = TRUE]
      PROVE  RetentionIInv'
  <2>1. /\ RunsTyped' /\ RunsAllowed /\ SendersAllowed
        /\ \A s \in Senders : reqs'[s].pc = "ordering" => reqs'[s] = reqs[s]
    BY <1>2, SenderEnds
  <2>2. PICK row : row = [menu[m] EXCEPT !.ordered = TRUE]
    OBVIOUS
  <2>3. row \in MenuRow
    BY <1>0, <1>1, <2>2 DEF MenuRow
  <2>4. /\ row.row = menu[m].row /\ row.deletedAt = menu[m].deletedAt
        /\ row.imageKey = menu[m].imageKey
    BY <1>0, <1>1, <2>2 DEF MenuRow
  <2>5. row.row = "here"
    BY <1>4, <2>4 DEF Exists
  <2>6. menu' = [menu EXCEPT ![m] = row] /\ menu'[m] = row
    BY <1>0, <1>1, <1>4, <2>2
  <2>7. ~(menu[m].deletedAt # None /\ menu[m].deletedAt < now - Retention)
    BY <1>0, <1>1
  <2>8. Past(m) => m \in revived'
    BY <1>2, <2>7 DEF Past, RetentionCutoff
  <2>9. ~Overdue(m)
    BY <2>7 DEF Overdue, DeletedBefore, RetentionCutoff
  <2>10. row.imageKey \in Images => OnSale(m)
    BY <1>4, <2>4, <2>9 DEF OnSale
  <2>11. revived \subseteq revived' /\ revived' \subseteq Menus
    BY <1>0, <1>2
  <2> QED
    BY <1>1, <1>2, <2>1, <2>3, <2>4, <2>5, <2>6, <2>8, <2>10, <2>11, RowWritten
<1> QED
  BY <1>q, <1>3, <1>4 DEF InsertItem

\* A batch is one of the rows that were read.
LEMMA BatchInside ==
  ASSUME NEW S, NEW T \in Batches(S)
  PROVE  T \subseteq S
BY DEF Batches

\* The states of a run are those of its two stages.
LEMMA RunShapes ==
  ASSUME RetentionIInv, NEW p \in Purgers, NEW q, q = runs[p]
  PROVE  /\ q \in RunStates /\ RunOK(q)
         /\ q.pc = "reclaim" => q \in [pc : {"reclaim"}, cutoff : Int, todo : Picks]
         /\ q.pc = "trash" =>
              q \in [pc : {"trash"}, cutoff : Int, todo : Picks, m : Menus, k : Images,
                     left : SUBSET Variants, copied : SUBSET Variants]
         /\ q.pc = "options" =>
              q \in [pc : {"options"}, targets : SUBSET Menus, deletable : SUBSET Menus]
         /\ q.pc = "menus" => q \in [pc : {"menus"}, deletable : SUBSET Menus]
<1>1. q \in RunStates /\ RunOK(q)
  BY DEF RetentionIInv, RunsTyped, RunsInv
<1> QED
  BY <1>1 DEF RunStates, Asleep

\* A run that is no more is a run that may be.
LEMMA AsleepIsOK == Asleep \in RunStates /\ RunOK(Asleep)
BY DEF Asleep, RunStates, RunOK

\* What a run reads first is overdue and not ordered.
LEMMA StartKeeps ==
  ASSUME RetentionIInv, NEW p \in Purgers, StartRun(p)
  PROVE  RetentionIInv'
<1>0. /\ menu \in [Menus -> MenuRow] /\ now \in Int /\ Retention \in Int
  BY RetentionAssumption DEF RetentionIInv, RetentionTypeOK
<1>1. PICK T \in Batches({m \in Menus : HasImage(m, RetentionCutoff)}) :
        Runs(p, [pc |-> "reclaim", cutoff |-> RetentionCutoff,
                 todo |-> {<<m, menu[m].imageKey>> : m \in T}])
  BY DEF StartRun
<1>2. \A m \in T : m \in Menus /\ HasImage(m, RetentionCutoff)
  BY BatchInside
<1>3. PICK todo : todo = {<<m, menu[m].imageKey>> : m \in T}
  OBVIOUS
<1>4. PICK q : q = [pc |-> "reclaim", cutoff |-> RetentionCutoff, todo |-> todo]
  OBVIOUS
<1>5. todo \in Picks
  <2>1. \A m \in T : menu[m].imageKey \in Images \cup {Invalid}
    BY <1>0, <1>2 DEF HasImage, MenuRow
  <2> QED
    BY <1>2, <1>3, <2>1 DEF Picks
<1>6. q \in RunStates
  <2>1. RetentionCutoff \in Int
    BY <1>0 DEF RetentionCutoff
  <2> QED
    BY <1>4, <1>5, <2>1 DEF RunStates
<1>7. \A m \in T : Discarded(m)
  BY <1>2 DEF HasImage, DeletedBefore, Exists, Discarded, Past
<1>8. \A t \in todo : Discarded(t[1])
  BY <1>3, <1>7
<1>9. RunOK(q)
  <2>1. RetentionCutoff <= RetentionCutoff
    BY <1>0 DEF RetentionCutoff
  <2> QED
    BY <1>4, <1>8, <2>1 DEF RunOK
<1>10. /\ UNCHANGED <<now, db, s3, reqs>> /\ Runs(p, q)
       /\ lock' \in Purgers \cup {None} /\ faults' \in 0 .. MaxFaults
  BY <1>1, <1>3, <1>4 DEF StartRun, RetentionIInv, RetentionTypeOK
<1> QED
  BY <1>6, <1>9, <1>10, RunAlone

\* A run turns to the image of one menu it has read.
LEMMA TrashMenuKeeps ==
  ASSUME RetentionIInv, NEW p \in Purgers, TrashMenuImage(p)
  PROVE  RetentionIInv'
<1>q. PICK q : q = runs[p]
  OBVIOUS
<1>0. /\ RunOK(q) /\ q \in [pc : {"reclaim"}, cutoff : Int, todo : Picks]
  BY <1>q, RunShapes DEF TrashMenuImage
<1>1. PICK t \in q.todo :
        /\ t[2] \in Images
        /\ Runs(p, [pc |-> "trash", cutoff |-> q.cutoff, todo |-> q.todo \ {t},
                    m |-> t[1], k |-> t[2], left |-> Variants, copied |-> {}])
  BY <1>q DEF TrashMenuImage
<1>2. PICK n : n = [pc |-> "trash", cutoff |-> q.cutoff, todo |-> q.todo \ {t},
                    m |-> t[1], k |-> t[2], left |-> Variants, copied |-> {}]
  OBVIOUS
<1>3. t[1] \in Menus /\ q.cutoff \in Int /\ q.todo \ {t} \in Picks
  BY <1>0, <1>1 DEF Picks
<1>4. n \in RunStates
  BY <1>1, <1>2, <1>3 DEF RunStates
<1>5. RunOK(n)
  BY <1>0, <1>1, <1>2 DEF RunOK
<1>6. /\ UNCHANGED <<now, db, s3, reqs>> /\ Runs(p, n)
      /\ lock' \in Purgers \cup {None} /\ faults' \in 0 .. MaxFaults
  BY <1>1, <1>2 DEF TrashMenuImage, RetentionIInv, RetentionTypeOK
<1> QED
  BY <1>4, <1>5, <1>6, RunAlone

\* A variant that is not in the bucket is passed over.
LEMMA SkipKeeps ==
  ASSUME RetentionIInv, NEW p \in Purgers, NEW v \in Variants, SkipVariant(p, v)
  PROVE  RetentionIInv'
<1>q. PICK q : q = runs[p]
  OBVIOUS
<1>0. /\ RunOK(q)
      /\ q \in [pc : {"trash"}, cutoff : Int, todo : Picks, m : Menus, k : Images,
                left : SUBSET Variants, copied : SUBSET Variants]
  BY <1>q, RunShapes DEF SkipVariant
<1>1. PICK n : n = [q EXCEPT !.left = q.left \ {v}]
  OBVIOUS
<1>2. n \in [pc : {"trash"}, cutoff : Int, todo : Picks, m : Menus, k : Images,
             left : SUBSET Variants, copied : SUBSET Variants]
  BY <1>0, <1>1
<1>3. n \in RunStates
  BY <1>2 DEF RunStates
<1>4. RunOK(n)
  <2>1. n.pc = q.pc /\ n.cutoff = q.cutoff /\ n.todo = q.todo
        /\ n.m = q.m /\ n.k = q.k /\ n.copied = q.copied
    BY <1>0, <1>1
  <2> QED
    BY <1>0, <2>1 DEF RunOK
<1>5. /\ UNCHANGED <<now, db, s3, reqs>> /\ Runs(p, n)
      /\ lock' \in Purgers \cup {None} /\ faults' \in 0 .. MaxFaults
  BY <1>q, <1>1 DEF SkipVariant, RetentionIInv, RetentionTypeOK
<1> QED
  BY <1>3, <1>4, <1>5, RunAlone

\* A run that fails with one image, or is dead, or has seen the signal.
LEMMA RunGivesUp ==
  ASSUME RetentionIInv, NEW p \in Purgers, TrashFails(p) \/ Crash(p) \/ SeesSignal(p)
  PROVE  RetentionIInv'
<1>0. MaxFaults \in Nat /\ faults \in 0 .. MaxFaults /\ lock \in Purgers \cup {None}
  BY RetentionAssumption DEF RetentionIInv, RetentionTypeOK
<1>1. CASE TrashFails(p)
  <2>q. PICK q : q = runs[p]
    OBVIOUS
  <2>0. /\ RunOK(q)
        /\ q \in [pc : {"trash"}, cutoff : Int, todo : Picks, m : Menus, k : Images,
                  left : SUBSET Variants, copied : SUBSET Variants]
    BY <1>1, <2>q, RunShapes DEF TrashFails
  <2>1. PICK n : n = Reclaim(q, q.todo)
    OBVIOUS
  <2>2. n \in RunStates /\ RunOK(n)
    BY <2>0, <2>1 DEF RunStates, RunOK, Reclaim
  <2>3. /\ UNCHANGED <<now, db, s3, reqs>> /\ Runs(p, n)
        /\ lock' \in Purgers \cup {None} /\ faults' \in 0 .. MaxFaults
    BY <1>0, <1>1, <2>q, <2>1 DEF TrashFails
  <2> QED
    BY <2>2, <2>3, RunAlone
<1>2. CASE Crash(p) \/ SeesSignal(p)
  <2>1. PICK n : n = Asleep
    OBVIOUS
  <2>2. /\ UNCHANGED <<now, db, s3, reqs>> /\ Runs(p, n)
        /\ lock' \in Purgers \cup {None} /\ faults' \in 0 .. MaxFaults
    BY <1>0, <1>2, <2>1 DEF Crash, SeesSignal, Finish
  <2> QED
    BY <2>1, <2>2, AsleepIsOK, RunAlone
<1> QED
  BY <1>1, <1>2

\* What a run reads for stage 2 is overdue by the time its own cutoff names.
LEMMA ReadRowsKeeps ==
  ASSUME RetentionIInv, NEW p \in Purgers, ReadRows(p)
  PROVE  RetentionIInv'
<1>q. PICK q : q = runs[p]
  OBVIOUS
<1>0. /\ RunOK(q) /\ q \in [pc : {"reclaim"}, cutoff : Int, todo : Picks]
  BY <1>q, RunShapes DEF ReadRows
<1>1. PICK T \in Batches({m \in Menus : HasRows(m, q.cutoff)}) :
        \/ T = {} /\ Finish(p)
        \/ /\ Runs(p, [pc |-> "options", targets |-> T,
                       deletable |-> {m \in T : ~menu[m].ordered}])
           /\ UNCHANGED lock
  BY <1>q DEF ReadRows
<1>2. UNCHANGED <<now, db, s3, reqs, faults>>
  BY DEF ReadRows
<1>3. /\ lock' \in Purgers \cup {None} /\ faults' \in 0 .. MaxFaults
  BY <1>1, <1>2 DEF Finish, RetentionIInv, RetentionTypeOK
<1>4. CASE Finish(p)
  <2>1. PICK n : n = Asleep
    OBVIOUS
  <2> QED
    BY <1>2, <1>3, <1>4, <2>1, AsleepIsOK, RunAlone DEF Finish
<1>5. CASE Runs(p, [pc |-> "options", targets |-> T,
                    deletable |-> {m \in T : ~menu[m].ordered}])
  <2>1. PICK D : D = {m \in T : ~menu[m].ordered}
    OBVIOUS
  <2>2. PICK n : n = [pc |-> "options", targets |-> T, deletable |-> D]
    OBVIOUS
  <2>3. \A m \in T : m \in Menus /\ HasRows(m, q.cutoff)
    BY BatchInside
  <2>4. \A m \in T : Past(m)
    <3> SUFFICES ASSUME NEW m \in T
                 PROVE  Past(m)
      OBVIOUS
    <3>1. menu[m] \in MenuRow /\ now \in Int /\ Retention \in Int /\ None \notin Nat
      BY <2>3, RetentionAssumption DEF RetentionIInv, RetentionTypeOK
    <3>2. menu[m].row = "here" /\ menu[m].deletedAt # None /\ menu[m].deletedAt < q.cutoff
      BY <2>3 DEF HasRows, DeletedBefore, Exists
    <3>3. menu[m].deletedAt \in Nat
      BY <3>1, <3>2 DEF MenuRow
    <3>4. q.cutoff \in Int /\ q.cutoff <= now - Retention
      BY <1>0 DEF RunOK, RetentionCutoff
    <3>5. menu[m].deletedAt < now - Retention
      BY <3>1, <3>2, <3>3, <3>4
    <3> QED
      BY <3>2, <3>5 DEF Past, RetentionCutoff
  <2>5. n \in RunStates
    BY <2>1, <2>2, <2>3 DEF RunStates
  <2>6. RunOK(n)
    BY <2>1, <2>2, <2>4 DEF RunOK
  <2>7. Runs(p, n)
    BY <1>5, <2>1, <2>2
  <2> QED
    BY <1>2, <1>3, <2>5, <2>6, <2>7, RunAlone
<1> QED
  BY <1>1, <1>4, <1>5

\* The lock comes and goes; no part of the invariant is about it.
LEMMA LockKeeps ==
  ASSUME RetentionIInv, LockExpires \/ LoseLock
  PROVE  RetentionIInv'
<1> USE DEF db, s3, LockExpires, LoseLock
<1>1. RetentionTypeOK'
  <2>1. faults' \in 0 .. MaxFaults
    BY RetentionAssumption DEF RetentionIInv, RetentionTypeOK
  <2> QED
    BY <2>1 DEF RetentionIInv, RetentionTypeOK
<1>2. RunsTyped' /\ OptionsInv' /\ OrderingInv'
  BY DEF RetentionIInv, RunsTyped, OptionsInv, OrderingInv
<1>3. GoesOn
  BY DEF GoesOn, RetentionIInv, RetentionTypeOK
<1>4. PastStays /\ KeysStand /\ ObjectsStay /\ TrashIsAllowed
  BY SameRows, SameObjects
<1>5. RunsAllowed /\ SendersAllowed
  BY DEF RunsAllowed, SendersAllowed
<1> QED
  BY <1>1, <1>2, <1>3, <1>4, <1>5, Keeps

\* A run goes on while it writes; the requests are left alone.
LEMMA RunMoves ==
  ASSUME RetentionIInv, RetentionTypeOK', GoesOn, PastStays, UNCHANGED reqs,
         NEW p \in Purgers, NEW q \in RunStates, Runs(p, q), RunOK(q) \/ RunOK(q)'
  PROVE  /\ RunsTyped' /\ RunsAllowed /\ SendersAllowed
         /\ \A r \in Senders : reqs'[r].pc = "ordering" => reqs'[r] = reqs[r]
<1>1. RunsTyped'
  BY DEF RetentionIInv, RunsTyped, Runs
<1>2. RunOK(q)'
  BY RunStaysOK DEF RetentionIInv
<1>3. RunsAllowed
  <2> SUFFICES ASSUME NEW o \in Purgers, NEW s \in {runs'[o]}
               PROVE  s = runs[o] \/ RunOK(s)'
    BY DEF RunsAllowed
  <2>1. s = q \/ s = runs[o]
    BY DEF Runs, RetentionIInv, RunsTyped
  <2> QED
    BY <1>2, <2>1
<1> QED
  BY <1>1, <1>3 DEF SendersAllowed

\* A key is taken from a row, whatever it is by now.
LEMMA ForgetKeeps ==
  ASSUME RetentionIInv, NEW p \in Purgers, NEW q \in RunStates, Runs(p, q), RunOK(q),
         UNCHANGED <<now, revived, s3, lock, reqs, faults>>,
         NEW m \in Menus, Forget(m)
  PROVE  RetentionIInv'
<1>0. menu \in [Menus -> MenuRow] /\ revived \subseteq Menus
  BY DEF RetentionIInv, RetentionTypeOK
<1>1. CASE menu' = menu
  <2>1. lock' \in Purgers \cup {None} /\ faults' \in 0 .. MaxFaults
    BY DEF RetentionIInv, RetentionTypeOK
  <2> QED
    BY <1>1, <2>1, RunAlone DEF db
<1>2. ASSUME menu' = [menu EXCEPT ![m].imageKey = None], Exists(m)
      PROVE  RetentionIInv'
  <2>1. PICK row : row = [menu[m] EXCEPT !.imageKey = None]
    OBVIOUS
  <2>2. row \in MenuRow
    BY <1>0, <2>1 DEF MenuRow
  <2>3. /\ row.row = menu[m].row /\ row.deletedAt = menu[m].deletedAt
        /\ row.ordered = menu[m].ordered /\ row.options = menu[m].options
        /\ row.imageKey \notin Images
    BY <1>0, <2>1, RetentionAssumption DEF MenuRow
  <2>4. row.row = "here"
    BY <1>2, <2>3 DEF Exists
  <2>5. menu' = [menu EXCEPT ![m] = row]
    BY <1>2, <2>1
  <2>6. RetentionTypeOK'
    BY <1>0, <2>2, <2>5 DEF RetentionIInv, RetentionTypeOK, s3
  <2>7. GoesOn
    BY DEF GoesOn, RetentionIInv, RetentionTypeOK, s3
  <2>8. PastStays
    <3>1. \A n \in Menus : menu'[n] = IF n = m THEN row ELSE menu[n]
      BY <1>0, <2>5
    <3> QED
      BY <2>3, <2>4, <3>1 DEF PastStays, Past
  <2>9. /\ RunsTyped' /\ RunsAllowed /\ SendersAllowed
        /\ \A r \in Senders : reqs'[r].pc = "ordering" => reqs'[r] = reqs[r]
    BY <2>6, <2>7, <2>8, RunMoves
  <2>10. Past(m) => row.row # "absent"
    BY <2>4
  <2> QED
    BY <1>0, <2>2, <2>3, <2>4, <2>5, <2>9, RowWritten
<1> QED
  BY <1>1, <1>2 DEF Forget

\* A key that names no object is forgotten.
LEMMA DiscardKeeps ==
  ASSUME RetentionIInv, NEW p \in Purgers, DiscardKey(p)
  PROVE  RetentionIInv'
<1>q. PICK q : q = runs[p]
  OBVIOUS
<1>0. /\ RunOK(q) /\ q \in [pc : {"reclaim"}, cutoff : Int, todo : Picks]
  BY <1>q, RunShapes DEF DiscardKey
<1>1. PICK t \in q.todo : Forget(t[1]) /\ Runs(p, Reclaim(q, q.todo \ {t}))
  BY <1>q DEF DiscardKey
<1>2. PICK n : n = Reclaim(q, q.todo \ {t})
  OBVIOUS
<1>3. PICK m : m = t[1]
  OBVIOUS
<1>4. m \in Menus /\ q.cutoff \in Int /\ q.todo \ {t} \in Picks
  BY <1>0, <1>1, <1>3 DEF Picks
<1>5. n \in RunStates
  BY <1>2, <1>4 DEF RunStates, Reclaim
<1>6. RunOK(n)
  BY <1>0, <1>2 DEF RunOK, Reclaim
<1>7. UNCHANGED <<now, revived, s3, lock, reqs, faults>>
  BY DEF DiscardKey
<1>8. Forget(m) /\ Runs(p, n)
  BY <1>1, <1>2, <1>3
<1> QED
  BY <1>4, <1>5, <1>6, <1>7, <1>8, ForgetKeeps

\* The key of the row is forgotten when all variants have been moved.
LEMMA ForgetKeyKeeps ==
  ASSUME RetentionIInv, NEW p \in Purgers, ForgetKey(p)
  PROVE  RetentionIInv'
<1>q. PICK q : q = runs[p]
  OBVIOUS
<1>0. /\ RunOK(q)
      /\ q \in [pc : {"trash"}, cutoff : Int, todo : Picks, m : Menus, k : Images,
                left : SUBSET Variants, copied : SUBSET Variants]
  BY <1>q, RunShapes DEF ForgetKey
<1>1. Forget(q.m) /\ Runs(p, Reclaim(q, q.todo))
  BY <1>q DEF ForgetKey
<1>2. PICK n : n = Reclaim(q, q.todo)
  OBVIOUS
<1>3. n \in RunStates
  BY <1>0, <1>2 DEF RunStates, Reclaim
<1>4. RunOK(n)
  BY <1>0, <1>2 DEF RunOK, Reclaim
<1>5. UNCHANGED <<now, revived, s3, lock, reqs, faults>>
  BY DEF ForgetKey
<1>6. q.m \in Menus
  BY <1>0
<1>7. Runs(p, n)
  BY <1>1, <1>2
<1> QED
  BY <1>1, <1>3, <1>4, <1>5, <1>6, <1>7, ForgetKeeps

\* A variant is copied first, for a menu that can be discarded.
LEMMA CopyToTrashKeeps ==
  ASSUME RetentionIInv, NEW p \in Purgers, NEW v \in Variants, CopyToTrash(p, v)
  PROVE  RetentionIInv'
<1>q. PICK q : q = runs[p]
  OBVIOUS
<1>0. /\ RunOK(q) /\ q.pc = "trash"
      /\ q \in [pc : {"trash"}, cutoff : Int, todo : Picks, m : Menus, k : Images,
                left : SUBSET Variants, copied : SUBSET Variants]
  BY <1>q, RunShapes DEF CopyToTrash
<1>1. PICK n : n = [q EXCEPT !.left = q.left \ {v}, !.copied = q.copied \cup {v}]
  OBVIOUS
<1>2. n \in [pc : {"trash"}, cutoff : Int, todo : Picks, m : Menus, k : Images,
             left : SUBSET Variants, copied : SUBSET Variants]
  BY <1>0, <1>1
<1>3. n.pc = q.pc /\ n.cutoff = q.cutoff /\ n.todo = q.todo
      /\ n.m = q.m /\ n.k = q.k /\ n.copied = q.copied \cup {v}
  BY <1>0, <1>1
<1>4. /\ UNCHANGED <<now, db, tmp, bucket, trashedFor, lock, reqs, faults>>
      /\ trash' = trash \cup {<<q.k, v>>} /\ Runs(p, n)
  BY <1>q, <1>1 DEF CopyToTrash
<1>5. RetentionTypeOK'
  BY <1>0, <1>4 DEF RetentionIInv, RetentionTypeOK, db
<1>6. GoesOn
  BY <1>4 DEF GoesOn, RetentionIInv, RetentionTypeOK, db
<1>7. PastStays /\ KeysStand /\ OptionsInv'
  BY <1>4, SameRows DEF db
<1>8. ObjectsStay /\ TrashIsAllowed
  BY <1>4 DEF ObjectsStay, TrashIsAllowed
<1>9. n \in RunStates
  BY <1>2 DEF RunStates
<1>10. RunOK(n)'
  <2>1. RunOK(q)'
    <3>1. q \in RunStates
      BY <1>0 DEF RunStates
    <3> QED
      BY <1>0, <1>5, <1>6, <1>7, <3>1, RunStaysOK DEF RetentionIInv
  <2>2. \A w \in n.copied : <<n.k, w>> \in trash'
    BY <1>0, <1>3, <1>4 DEF RunOK
  <2> QED
    BY <1>0, <1>3, <2>1, <2>2 DEF RunOK
<1>11. /\ RunsTyped' /\ RunsAllowed /\ SendersAllowed
       /\ \A r \in Senders : reqs'[r].pc = "ordering" => reqs'[r] = reqs[r]
  BY <1>4, <1>5, <1>6, <1>7, <1>9, <1>10, RunMoves
<1>12. OrderingInv'
  BY <1>4, <1>11, OrderingStays DEF db
<1> QED
  BY <1>5, <1>6, <1>7, <1>8, <1>11, <1>12, Keeps

\* A variant is deleted when it is in the trash.
LEMMA DeleteSourceKeeps ==
  ASSUME RetentionIInv, NEW p \in Purgers, NEW v \in Variants, DeleteSource(p, v)
  PROVE  RetentionIInv'
<1>q. PICK q : q = runs[p]
  OBVIOUS
<1>0. /\ RunOK(q) /\ q.pc = "trash" /\ v \in q.copied
      /\ q \in [pc : {"trash"}, cutoff : Int, todo : Picks, m : Menus, k : Images,
                left : SUBSET Variants, copied : SUBSET Variants]
  BY <1>q, RunShapes DEF DeleteSource
<1>1. PICK n : n = [q EXCEPT !.copied = q.copied \ {v}]
  OBVIOUS
<1>2. n \in [pc : {"trash"}, cutoff : Int, todo : Picks, m : Menus, k : Images,
             left : SUBSET Variants, copied : SUBSET Variants]
  BY <1>0, <1>1
<1>3. n.pc = q.pc /\ n.cutoff = q.cutoff /\ n.todo = q.todo
      /\ n.m = q.m /\ n.k = q.k /\ n.copied = q.copied \ {v}
  BY <1>0, <1>1
<1>4. /\ UNCHANGED <<now, db, tmp, trash, lock, reqs, faults>>
      /\ bucket' = bucket \ {<<q.k, v>>}
      /\ trashedFor' = trashedFor \cup {<<q.m, q.k>>} /\ Runs(p, n)
  BY <1>q, <1>1 DEF DeleteSource
<1>5. RetentionTypeOK'
  BY <1>0, <1>4 DEF RetentionIInv, RetentionTypeOK, db
<1>6. GoesOn
  BY <1>4 DEF GoesOn, RetentionIInv, RetentionTypeOK, db
<1>7. PastStays /\ KeysStand /\ OptionsInv'
  BY <1>4, SameRows DEF db
<1>8. ObjectsStay
  <2> SUFFICES ASSUME NEW b \in bucket, b \notin bucket'
               PROVE  b \in trash' /\ \E m \in Menus : <<m, b[1]>> \in trashedFor'
    BY DEF ObjectsStay
  <2>1. b = <<q.k, v>>
    BY <1>4
  <2>2. b \in trash'
    BY <1>0, <1>4, <2>1 DEF RunOK
  <2>3. q.m \in Menus /\ <<q.m, b[1]>> \in trashedFor'
    BY <1>0, <1>4, <2>1
  <2> QED
    BY <2>2, <2>3
<1>9. TrashIsAllowed
  <2> SUFFICES ASSUME NEW t \in trashedFor' \ trashedFor
               PROVE  Discarded(t[1])
    BY DEF TrashIsAllowed
  <2>1. t[1] = q.m
    BY <1>4
  <2> QED
    BY <1>0, <2>1 DEF RunOK
<1>10. n \in RunStates
  BY <1>2 DEF RunStates
<1>11. RunOK(n)
  BY <1>0, <1>3 DEF RunOK
<1>12. /\ RunsTyped' /\ RunsAllowed /\ SendersAllowed
       /\ \A r \in Senders : reqs'[r].pc = "ordering" => reqs'[r] = reqs[r]
  BY <1>4, <1>5, <1>6, <1>7, <1>10, <1>11, RunMoves
<1>13. OrderingInv'
  BY <1>4, <1>12, OrderingStays DEF db
<1> QED
  BY <1>5, <1>6, <1>7, <1>8, <1>9, <1>12, <1>13, Keeps

\* Stage 2 takes the rows or their options, and nothing else of them.
LEMMA StageTwoKeeps ==
  ASSUME RetentionIInv, NEW p \in Purgers, NEW q \in RunStates, Runs(p, q), RunOK(q),
         UNCHANGED <<now, revived, s3, reqs, faults>>, lock' \in Purgers \cup {None},
         menu' \in [Menus -> MenuRow],
         \A m \in Menus :
            /\ menu'[m].deletedAt = menu[m].deletedAt
            /\ menu'[m].imageKey = menu[m].imageKey
            /\ menu'[m].ordered = menu[m].ordered
            /\ menu'[m].row = menu[m].row \/ menu'[m].row = "gone"
            /\ menu'[m].row # "here" => ~menu'[m].options
  PROVE  RetentionIInv'
<1>1. RetentionTypeOK'
  BY DEF RetentionIInv, RetentionTypeOK, s3
<1>2. GoesOn
  BY DEF GoesOn, RetentionIInv, RetentionTypeOK, s3
<1>3. PastStays
  <2> SUFFICES ASSUME NEW m \in Menus, Past(m), m \notin revived'
               PROVE  menu'[m].row # "absent"
    BY DEF PastStays
  <2>1. menu[m].row # "absent"
    BY DEF Past
  <2> QED
    BY <2>1
<1>4. KeysStand
  <2>1. \A m \in Menus : OnSale(m)' => OnSale(m)
    BY DEF OnSale, Exists, Overdue, DeletedBefore, RetentionCutoff
  <2> QED
    BY <2>1 DEF KeysStand
<1>5. OptionsInv'
  BY DEF OptionsInv
<1>6. ObjectsStay /\ TrashIsAllowed
  BY SameObjects DEF s3
<1>7. /\ RunsTyped' /\ RunsAllowed /\ SendersAllowed
      /\ \A r \in Senders : reqs'[r].pc = "ordering" => reqs'[r] = reqs[r]
  BY <1>1, <1>2, <1>3, RunMoves
<1>8. OrderingInv'
  BY <1>7, OrderingStays
<1> QED
  BY <1>1, <1>2, <1>3, <1>4, <1>5, <1>6, <1>7, <1>8, Keeps

\* The options of the targets.
LEMMA DeleteOptionsKeeps ==
  ASSUME RetentionIInv, NEW p \in Purgers, DeleteOptions(p)
  PROVE  RetentionIInv'
<1>q. PICK q : q = runs[p]
  OBVIOUS
<1>0. /\ RunOK(q) /\ q.pc = "options"
      /\ q \in [pc : {"options"}, targets : SUBSET Menus, deletable : SUBSET Menus]
  BY <1>q, RunShapes DEF DeleteOptions
<1>1. menu' = [m \in Menus |->
         IF m \in q.targets THEN [menu[m] EXCEPT !.options = FALSE] ELSE menu[m]]
  BY <1>q DEF DeleteOptions
<1>2. menu \in [Menus -> MenuRow]
  BY DEF RetentionIInv, RetentionTypeOK
<1>3. PICK n : n = [pc |-> "menus", deletable |-> q.deletable]
  OBVIOUS
<1>4. n \in RunStates /\ RunOK(n) /\ Runs(p, n)
  BY <1>q, <1>0, <1>3 DEF RunStates, RunOK, DeleteOptions
<1>5. ASSUME NEW m \in Menus
      PROVE  /\ menu'[m] \in MenuRow
             /\ menu'[m].deletedAt = menu[m].deletedAt
             /\ menu'[m].imageKey = menu[m].imageKey
             /\ menu'[m].ordered = menu[m].ordered
             /\ menu'[m].row = menu[m].row
             /\ menu'[m].row # "here" => ~menu'[m].options
  <2>1. menu[m] \in MenuRow /\ (menu[m].row # "here" => ~menu[m].options)
    BY <1>2 DEF RetentionIInv, OptionsInv
  <2>2. CASE menu'[m] = [menu[m] EXCEPT !.options = FALSE]
    BY <2>1, <2>2 DEF MenuRow
  <2>3. CASE menu'[m] = menu[m]
    BY <2>1, <2>3
  <2> QED
    BY <1>1, <2>2, <2>3
<1>6. menu' \in [Menus -> MenuRow]
  BY <1>1, <1>5
<1>7. /\ UNCHANGED <<now, revived, s3, reqs, faults>> /\ lock' \in Purgers \cup {None}
  BY DEF DeleteOptions, RetentionIInv, RetentionTypeOK
<1> QED
  BY <1>4, <1>5, <1>6, <1>7, StageTwoKeeps

\* The rows that can be deleted, all or none.
LEMMA DeleteMenusKeeps ==
  ASSUME RetentionIInv, NEW p \in Purgers, DeleteMenus(p)
  PROVE  RetentionIInv'
<1>1. menu \in [Menus -> MenuRow]
  BY DEF RetentionIInv, RetentionTypeOK
<1>2. menu' \in [Menus -> MenuRow] /\
      \A m \in Menus : \/ menu'[m] = [menu[m] EXCEPT !.row = "gone", !.options = FALSE]
                       \/ menu'[m] = menu[m]
  <2> DEFINE q == runs[p]
             refused == \E m \in q.deletable : Exists(m) /\ menu[m].ordered
  <2>1. menu' = [m \in Menus |->
               IF m \in q.deletable /\ Exists(m) /\ ~refused
               THEN [menu[m] EXCEPT !.row = "gone", !.options = FALSE]
               ELSE menu[m]]
    BY DEF DeleteMenus
  <2>2. \A m \in Menus : [menu[m] EXCEPT !.row = "gone", !.options = FALSE] \in MenuRow
    BY <1>1 DEF MenuRow
  <2> HIDE DEF q, refused
  <2> QED
    BY <1>1, <2>1, <2>2
<1>3. PICK n : n = Asleep
  OBVIOUS
<1>4. n \in RunStates /\ RunOK(n) /\ Runs(p, n)
  BY <1>3, AsleepIsOK DEF DeleteMenus, Finish
<1>5. ASSUME NEW m \in Menus
      PROVE  /\ menu'[m].deletedAt = menu[m].deletedAt
             /\ menu'[m].imageKey = menu[m].imageKey
             /\ menu'[m].ordered = menu[m].ordered
             /\ menu'[m].row = menu[m].row \/ menu'[m].row = "gone"
             /\ menu'[m].row # "here" => ~menu'[m].options
  <2>1. menu[m] \in MenuRow /\ (menu[m].row # "here" => ~menu[m].options)
    BY <1>1 DEF RetentionIInv, OptionsInv
  <2>2. CASE menu'[m] = [menu[m] EXCEPT !.row = "gone", !.options = FALSE]
    BY <2>1, <2>2 DEF MenuRow
  <2>3. CASE menu'[m] = menu[m]
    BY <2>1, <2>3
  <2> QED
    BY <1>2, <2>2, <2>3
<1>6. /\ UNCHANGED <<now, revived, s3, reqs, faults>> /\ lock' \in Purgers \cup {None}
  BY DEF DeleteMenus, Finish, RetentionIInv, RetentionTypeOK
<1> QED
  BY <1>2, <1>4, <1>5, <1>6, StageTwoKeeps

-----------------------------------------------------------------------------
\* The invariant, and what follows from it.

\* The stocks have the objects of their images, and nothing has happened yet.
LEMMA RetentionStarts == RetentionInit => RetentionIInv
<1> SUFFICES ASSUME RetentionInit
             PROVE  RetentionIInv
  OBVIOUS
<1>1. PICK s \in Stocks : now = s.day /\ menu = s.menu /\ tmp = s.tmp /\ bucket = s.bucket
  BY DEF RetentionInit
<1>2. /\ s.day \in 0 .. MaxTime
      /\ s.menu \in [Menus -> MenuRow]
      /\ s.tmp \in [Images -> {"new", "there", "expired"}]
      /\ s.bucket \subseteq Images \X Variants
      /\ \A m \in Menus :
            /\ s.menu[m].imageKey \in Images =>
                  {s.menu[m].imageKey} \X Variants \subseteq s.bucket
            /\ s.menu[m].row # "here" => ~s.menu[m].options
  BY RetentionAssumption
<1>3. \A p \in Purgers : runs[p] = Asleep
  BY DEF RetentionInit
<1>4. \A r \in Senders : reqs[r] = Ready
  BY DEF RetentionInit
<1>5. RetentionTypeOK
  <2>1. faults \in 0 .. MaxFaults
    BY RetentionAssumption DEF RetentionInit
  <2> QED
    BY <1>1, <1>2, <2>1 DEF RetentionInit, RetentionTypeOK
<1>6. RunsTyped
  BY DEF RetentionInit, RunsTyped, RunStates, SenderStates
<1>7. OptionsInv
  BY <1>1, <1>2 DEF OptionsInv
<1>8. OrderingInv
  BY <1>4 DEF OrderingInv, Ready
<1>9. RunsInv
  BY <1>3, AsleepIsOK DEF RunsInv
<1>10. TrashedInv
  BY DEF RetentionInit, TrashedInv
<1>11. PromotedInv
  BY <1>4 DEF PromotedInv, Promoted, Ready
<1>12. NothingLost
  BY <1>1, <1>2 DEF NothingLost, ObjectsOf
<1>13. OnSaleInv
  <2> SUFFICES ASSUME NEW m \in Menus, menu[m].imageKey \in Images, NEW v \in Variants
               PROVE  Stands(menu[m].imageKey, v)
    BY DEF OnSaleInv, OnSale
  <2>1. <<menu[m].imageKey, v>> \in bucket
    BY <1>1, <1>2
  <2> QED
    BY <2>1 DEF Stands
<1> QED
  BY <1>5, <1>6, <1>7, <1>8, <1>9, <1>10, <1>11, <1>12, <1>13 DEF RetentionIInv

\* Every step keeps the invariant.
THEOREM RetentionSteps ==
  RetentionIInv /\ [RetentionNext]_retentionVars => RetentionIInv'
<1> SUFFICES ASSUME RetentionIInv, [RetentionNext]_retentionVars
             PROVE  RetentionIInv'
  OBVIOUS
<1>1. CASE Tick
  BY <1>1, TickKeeps
<1>2. ASSUME NEW k \in Images, Upload(k) \/ TmpExpires(k)
      PROVE  RetentionIInv'
  BY <1>2, TmpKeeps
<1>3. ASSUME NEW r \in Senders, Request(r)
      PROVE  RetentionIInv'
  BY <1>3, PromotesKeeps, CopyKeeps, WriteKeeps, OwnersKeep, ReadMenuKeeps, InsertKeeps
     DEF Request
<1>4. ASSUME NEW p \in Purgers, StartRun(p) \/ TrashFails(p) \/ Crash(p)
      PROVE  RetentionIInv'
  BY <1>4, StartKeeps, RunGivesUp
<1>5. ASSUME NEW p \in Purgers, PurgeStep(p)
      PROVE  RetentionIInv'
  BY <1>5, DiscardKeeps, TrashMenuKeeps, CopyToTrashKeeps, SkipKeeps, DeleteSourceKeeps,
     ForgetKeyKeeps, RunGivesUp, ReadRowsKeeps, DeleteOptionsKeeps, DeleteMenusKeeps
     DEF PurgeStep
<1>6. CASE LockExpires \/ LoseLock
  BY <1>6, LockKeeps
<1>7. CASE UNCHANGED retentionVars
  <2> USE <1>7 DEF retentionVars, db, s3
  <2>1. RetentionTypeOK' /\ RunsTyped' /\ OptionsInv' /\ OrderingInv'
    BY DEF RetentionIInv, RetentionTypeOK, RunsTyped, OptionsInv, OrderingInv
  <2>2. GoesOn
    BY DEF GoesOn, RetentionIInv, RetentionTypeOK
  <2>3. PastStays /\ KeysStand /\ ObjectsStay /\ TrashIsAllowed
    BY SameRows, SameObjects
  <2>4. RunsAllowed /\ SendersAllowed
    BY DEF RunsAllowed, SendersAllowed
  <2> QED
    BY <2>1, <2>2, <2>3, <2>4, Keeps
<1> QED
  BY <1>1, <1>2, <1>3, <1>4, <1>5, <1>6, <1>7 DEF RetentionNext

\* Every behaviour of the retention keeps the invariant.
THEOREM RetentionInvariant == RetentionSpec => []RetentionIInv
<1> QED
  BY RetentionStarts, RetentionSteps, PTL DEF RetentionSpec

\* What a row refers to is in the bucket or in the trash (moveMenuImageToTrash):
\* whichever runs overlap and wherever they fail or die.
THEOREM ObjectsCanBeFound == RetentionSpec => []NothingLost
<1>1. RetentionIInv => NothingLost
  BY DEF RetentionIInv
<1> QED
  BY <1>1, RetentionInvariant, PTL

\* A menu that is live, can be restored or was ordered has its image, unless it
\* was deleted twice or shares the upload with a menu whose image was trashed.
THEOREM ImagesAreKept == RetentionSpec => []ImagesStand
<1>1. ASSUME RetentionIInv
      PROVE  ImagesStand
  <2> USE <1>1 DEF RetentionIInv
  <2>1. SUFFICES ASSUME NEW m \in Menus \ revived, OnSale(m),
                        NEW v \in Variants, <<menu[m].imageKey, v>> \notin bucket
                 PROVE  \E n \in Menus \ {m} : <<n, menu[m].imageKey>> \in trashedFor
    BY DEF ImagesStand, OnSale, ObjectsOf
  <2>2. PICK n \in Menus : <<n, menu[m].imageKey>> \in trashedFor
    BY <2>1 DEF OnSaleInv, Stands
  <2>3. Discarded(n)
    BY <2>2 DEF TrashedInv
  <2>4. ~Discarded(m)
    BY <2>1 DEF Discarded, Past, OnSale, Overdue, DeletedBefore
  <2> QED
    BY <2>2, <2>3, <2>4
<1> QED
  BY <1>1, RetentionInvariant, PTL

\* Rows that are there stay so, and keep their options.
RowsStay ==
  \A m \in Menus :
    /\ menu[m].row = "here" => menu'[m].row # "gone"
    /\ menu[m].options => menu'[m].options

\* All steps but those of stage 2 take nothing away.
LEMMA OthersTakeNothing ==
  ASSUME RetentionIInv, [RetentionNext]_retentionVars,
         \A p \in Purgers : ~DeleteOptions(p) /\ ~DeleteMenus(p)
  PROVE  RowsStay
<1>0. menu \in [Menus -> MenuRow]
  BY DEF RetentionIInv, RetentionTypeOK
<1>1. CASE menu' = menu
  BY <1>1 DEF RowsStay
<1>2. ASSUME NEW m \in Menus, NEW k, menu' = [menu EXCEPT ![m].imageKey = k]
      PROVE  RowsStay
  BY <1>0, <1>2 DEF RowsStay, MenuRow
<1>3. ASSUME NEW m \in Menus, NEW d, menu' = [menu EXCEPT ![m].deletedAt = d]
      PROVE  RowsStay
  BY <1>0, <1>3 DEF RowsStay, MenuRow
<1>4. ASSUME NEW m \in Menus, menu' = [menu EXCEPT ![m].options = TRUE]
      PROVE  RowsStay
  BY <1>0, <1>4 DEF RowsStay, MenuRow
<1>5. ASSUME NEW m \in Menus, menu' = [menu EXCEPT ![m].ordered = TRUE]
      PROVE  RowsStay
  BY <1>0, <1>5 DEF RowsStay, MenuRow
<1>6. ASSUME NEW m \in Menus, NEW k, menu[m].row = "absent",
             menu' = [menu EXCEPT ![m] = New(k)]
      PROVE  RowsStay
  <2>1. ~menu[m].options
    BY <1>6 DEF RetentionIInv, OptionsInv
  <2>2. menu'[m].row = "here" /\ \A n \in Menus \ {m} : menu'[n] = menu[n]
    BY <1>0, <1>6 DEF New
  <2> QED
    BY <1>6, <2>1, <2>2 DEF RowsStay
<1>7. \A m \in Menus : Forget(m) => RowsStay
  BY <1>1, <1>2 DEF Forget
<1>8. ASSUME NEW r \in Senders, Request(r)
      PROVE  RowsStay
  <2>1. CASE RemoveImage(r)
    BY <1>2, <2>1 DEF RemoveImage
  <2>2. CASE AddOption(r)
    BY <1>4, <2>2 DEF AddOption
  <2>3. CASE SoftDeleteMenu(r) \/ RestoreMenu(r)
    BY <1>3, <2>3 DEF SoftDeleteMenu, RestoreMenu
  <2>4. CASE CreateMenu(r) \/ PatchImage(r) \/ ReadMenu(r)
    BY <1>1, <2>4 DEF CreateMenu, PatchImage, Promotes, ReadMenu, db
  <2>5. ASSUME NEW v \in Variants, CopyToMenu(r, v)
        PROVE  RowsStay
    BY <1>1, <2>5 DEF CopyToMenu, db
  <2>6. CASE WriteImageKey(r)
    <3>q. PICK q : q = reqs[r]
      OBVIOUS
    <3>1. q \in SenderStates /\ q.pc = "promoting"
      BY <3>q, <2>6 DEF WriteImageKey, RetentionIInv, RunsTyped
    <3>2. q.target \in Menus \cup {None}
      BY <3>1 DEF SenderStates, Ready, Done
    <3> QED
      BY <1>1, <1>2, <1>6, <2>6, <3>q, <3>2 DEF WriteImageKey
  <2>7. CASE InsertItem(r)
    <3>q. PICK m : m = reqs[r].m
      OBVIOUS
    <3>1. m \in Menus
      BY <3>q, <2>7 DEF InsertItem, RetentionIInv, RunsTyped, SenderStates, Ready, Done
    <3> QED
      BY <1>1, <1>5, <2>7, <3>q, <3>1 DEF InsertItem
  <2> QED
    BY <1>8, <2>1, <2>2, <2>3, <2>4, <2>5, <2>6, <2>7 DEF Request
<1>9. ASSUME NEW p \in Purgers, DiscardKey(p) \/ ForgetKey(p)
      PROVE  RowsStay
  <2>q. PICK q : q = runs[p]
    OBVIOUS
  <2>1. CASE DiscardKey(p)
    <3>1. q \in [pc : {"reclaim"}, cutoff : Int, todo : Picks]
      BY <2>q, <2>1, RunShapes DEF DiscardKey
    <3>2. PICK t \in q.todo : Forget(t[1])
      BY <2>q, <2>1 DEF DiscardKey
    <3>3. t[1] \in Menus
      BY <3>1, <3>2 DEF Picks
    <3> QED
      BY <1>7, <3>2, <3>3
  <2>2. CASE ForgetKey(p)
    <3>1. q.pc = "trash" /\ Forget(q.m)
      BY <2>q, <2>2 DEF ForgetKey
    <3>2. q.m \in Menus
      BY <2>q, <3>1, RunShapes
    <3> QED
      BY <1>7, <3>1, <3>2
  <2> QED
    BY <1>9, <2>1, <2>2
<1>10. ASSUME NEW p \in Purgers,
              \/ StartRun(p) \/ TrashFails(p) \/ Crash(p)
              \/ TrashMenuImage(p) \/ SeesSignal(p) \/ ReadRows(p)
              \/ \E v \in Variants : CopyToTrash(p, v) \/ SkipVariant(p, v) \/ DeleteSource(p, v)
       PROVE  RowsStay
  <2>1. menu' = menu
    BY <1>10 DEF StartRun, TrashFails, Crash, TrashMenuImage, SeesSignal, ReadRows,
       CopyToTrash, SkipVariant, DeleteSource, db
  <2> QED
    BY <1>1, <2>1
<1>11. CASE \/ Tick \/ LockExpires \/ LoseLock \/ UNCHANGED retentionVars
            \/ \E k \in Images : Upload(k) \/ TmpExpires(k)
  BY <1>1, <1>11 DEF Tick, LockExpires, LoseLock, Upload, TmpExpires, retentionVars, db
<1> QED
  BY <1>8, <1>9, <1>10, <1>11 DEF RetentionNext, PurgeStep

\* What is past and there is overdue, unless it was deleted twice.
LEMMA PastIsOverdue ==
  ASSUME NEW m \in Menus, Past(m), m \notin revived, Exists(m)
  PROVE  Overdue(m)
BY DEF Past, Overdue, DeletedBefore, Exists

\* A run takes rows and options from overdue menus only, though it goes by what
\* it has read before (purgeExpired, purgeOptions): nobody can restore them.
THEOREM LiveMenusStay == RetentionSpec => OnlyOverdueLeave
<1>1. ASSUME RetentionIInv, [RetentionNext]_retentionVars
      PROVE  \A m \in Menus \ revived :
               (menu[m].row = "here" /\ menu'[m].row = "gone")
                   \/ (menu[m].options /\ ~menu'[m].options)
                       => Overdue(m)
  <2> USE <1>1
  <2>0. menu \in [Menus -> MenuRow]
    BY DEF RetentionIInv, RetentionTypeOK
  <2>1. ASSUME NEW p \in Purgers, DeleteOptions(p), NEW m \in Menus \ revived,
               (menu[m].row = "here" /\ menu'[m].row = "gone")
                   \/ (menu[m].options /\ ~menu'[m].options)
        PROVE  Overdue(m)
    <3>q. PICK q : q = runs[p]
      OBVIOUS
    <3>1. RunOK(q) /\ q.pc = "options"
      BY <2>1, <3>q, RunShapes DEF DeleteOptions
    <3>2. menu'[m] = IF m \in q.targets THEN [menu[m] EXCEPT !.options = FALSE] ELSE menu[m]
      BY <2>1, <3>q DEF DeleteOptions
    <3>3. m \in q.targets
      BY <2>1, <3>2
    <3>4. menu[m].options
      BY <2>0, <2>1, <3>2 DEF MenuRow
    <3>5. Exists(m)
      BY <3>4 DEF RetentionIInv, OptionsInv, Exists
    <3> QED
      BY <2>1, <3>1, <3>3, <3>5, PastIsOverdue DEF RunOK
  <2>2. ASSUME NEW p \in Purgers, DeleteMenus(p), NEW m \in Menus \ revived,
               (menu[m].row = "here" /\ menu'[m].row = "gone")
                   \/ (menu[m].options /\ ~menu'[m].options)
        PROVE  Overdue(m)
    <3>q. PICK q : q = runs[p]
      OBVIOUS
    <3>1. RunOK(q) /\ q.pc = "menus"
      BY <2>2, <3>q, RunShapes DEF DeleteMenus
    <3>2. menu'[m] = menu[m] \/ (m \in q.deletable /\ Exists(m))
      BY <2>2, <3>q DEF DeleteMenus
    <3>3. m \in q.deletable /\ Exists(m)
      BY <2>2, <3>2
    <3> QED
      BY <2>2, <3>1, <3>3, PastIsOverdue DEF RunOK
  <2>3. CASE \A p \in Purgers : ~DeleteOptions(p) /\ ~DeleteMenus(p)
    BY <2>3, OthersTakeNothing DEF RowsStay
  <2> QED
    BY <2>1, <2>2, <2>3
<1> QED
  BY <1>1, RetentionInvariant, PTL DEF RetentionSpec, OnlyOverdueLeave

-----------------------------------------------------------------------------
(* How an order's options are validated.  A menu is called an offer here,  *)
(* since menu is a variable of MenuRetention.  The recursive function that *)
(* a walk is exists, goes on by Step, keeps WalkOK and has ended after as  *)
(* many steps as Work has members; then everything is decided as Shown     *)
(* means it.                                                               *)

(* A non-empty set of numbers has a least one.                             *)
LEMMA LeastNumber ==
  ASSUME NEW N \in SUBSET Nat, N # {}
  PROVE  \E n \in N : \A k \in N : n <= k
<1>1. IsWellFoundedOn(OpToRel(<, Nat), Nat)
  BY NatLessThanWellFounded
<1>2. PICK n \in N : \A k \in N : ~(<<k, n>> \in OpToRel(<, Nat))
  BY <1>1, WFMin
<1>3. \A k \in N : ~(k < n)
  BY <1>2 DEF OpToRel
<1>. QED
  BY <1>3

(* A walk's first steps, as far as n.                                      *)
Prefix(offer, sel, n, w) ==
  /\ w[0] = Start
  /\ \A k \in 1 .. n : w[k] = Step(offer, sel, w[k - 1])

\* Two walks have the same first steps.
LEMMA PrefixesAgree ==
  ASSUME NEW offer, NEW sel, NEW n \in Nat, NEW v, NEW w,
         Prefix(offer, sel, n, v), Prefix(offer, sel, n, w)
  PROVE  v[n] = w[n]
<1> DEFINE Apart == {k \in 0 .. n : v[k] # w[k]}
<1>1. SUFFICES ASSUME Apart # {} PROVE FALSE
  OBVIOUS
<1>2. Apart \in SUBSET Nat
  OBVIOUS
<1>3. PICK k \in Apart : \A j \in Apart : k <= j
  <2> HIDE DEF Apart
  <2>. QED
    BY <1>1, <1>2, LeastNumber
<1>4. k # 0
  BY DEF Prefix
<1>5. k \in 1 .. n /\ k - 1 \in 0 .. n /\ ~(k <= k - 1)
  BY <1>3, <1>4
<1>6. v[k - 1] = w[k - 1]
  BY <1>3, <1>5
<1>. QED
  BY <1>3, <1>5, <1>6 DEF Prefix

\* A walk has first steps, as far as any n.
LEMMA PrefixesExist ==
  ASSUME NEW offer, NEW sel, NEW n \in Nat
  PROVE  \E w : Prefix(offer, sel, n, w)
<1> DEFINE Without == {k \in Nat : ~\E w : Prefix(offer, sel, k, w)}
<1>1. SUFFICES ASSUME Without # {} PROVE FALSE
  OBVIOUS
<1>2. PICK k \in Without : \A j \in Without : k <= j
  <2>1. Without \in SUBSET Nat
    OBVIOUS
  <2> HIDE DEF Without
  <2>. QED
    BY <1>1, <2>1, LeastNumber
<1>3. k # 0
  <2>1. Prefix(offer, sel, 0, [i \in {0} |-> Start])
    BY DEF Prefix
  <2>. QED
    BY <2>1
<1>4. k \in Nat /\ k - 1 \in Nat /\ ~(k <= k - 1)
  BY <1>2, <1>3
<1>5. PICK v : Prefix(offer, sel, k - 1, v)
  BY <1>2, <1>4
<1> DEFINE w == [i \in 0 .. k |-> IF i = k THEN Step(offer, sel, v[k - 1]) ELSE v[i]]
<1>6. w[0] = Start
  BY <1>3, <1>4, <1>5 DEF Prefix
<1>7. ASSUME NEW i \in 1 .. k
      PROVE  w[i] = Step(offer, sel, w[i - 1])
  <2>1. i \in 0 .. k /\ i - 1 \in 0 .. k /\ i - 1 # k
    BY <1>4
  <2>2. w[i - 1] = v[i - 1]
    BY <2>1
  <2>3. CASE i = k
    BY <2>1, <2>2, <2>3
  <2>4. CASE i # k
    <3>1. i \in 1 .. k - 1
      BY <1>4, <2>4
    <3>. QED
      BY <1>5, <2>1, <2>2, <2>4, <3>1 DEF Prefix
  <2>. QED
    BY <2>3, <2>4
<1>8. Prefix(offer, sel, k, w)
  BY <1>6, <1>7 DEF Prefix
<1>. QED
  BY <1>2, <1>8

(* The walk starts at Start and goes on by Step.                           *)
LEMMA WalkSteps ==
  ASSUME NEW offer, NEW sel
  PROVE  /\ Walk(offer, sel)[0] = Start
         /\ \A n \in Nat : Walk(offer, sel)[n + 1] = Step(offer, sel, Walk(offer, sel)[n])
<1> DEFINE P(n) == CHOOSE w : Prefix(offer, sel, n, w)
           F == [n \in Nat |-> P(n)[n]]
           IsWalk(f) == f = [n \in Nat |-> IF n = 0 THEN Start ELSE Step(offer, sel, f[n - 1])]
<1>1. \A n \in Nat : Prefix(offer, sel, n, P(n))
  BY PrefixesExist
<1>2. F[0] = Start
  BY <1>1 DEF Prefix
<1>3. ASSUME NEW n \in Nat, n # 0
      PROVE  F[n] = Step(offer, sel, F[n - 1])
  <2>1. n - 1 \in Nat /\ n \in 1 .. n /\ \A k \in 1 .. n - 1 : k \in 1 .. n
    BY <1>3
  <2>2. Prefix(offer, sel, n, P(n)) /\ Prefix(offer, sel, n - 1, P(n - 1))
    BY <1>1, <2>1
  <2> HIDE DEF P
  <2>3. Prefix(offer, sel, n - 1, P(n))
    BY <2>1, <2>2 DEF Prefix
  <2>4. P(n)[n - 1] = P(n - 1)[n - 1]
    BY <2>1, <2>2, <2>3, PrefixesAgree
  <2>5. P(n)[n] = Step(offer, sel, P(n)[n - 1])
    BY <2>1, <2>2 DEF Prefix
  <2>. QED
    BY <2>1, <2>4, <2>5
<1>4. IsWalk(F)
  <2> HIDE DEF P
  <2>1. F = [n \in Nat |-> F[n]]
    OBVIOUS
  <2>2. \A n \in Nat : F[n] = IF n = 0 THEN Start ELSE Step(offer, sel, F[n - 1])
    BY <1>2, <1>3
  <2> HIDE DEF F
  <2>. QED
    BY <2>1, <2>2
<1>5. IsWalk(Walk(offer, sel))
  <2>1. Walk(offer, sel) = CHOOSE f : IsWalk(f)
    BY DEF Walk
  <2> HIDE DEF IsWalk
  <2>. QED
    BY <1>4, <2>1
<1>6. \A n \in Nat : Walk(offer, sel)[n] = IF n = 0 THEN Start
                                         ELSE Step(offer, sel, Walk(offer, sel)[n - 1])
  <2> SUFFICES ASSUME NEW f, IsWalk(f)
               PROVE  \A n \in Nat : f[n] = IF n = 0 THEN Start ELSE Step(offer, sel, f[n - 1])
    BY <1>5
  <2>. QED
    OBVIOUS
<1>7. ASSUME NEW n \in Nat
      PROVE  n + 1 \in Nat /\ n + 1 # 0 /\ (n + 1) - 1 = n
  OBVIOUS
<1>. QED
  BY <1>6, <1>7

-----------------------------------------------------------------------------
(* A rule that finds one of its choices picked in an option that is shown. *)
Satisfied(offer, sel, rule) ==
  rule.on \in Shown(offer, sel) /\ rule.choices \cap Picked(sel, rule.on) # {}

(* The options shown are closed under their rules, and all their rules are *)
(* satisfied; none is on a cycle.                                          *)
LEMMA ShownFacts ==
  ASSUME NEW offer, NEW sel
  PROVE  /\ Shown(offer, sel) \subseteq ToSet(offer.options)
         /\ \A g \in ToSet(offer.options) \cap offer.enabled :
              (\A rule \in offer.trigger[g] : Satisfied(offer, sel, rule)) => g \in Shown(offer, sel)
         /\ \A g \in Shown(offer, sel) :
              g \in offer.enabled /\ \A rule \in offer.trigger[g] : Satisfied(offer, sel, rule)
         /\ \A C \in SUBSET ToSet(offer.options) :
              (\A g \in C : \E rule \in offer.trigger[g] : rule.on \in C) =>
                \A g \in C : g \notin Shown(offer, sel)
<1> DEFINE O == ToSet(offer.options)
           S == Shown(offer, sel)
           Holds(rule, T) == rule.on \in T /\ rule.choices \cap Picked(sel, rule.on) # {}
           Closed(T) == \A g \in O \cap offer.enabled :
                          (\A rule \in offer.trigger[g] : Holds(rule, T)) => g \in T
<1>1. S = {g \in O : \A T \in SUBSET O : Closed(T) => g \in T}
  BY DEF Shown
<1>2. \A rule : Satisfied(offer, sel, rule) <=> Holds(rule, S)
  BY DEF Satisfied
<1> HIDE DEF S, O
<1>3. S \subseteq O
  BY <1>1
<1>4. \A T \in SUBSET O : Closed(T) => S \subseteq T
  <2> HIDE DEF Closed
  <2>. QED
    BY <1>1
<1>5. Closed(S)
  <2> SUFFICES ASSUME NEW g \in O \cap offer.enabled,
                      \A rule \in offer.trigger[g] : Holds(rule, S),
                      NEW T \in SUBSET O, Closed(T)
               PROVE  g \in T
    BY <1>1
  <2>1. S \subseteq T
    BY <1>4
  <2>2. \A rule \in offer.trigger[g] : Holds(rule, T)
    BY <2>1
  <2>. QED
    BY <2>2
<1> DEFINE Kept == {g \in S : g \in offer.enabled /\ \A rule \in offer.trigger[g] : Holds(rule, S)}
<1>6. Closed(Kept)
  <2> SUFFICES ASSUME NEW g \in O \cap offer.enabled,
                      \A rule \in offer.trigger[g] : Holds(rule, Kept)
               PROVE  g \in Kept
    OBVIOUS
  <2>1. \A rule \in offer.trigger[g] : Holds(rule, S)
    OBVIOUS
  <2>. QED
    BY <1>5, <2>1
<1>7. \A g \in S : g \in offer.enabled /\ \A rule \in offer.trigger[g] : Holds(rule, S)
  <2>1. Kept \in SUBSET O
    BY <1>3
  <2>2. S \subseteq Kept
    <3> HIDE DEF Kept, Closed
    <3>. QED
      BY <1>4, <1>6, <2>1
  <2>. QED
    BY <2>2
<1>8. ASSUME NEW C \in SUBSET O, \A g \in C : \E rule \in offer.trigger[g] : rule.on \in C,
             NEW g \in C, g \in S
      PROVE  FALSE
  <2> DEFINE Rest == S \ C
  <2>1. Closed(Rest)
    <3> SUFFICES ASSUME NEW h \in O \cap offer.enabled,
                        \A rule \in offer.trigger[h] : Holds(rule, Rest)
                 PROVE  h \in Rest
      OBVIOUS
    <3>1. \A rule \in offer.trigger[h] : Holds(rule, S) /\ rule.on \notin C
      OBVIOUS
    <3>. QED
      BY <1>5, <1>8, <3>1
  <2>2. Rest \in SUBSET O
    BY <1>3
  <2>3. S \subseteq Rest
    <3> HIDE DEF Rest, Closed
    <3>. QED
      BY <1>4, <2>1, <2>2
  <2>. QED
    BY <1>8, <2>3
<1>. QED
  <2>1. \A C \in SUBSET O :
          (\A g \in C : \E rule \in offer.trigger[g] : rule.on \in C) => \A g \in C : g \notin S
    BY <1>8
  <2>2. \A g \in O \cap offer.enabled : (\A rule \in offer.trigger[g] : Holds(rule, S)) => g \in S
    BY <1>5
  <2>3. /\ S \subseteq O
        /\ \A g \in O \cap offer.enabled :
             (\A rule \in offer.trigger[g] : Satisfied(offer, sel, rule)) => g \in S
        /\ \A g \in S : g \in offer.enabled /\ \A rule \in offer.trigger[g] : Satisfied(offer, sel, rule)
    BY <1>2, <1>3, <1>7, <2>2
  <2>. QED
    BY <2>1, <2>3 DEF S, O
-----------------------------------------------------------------------------
Frames(offer) ==
  [option : ToSet(offer.options), rules : SUBSET UNION {offer.trigger[g] : g \in ToSet(offer.options)}]

(* The state of a walk as its four parts.                                  *)
Parts(run) ==
  [calls |-> run.calls, resolved |-> run.resolved, done |-> run.done, refused |-> run.refused]

(* What has been decided so far is what is meant: every result is that of  *)
(* Shown and none of them throws, and an exception has its reason there.   *)
Decided(offer, sel, run) ==
  /\ run.resolved = [g \in DOMAIN run.resolved |-> run.resolved[g]]
  /\ DOMAIN run.resolved \subseteq ToSet(offer.options)
  /\ \A g \in DOMAIN run.resolved :
       /\ run.resolved[g] = IF g \in Shown(offer, sel) THEN Picked(sel, g) ELSE {}
       /\ ~Refuses(offer, sel, g, g \in Shown(offer, sel))
  /\ run.refused \in BOOLEAN
  /\ run.refused => \E g \in ToSet(offer.options) : Refuses(offer, sel, g, g \in Shown(offer, sel))
  /\ run.done \in 0 .. Len(offer.options)
  /\ \A i \in 1 .. run.done : offer.options[i] \in DOMAIN run.resolved

(* The calls that have not returned are of different options without a     *)
(* result; each waits for a rule on the option of the next, and the rules  *)
(* it is done with are satisfied.                                          *)
Calling(offer, sel, run) ==
  /\ run.calls \in Seq(Frames(offer))
  /\ \A i \in 1 .. Len(run.calls) :
       /\ run.calls[i].option \notin DOMAIN run.resolved
       /\ run.calls[i].rules \subseteq offer.trigger[run.calls[i].option]
       /\ \A rule \in offer.trigger[run.calls[i].option] \ run.calls[i].rules :
            Satisfied(offer, sel, rule)
  /\ \A i, j \in 1 .. Len(run.calls) :
       run.calls[i].option = run.calls[j].option => i = j
  /\ \A i \in 1 .. Len(run.calls) - 1 :
       \E rule \in run.calls[i].rules : rule.on = run.calls[i + 1].option

WalkOK(offer, sel, run) ==
  run = Parts(run) /\ Decided(offer, sel, run) /\ Calling(offer, sel, run)

(* The work that is left.                                                  *)
Pending(run, w) ==
  \/ w[1] = "display" /\ w[2] > run.done
  \/ w[1] = "call" /\ w[2] \notin DOMAIN run.resolved \cup Visiting(run)
  \/ w[1] = "return" /\ w[2] \notin DOMAIN run.resolved
  \/ /\ w[1] = "rule" /\ w[2] \notin DOMAIN run.resolved
     /\ \A i \in DOMAIN run.calls : run.calls[i].option = w[2] => w[3] \in run.calls[i].rules
Todo(offer, run) == {w \in Work(offer) : Pending(run, w)}

(* A step gets on when there is less to do after it, or nothing at all.    *)
GetsOn(offer, run, after) ==
  \/ after.refused /\ Todo(offer, run) # {}
  \/ Todo(offer, after) \subseteq Todo(offer, run) /\ Todo(offer, after) # Todo(offer, run)

\* Nothing is decided or called before the first step.
LEMMA StartIsOK ==
  ASSUME NEW offer, NEW sel, offer.options \in Seq(ToSet(offer.options))
  PROVE  WalkOK(offer, sel, Start)
<1>1. Start = Parts(Start)
  BY DEF Start, Parts
<1>2. Start.calls \in Seq(Frames(offer)) /\ Len(Start.calls) = 0
  BY DEF Start
<1>3. Calling(offer, sel, Start)
  BY <1>2 DEF Calling
<1>4. DOMAIN Start.resolved = {} /\ Start.done = 0 /\ Start.refused = FALSE
  BY DEF Start
<1>5. Start.resolved = [g \in DOMAIN Start.resolved |-> Start.resolved[g]]
  BY DEF Start
<1>6. 0 \in 0 .. Len(offer.options)
  OBVIOUS
<1>7. Decided(offer, sel, Start)
  <2>1. \A i \in 1 .. Start.done : FALSE
    BY <1>4
  <2>2. ~Start.refused /\ Start.refused \in BOOLEAN /\ Start.done \in 0 .. Len(offer.options)
    BY <1>4, <1>6
  <2>. QED
    BY <1>4, <1>5, <2>1, <2>2, Zenon DEF Decided
<1>. QED
  BY <1>1, <1>3, <1>7 DEF WalkOK

(* The options that calls wait on.                                         *)
LEMMA VisitingIs ==
  ASSUME NEW offer, NEW run, run.calls \in Seq(Frames(offer))
  PROVE  /\ Len(run.calls) \in Nat /\ DOMAIN run.calls = 1 .. Len(run.calls)
         /\ Visiting(run) = {run.calls[i].option : i \in 1 .. Len(run.calls)}
         /\ \A i \in 1 .. Len(run.calls) :
              /\ run.calls[i] \in Frames(offer)
              /\ run.calls[i].option \in ToSet(offer.options)
<1>1. Len(run.calls) \in Nat /\ DOMAIN run.calls = 1 .. Len(run.calls)
  OBVIOUS
<1>2. \A i \in 1 .. Len(run.calls) : run.calls[i] \in Frames(offer)
  OBVIOUS
<1>. QED
  BY <1>1, <1>2 DEF Visiting, Frames

(* A call of resolve for an option that has neither a result nor a call.   *)
LEMMA CallKeeps ==
  ASSUME NEW offer, NEW sel, NEW run, WalkOK(offer, sel, run), ~run.refused,
         NEW g \in ToSet(offer.options), g \notin DOMAIN run.resolved, g \notin Visiting(run),
         run.calls # <<>> => \E rule \in run.calls[Len(run.calls)].rules : rule.on = g
  PROVE  /\ WalkOK(offer, sel, Call(offer, run, g))
         /\ GetsOn(offer, run, Call(offer, run, g))
<1> DEFINE frame == [option |-> g, rules |-> offer.trigger[g]]
           n == Len(run.calls)
           calls == Append(run.calls, frame)
           after == Call(offer, run, g)
<1>1. /\ run = Parts(run) /\ Decided(offer, sel, run) /\ Calling(offer, sel, run)
      /\ run.calls \in Seq(Frames(offer))
  BY DEF WalkOK, Calling
<1>2. after = [calls |-> calls, resolved |-> run.resolved, done |-> run.done,
               refused |-> run.refused]
  <2>1. PICK c, res, d, f : run = [calls |-> c, resolved |-> res, done |-> d, refused |-> f]
    BY <1>1 DEF Parts
  <2>2. after = [run EXCEPT !.calls = Append(c, frame)]
    BY <2>1 DEF Call
  <2>3. after = [calls |-> Append(c, frame), resolved |-> res, done |-> d, refused |-> f]
    BY <2>1, <2>2
  <2>. QED
    BY <2>1, <2>3
<1>3. frame \in Frames(offer)
  BY DEF Frames
<1> HIDE DEF frame
<1>4. /\ n \in Nat /\ calls \in Seq(Frames(offer)) /\ Len(calls) = n + 1
      /\ DOMAIN calls = 1 .. n + 1 /\ DOMAIN run.calls = 1 .. n
      /\ calls[n + 1] = frame /\ \A i \in 1 .. n : calls[i] = run.calls[i]
  BY <1>1, <1>3
<1>5. frame.option = g /\ frame.rules = offer.trigger[g]
  BY DEF frame
<1> HIDE DEF after, calls
<1>6. /\ after.calls = calls /\ after.resolved = run.resolved /\ after.done = run.done
      /\ after.refused = run.refused /\ after = Parts(after)
  BY <1>2 DEF Parts
<1>7. Decided(offer, sel, after)
  BY <1>1, <1>6 DEF Decided
<1>8. Visiting(run) = {run.calls[i].option : i \in 1 .. n}
  BY <1>1, VisitingIs
<1>9. Calling(offer, sel, after)
  <2>1. ASSUME NEW i \in 1 .. n + 1
        PROVE  /\ calls[i].option \notin DOMAIN run.resolved
               /\ calls[i].rules \subseteq offer.trigger[calls[i].option]
               /\ \A rule \in offer.trigger[calls[i].option] \ calls[i].rules :
                    Satisfied(offer, sel, rule)
    <3>1. CASE i = n + 1
      BY <1>4, <1>5, <3>1
    <3>2. CASE i # n + 1
      <4>1. i \in 1 .. n
        BY <1>4, <3>2
      <4>. QED
        BY <1>1, <1>4, <4>1 DEF Calling
    <3>. QED
      BY <3>1, <3>2
  <2>2. \A i \in 1 .. n : calls[i].option # g /\ calls[n + 1].option = g
    BY <1>4, <1>5, <1>8
  <2>3. \A i, j \in 1 .. n : calls[i].option = calls[j].option => i = j
    BY <1>1, <1>4 DEF Calling
  <2>4. \A i, j \in 1 .. n + 1 : calls[i].option = calls[j].option => i = j
    <3>1. \A i \in 1 .. n + 1 : i = n + 1 \/ i \in 1 .. n
      BY <1>4
    <3>. QED
      BY <2>2, <2>3, <3>1
  <2>5. ASSUME NEW i \in 1 .. n
        PROVE  \E rule \in calls[i].rules : rule.on = calls[i + 1].option
    <3>1. CASE i = n
      <4>1. n # 0
        BY <1>4
      <4>2. run.calls # <<>>
        BY <1>4, <4>1
      <4>. QED
        BY <1>4, <1>5, <3>1, <4>2
    <3>2. CASE i # n
      <4>1. i \in 1 .. n - 1 /\ i + 1 \in 1 .. n
        BY <1>4, <3>2
      <4>. QED
        BY <1>1, <1>4, <4>1 DEF Calling
    <3>. QED
      BY <3>1, <3>2
  <2>6. Len(calls) - 1 = n
    BY <1>4
  <2>. QED
    BY <1>4, <1>6, <2>1, <2>4, <2>5, <2>6 DEF Calling
<1>10. GetsOn(offer, run, after)
  <2>1. Visiting(after) = {calls[i].option : i \in 1 .. n + 1}
    BY <1>4, <1>6 DEF Visiting
  <2>2. Visiting(run) \subseteq Visiting(after) /\ g \in Visiting(after)
    BY <1>4, <1>5, <1>8, <2>1
  <2>3. ASSUME NEW w, Pending(after, w)
        PROVE  Pending(run, w)
    <3>1. (\A i \in DOMAIN after.calls : after.calls[i].option = w[2] => w[3] \in after.calls[i].rules)
             => \A i \in DOMAIN run.calls : run.calls[i].option = w[2] => w[3] \in run.calls[i].rules
      BY <1>4, <1>6
    <3>. QED
      BY <1>6, <2>2, <2>3, <3>1 DEF Pending
  <2> DEFINE w == <<"call", g>>
  <2>4. w \in Work(offer)
    BY DEF Work
  <2>5. w[1] = "call" /\ w[2] = g
    OBVIOUS
  <2> HIDE DEF w
  <2>6. Pending(run, w)
    BY <2>5 DEF Pending
  <2>7. ~Pending(after, w)
    BY <2>2, <2>5 DEF Pending
  <2>8. Todo(offer, after) \subseteq Todo(offer, run) /\ w \in Todo(offer, run) /\ w \notin Todo(offer, after)
    BY <2>3, <2>4, <2>6, <2>7 DEF Todo
  <2>. QED
    BY <2>8 DEF GetsOn
<1>. QED
  BY <1>6, <1>7, <1>9, <1>10 DEF WalkOK, after

\* A frame whose rules are replaced.
LEMMA NewRules ==
  ASSUME NEW g, NEW R, NEW T, NEW y, y = [option |-> g, rules |-> R]
  PROVE  [y EXCEPT !.rules = T] = [option |-> g, rules |-> T]
<1>1. y.option = g /\ DOMAIN y = {"option", "rules"}
  OBVIOUS
<1>. QED
  BY <1>1

(* The call on top is done with a rule that is satisfied.                  *)
Dropped(run, rule) == [run EXCEPT !.calls[Len(run.calls)].rules = @ \ {rule}]

\* A rule that is satisfied is dropped and the invariant kept.
LEMMA DropKeeps ==
  ASSUME NEW offer, NEW sel, NEW run, WalkOK(offer, sel, run), ~run.refused, run.calls # <<>>,
         NEW rule \in run.calls[Len(run.calls)].rules, Satisfied(offer, sel, rule),
         NEW after, after = Dropped(run, rule)
  PROVE  WalkOK(offer, sel, after) /\ GetsOn(offer, run, after)
<1> DEFINE n == Len(run.calls)
<1>1. /\ run = Parts(run) /\ Decided(offer, sel, run) /\ Calling(offer, sel, run)
      /\ run.calls \in Seq(Frames(offer))
  BY DEF WalkOK, Calling
<1>2. /\ n \in Nat /\ DOMAIN run.calls = 1 .. n /\ n # 0 /\ n \in 1 .. n
      /\ \A i \in 1 .. n : run.calls[i] \in Frames(offer)
  BY <1>1
<1>3. PICK g, R : run.calls[n] = [option |-> g, rules |-> R]
  BY <1>2 DEF Frames
<1> DEFINE frame == [option |-> g, rules |-> R \ {rule}]
           calls == [run.calls EXCEPT ![n] = frame]
<1>4. after = [calls |-> calls, resolved |-> run.resolved, done |-> run.done,
               refused |-> run.refused]
  <2>1. PICK c, res, d, f : run = [calls |-> c, resolved |-> res, done |-> d, refused |-> f]
    BY <1>1 DEF Parts
  <2>2. /\ DOMAIN c = 1 .. n /\ Len(c) = n /\ c[n] = [option |-> g, rules |-> R]
    BY <1>1, <1>2, <1>3, <2>1
  <2>3. c[n].rules = R
    BY <2>2
  <2>4. after = [run EXCEPT !.calls[n].rules = R \ {rule}]
    BY <2>1, <2>3 DEF Dropped
  <2>5. PICK x : x = [c EXCEPT ![n].rules = R \ {rule}]
    OBVIOUS
  <2>6. after = [calls |-> x, resolved |-> res, done |-> d, refused |-> f]
    BY <2>1, <2>4, <2>5
  <2>7. x = [c EXCEPT ![n] = frame]
    <3>1. PICK y : y = c[n]
      OBVIOUS
    <3>2. [y EXCEPT !.rules = R \ {rule}] = frame
      <4>1. PICK rest : rest = R \ {rule}
        OBVIOUS
      <4>2. y = [option |-> g, rules |-> R]
        BY <2>2, <3>1
      <4>3. [y EXCEPT !.rules = rest] = [option |-> g, rules |-> rest]
        BY <4>2, NewRules
      <4>. QED
        BY <4>1, <4>3, Zenon
    <3>3. x = [c EXCEPT ![n] = [y EXCEPT !.rules = R \ {rule}]]
      BY <2>2, <2>5, <3>1
    <3>. QED
      BY <3>2, <3>3
  <2>. QED
    BY <2>1, <2>6, <2>7
<1>5. frame \in Frames(offer) /\ rule \in R /\ R \subseteq offer.trigger[g]
  <2>1. [option |-> g, rules |-> R] \in Frames(offer)
    BY <1>2, <1>3
  <2>2. g \in ToSet(offer.options) /\ R \subseteq UNION {offer.trigger[h] : h \in ToSet(offer.options)}
    BY <2>1 DEF Frames
  <2>3. rule \in R /\ R \subseteq offer.trigger[g]
    BY <1>1, <1>2, <1>3 DEF Calling
  <2>. QED
    BY <2>2, <2>3 DEF Frames
<1>6. frame.option = g /\ frame.rules = R \ {rule}
  OBVIOUS
<1> HIDE DEF frame
<1>7. /\ calls \in Seq(Frames(offer)) /\ Len(calls) = n /\ DOMAIN calls = 1 .. n
      /\ calls[n] = frame /\ \A i \in 1 .. n : i # n => calls[i] = run.calls[i]
  BY <1>1, <1>2, <1>5
<1> HIDE DEF calls
<1>8. /\ after.calls = calls /\ after.resolved = run.resolved /\ after.done = run.done
      /\ after.refused = run.refused /\ after = Parts(after)
  BY <1>4 DEF Parts
<1>9. Decided(offer, sel, after)
  BY <1>1, <1>8 DEF Decided
<1>10. \A i \in 1 .. n : calls[i].option = run.calls[i].option
  BY <1>3, <1>6, <1>7
<1>11. Calling(offer, sel, after)
  <2>1. ASSUME NEW i \in 1 .. n
        PROVE  /\ calls[i].option \notin DOMAIN run.resolved
               /\ calls[i].rules \subseteq offer.trigger[calls[i].option]
               /\ \A r \in offer.trigger[calls[i].option] \ calls[i].rules :
                    Satisfied(offer, sel, r)
    <3>1. /\ run.calls[i].option \notin DOMAIN run.resolved
          /\ run.calls[i].rules \subseteq offer.trigger[run.calls[i].option]
          /\ \A r \in offer.trigger[run.calls[i].option] \ run.calls[i].rules :
               Satisfied(offer, sel, r)
      BY <1>1 DEF Calling
    <3>2. CASE i = n
      BY <1>3, <1>5, <1>6, <1>7, <3>1, <3>2
    <3>3. CASE i # n
      BY <1>7, <3>1, <3>3
    <3>. QED
      BY <3>2, <3>3
  <2>2. \A i, j \in 1 .. n : calls[i].option = calls[j].option => i = j
    BY <1>1, <1>10 DEF Calling
  <2>3. ASSUME NEW i \in 1 .. n - 1
        PROVE  \E r \in calls[i].rules : r.on = calls[i + 1].option
    <3>1. i \in 1 .. n /\ i # n /\ i + 1 \in 1 .. n
      BY <1>2
    <3>2. \E r \in run.calls[i].rules : r.on = run.calls[i + 1].option
      BY <1>1 DEF Calling
    <3>. QED
      BY <1>7, <1>10, <3>1, <3>2
  <2>. QED
    BY <1>7, <1>8, <2>1, <2>2, <2>3 DEF Calling
<1>12. GetsOn(offer, run, after)
  <2>1. Visiting(after) = Visiting(run)
    BY <1>2, <1>7, <1>8, <1>10 DEF Visiting
  <2>2. ASSUME NEW w, Pending(after, w)
        PROVE  Pending(run, w)
    <3>1. \A i \in 1 .. n : calls[i].rules \subseteq run.calls[i].rules
      BY <1>3, <1>6, <1>7
    <3>2. (\A i \in DOMAIN after.calls : after.calls[i].option = w[2] => w[3] \in after.calls[i].rules)
             => \A i \in DOMAIN run.calls : run.calls[i].option = w[2] => w[3] \in run.calls[i].rules
      BY <1>2, <1>7, <1>8, <1>10, <3>1
    <3>. QED
      BY <1>8, <2>1, <2>2, <3>2 DEF Pending
  <2> DEFINE w == <<"rule", g, rule>>
  <2>3. g \in ToSet(offer.options) /\ g \notin DOMAIN run.resolved /\ rule \in offer.trigger[g]
    <3>1. run.calls[n].option \in ToSet(offer.options)
      BY <1>1, <1>2, VisitingIs
    <3>. QED
      BY <1>1, <1>2, <1>3, <1>5, <3>1 DEF Calling
  <2>4. w \in Work(offer)
    BY <2>3 DEF Work
  <2>5. w[1] = "rule" /\ w[2] = g /\ w[3] = rule
    OBVIOUS
  <2> HIDE DEF w
  <2>6. \A i \in 1 .. n : run.calls[i].option = g => rule \in run.calls[i].rules
    <3>1. \A i \in 1 .. n : run.calls[i].option = g => i = n
      BY <1>1, <1>2, <1>3 DEF Calling
    <3>. QED
      BY <1>3, <1>5, <3>1
  <2>7. Pending(run, w)
    BY <1>2, <2>3, <2>5, <2>6 DEF Pending
  <2>8. ~Pending(after, w)
    <3>1. n \in DOMAIN after.calls /\ after.calls[n].option = w[2] /\ w[3] \notin after.calls[n].rules
      BY <1>2, <1>6, <1>7, <1>8, <2>5
    <3>. QED
      BY <2>5, <3>1 DEF Pending
  <2>9. Todo(offer, after) \subseteq Todo(offer, run) /\ w \in Todo(offer, run) /\ w \notin Todo(offer, after)
    BY <2>2, <2>4, <2>7, <2>8 DEF Todo
  <2>. QED
    BY <2>9 DEF GetsOn
<1>. QED
  BY <1>8, <1>9, <1>11, <1>12 DEF WalkOK

(* The call on top returns what is meant of its option, or throws.         *)
LEMMA ReturnKeeps ==
  ASSUME NEW offer, NEW sel, NEW run, WalkOK(offer, sel, run), ~run.refused, run.calls # <<>>,
         NEW shown, shown = (run.calls[Len(run.calls)].option \in Shown(offer, sel))
  PROVE  /\ WalkOK(offer, sel, Return(offer, sel, run, shown))
         /\ GetsOn(offer, run, Return(offer, sel, run, shown))
<1> DEFINE n == Len(run.calls)
           after == Return(offer, sel, run, shown)
<1>1. /\ run = Parts(run) /\ Decided(offer, sel, run) /\ Calling(offer, sel, run)
      /\ run.calls \in Seq(Frames(offer))
  BY DEF WalkOK, Calling
<1>2. /\ n \in Nat /\ DOMAIN run.calls = 1 .. n /\ n # 0 /\ n \in 1 .. n
      /\ \A i \in 1 .. n : run.calls[i] \in Frames(offer)
  BY <1>1
<1>3. PICK g : g = run.calls[n].option
  OBVIOUS
<1>4. g \in ToSet(offer.options) /\ g \notin DOMAIN run.resolved
  BY <1>1, <1>2, <1>3, VisitingIs DEF Calling
<1>5. PICK c, res, d, f : run = [calls |-> c, resolved |-> res, done |-> d, refused |-> f]
  BY <1>1 DEF Parts
<1>6. CASE Refuses(offer, sel, g, shown)
  <2>1. after = [run EXCEPT !.refused = TRUE]
    BY <1>3, <1>6 DEF Return, Last
  <2>2. after = [calls |-> c, resolved |-> res, done |-> d, refused |-> TRUE]
    BY <1>5, <2>1
  <2>3. /\ after.calls = run.calls /\ after.resolved = run.resolved /\ after.done = run.done
        /\ after.refused = TRUE /\ after = Parts(after)
    BY <1>5, <2>2 DEF Parts
  <2> HIDE DEF after
  <2>4. Calling(offer, sel, after)
    BY <1>1, <2>3 DEF Calling
  <2>5. \E h \in ToSet(offer.options) : Refuses(offer, sel, h, h \in Shown(offer, sel))
    BY <1>3, <1>4, <1>6
  <2>6. Decided(offer, sel, after)
    BY <1>1, <2>3, <2>5 DEF Decided
  <2>7. Pending(run, <<"return", g>>) /\ <<"return", g>> \in Work(offer)
    BY <1>4 DEF Pending, Work
  <2>8. GetsOn(offer, run, after)
    BY <2>3, <2>7 DEF GetsOn, Todo
  <2>. QED
    BY <2>3, <2>4, <2>6, <2>8 DEF WalkOK, after
<1>7. CASE ~Refuses(offer, sel, g, shown)
  <2> DEFINE calls == Front(run.calls)
             resolved == [h \in DOMAIN run.resolved \cup {g} |->
                            IF h # g THEN run.resolved[h]
                            ELSE IF shown THEN Picked(sel, g) ELSE {}]
  <2>1. after = [run EXCEPT !.calls = Front(@),
                   !.resolved = [h \in DOMAIN @ \cup {g} |->
                                   IF h # g THEN @[h]
                                   ELSE IF shown THEN Picked(sel, g) ELSE {}]]
    BY <1>3, <1>7 DEF Return, Last
  <2>2. after = [calls |-> calls, resolved |-> resolved, done |-> d, refused |-> f]
    BY <1>5, <2>1
  <2>3. /\ calls \in Seq(Frames(offer)) /\ Len(calls) = n - 1 /\ DOMAIN calls = 1 .. n - 1
        /\ \A i \in 1 .. n - 1 : calls[i] = run.calls[i] /\ i \in 1 .. n
    BY <1>1, <1>2 DEF Front
  <2>4. /\ DOMAIN resolved = DOMAIN run.resolved \cup {g}
        /\ \A h \in DOMAIN run.resolved : resolved[h] = run.resolved[h]
        /\ resolved[g] = IF shown THEN Picked(sel, g) ELSE {}
        /\ resolved = [h \in DOMAIN resolved |-> resolved[h]]
    BY <1>4
  <2> HIDE DEF calls, resolved, after
  <2>5. /\ after.calls = calls /\ after.resolved = resolved /\ after.done = run.done
        /\ after.refused = run.refused /\ after = Parts(after)
    BY <1>5, <2>2 DEF Parts
  <2>6. Decided(offer, sel, after)
    <3>1. ASSUME NEW h \in DOMAIN resolved
          PROVE  /\ resolved[h] = IF h \in Shown(offer, sel) THEN Picked(sel, h) ELSE {}
                 /\ ~Refuses(offer, sel, h, h \in Shown(offer, sel))
      <4>1. CASE h = g
        BY <1>3, <1>7, <2>4, <4>1
      <4>2. CASE h # g
        BY <1>1, <2>4, <4>2 DEF Decided
      <4>. QED
        BY <4>1, <4>2
    <3>2. DOMAIN resolved \subseteq ToSet(offer.options)
      BY <1>1, <1>4, <2>4 DEF Decided
    <3>3. \A i \in 1 .. run.done : offer.options[i] \in DOMAIN resolved
      BY <1>1, <2>4 DEF Decided
    <3>. QED
      BY <1>1, <2>4, <2>5, <3>1, <3>2, <3>3 DEF Decided
  <2>7. Calling(offer, sel, after)
    <3>1. ASSUME NEW i \in 1 .. n - 1
          PROVE  /\ calls[i].option \notin DOMAIN resolved
                 /\ calls[i].rules \subseteq offer.trigger[calls[i].option]
                 /\ \A rule \in offer.trigger[calls[i].option] \ calls[i].rules :
                      Satisfied(offer, sel, rule)
      <4>1. i \in 1 .. n /\ i # n /\ calls[i] = run.calls[i]
        BY <1>2, <2>3
      <4>2. run.calls[i].option # g
        BY <1>1, <1>2, <1>3, <4>1 DEF Calling
      <4>. QED
        BY <1>1, <2>4, <4>1, <4>2 DEF Calling
    <3>2. \A i, j \in 1 .. n - 1 : calls[i].option = calls[j].option => i = j
      BY <1>1, <2>3 DEF Calling
    <3>3. ASSUME NEW i \in 1 .. (n - 1) - 1
          PROVE  \E rule \in calls[i].rules : rule.on = calls[i + 1].option
      <4>1. i \in 1 .. n - 1 /\ i + 1 \in 1 .. n - 1
        BY <1>2
      <4>. QED
        BY <1>1, <2>3, <4>1 DEF Calling
    <3>. QED
      BY <2>3, <2>5, <3>1, <3>2, <3>3 DEF Calling
  <2>8. GetsOn(offer, run, after)
    <3>1. /\ Visiting(run) = {run.calls[i].option : i \in 1 .. n}
          /\ Visiting(after) = {calls[i].option : i \in 1 .. n - 1}
      BY <1>2, <2>3, <2>5 DEF Visiting
    <3>2. Visiting(run) \subseteq Visiting(after) \cup {g}
      <4>1. \A i \in 1 .. n : i \in 1 .. n - 1 \/ i = n
        BY <1>2
      <4>. QED
        BY <1>3, <2>3, <3>1, <4>1
    <3>3. ASSUME NEW w, Pending(after, w)
          PROVE  Pending(run, w)
      <4>1. w[2] # g => ((\A i \in DOMAIN after.calls : after.calls[i].option = w[2] => w[3] \in after.calls[i].rules)
               => \A i \in DOMAIN run.calls : run.calls[i].option = w[2] => w[3] \in run.calls[i].rules)
        <5>1. \A i \in 1 .. n : i \in 1 .. n - 1 \/ i = n
          BY <1>2
        <5>. QED
          BY <1>2, <1>3, <2>3, <2>5, <5>1
      <4>. QED
        BY <2>4, <2>5, <3>2, <3>3, <4>1 DEF Pending
    <3> DEFINE w == <<"return", g>>
    <3>4. w \in Work(offer)
      BY <1>4 DEF Work
    <3>5. w[1] = "return" /\ w[2] = g
      OBVIOUS
    <3> HIDE DEF w
    <3>6. Pending(run, w) /\ ~Pending(after, w)
      BY <1>4, <2>4, <2>5, <3>5 DEF Pending
    <3>7. Todo(offer, after) \subseteq Todo(offer, run) /\ w \in Todo(offer, run) /\ w \notin Todo(offer, after)
      BY <3>3, <3>4, <3>6 DEF Todo
    <3>. QED
      BY <3>7 DEF GetsOn
  <2>. QED
    BY <2>5, <2>6, <2>7, <2>8 DEF WalkOK, after
<1>. QED
  BY <1>6, <1>7

(* The call on top has nothing left to do, looks at a rule, or waits.      *)
LEMMA LookKeeps ==
  ASSUME NEW offer, NEW sel, NEW run, WalkOK(offer, sel, run), ~run.refused, run.calls # <<>>
  PROVE  /\ WalkOK(offer, sel, Look(offer, sel, run))
         /\ GetsOn(offer, run, Look(offer, sel, run))
<1> DEFINE n == Len(run.calls)
           top == run.calls[n]
           rule == CHOOSE r \in top.rules : TRUE
<1>1. /\ Decided(offer, sel, run) /\ Calling(offer, sel, run) /\ run.calls \in Seq(Frames(offer))
  BY DEF WalkOK, Calling
<1>2. n \in Nat /\ n # 0 /\ n \in 1 .. n /\ top.option \in ToSet(offer.options)
  <2>1. n \in Nat /\ n # 0
    BY <1>1
  <2>. QED
    BY <1>1, <2>1, VisitingIs
<1>3. /\ top.rules \subseteq offer.trigger[top.option]
      /\ \A r \in offer.trigger[top.option] \ top.rules : Satisfied(offer, sel, r)
  BY <1>1, <1>2 DEF Calling
<1>4. top = Last(run.calls)
  BY DEF Last
<1> DEFINE Hidden == top.option \notin offer.enabled
           Unbound == top.option \in offer.enabled /\ top.rules = {}
           Stuck == rule.on \in Visiting(run) \/ rule.on \notin ToSet(offer.options)
           Open == rule.on \notin DOMAIN run.resolved
           Missed == ~Met(run, sel, rule)
<1>5. Look(offer, sel, run) =
        CASE Hidden -> Return(offer, sel, run, FALSE)
          [] Unbound -> Return(offer, sel, run, TRUE)
          [] OTHER -> IF Stuck THEN Return(offer, sel, run, FALSE)
                      ELSE IF Open THEN Call(offer, run, rule.on)
                      ELSE IF Missed THEN Return(offer, sel, run, FALSE)
                      ELSE Dropped(run, rule)
  BY <1>4 DEF Look, Dropped
<1>6. ASSUME top.option \notin Shown(offer, sel)
      PROVE  /\ WalkOK(offer, sel, Return(offer, sel, run, FALSE))
             /\ GetsOn(offer, run, Return(offer, sel, run, FALSE))
  <2>1. FALSE = (run.calls[Len(run.calls)].option \in Shown(offer, sel))
    BY <1>6
  <2>. QED
    BY <2>1, ReturnKeeps
<1>7. CASE Hidden
  <2>1. top.option \notin Shown(offer, sel)
    BY <1>7, ShownFacts
  <2>2. Look(offer, sel, run) = Return(offer, sel, run, FALSE)
    BY <1>5, <1>7
  <2>. QED
    BY <1>6, <2>1, <2>2
<1>8. CASE ~Hidden /\ Unbound
  <2>1. top.option \in Shown(offer, sel)
    BY <1>2, <1>3, <1>8, ShownFacts
  <2>2. Look(offer, sel, run) = Return(offer, sel, run, TRUE)
    BY <1>5, <1>8
  <2>3. TRUE = (run.calls[Len(run.calls)].option \in Shown(offer, sel))
    BY <2>1
  <2>. QED
    BY <2>2, <2>3, ReturnKeeps
<1>9. CASE ~Hidden /\ ~Unbound
  <2>1. rule \in top.rules /\ rule \in offer.trigger[top.option]
    BY <1>3, <1>9
  <2>2. Look(offer, sel, run) = IF Stuck THEN Return(offer, sel, run, FALSE)
                               ELSE IF Open THEN Call(offer, run, rule.on)
                               ELSE IF Missed THEN Return(offer, sel, run, FALSE)
                               ELSE Dropped(run, rule)
    BY <1>5, <1>9
  <2> HIDE DEF rule, top, Hidden, Unbound, Stuck, Open, Missed
  <2>3. ASSUME ~Satisfied(offer, sel, rule)
        PROVE  top.option \notin Shown(offer, sel)
    BY <2>1, <2>3, ShownFacts
  <2>4. CASE Stuck
    <3>1. CASE rule.on \in Visiting(run)
      <4> DEFINE C == Visiting(run)
      <4>1. C = {run.calls[i].option : i \in 1 .. n} /\ C \in SUBSET ToSet(offer.options)
        BY <1>1, VisitingIs
      <4>2. \A g \in C : \E r \in offer.trigger[g] : r.on \in C
        <5> SUFFICES ASSUME NEW i \in 1 .. n
                     PROVE  \E r \in offer.trigger[run.calls[i].option] : r.on \in C
          BY <4>1
        <5>1. CASE i = n
          BY <2>1, <3>1, <5>1 DEF top
        <5>2. CASE i # n
          <6>1. i \in 1 .. n - 1 /\ i + 1 \in 1 .. n
            BY <1>2, <5>2
          <6>2. PICK r \in run.calls[i].rules : r.on = run.calls[i + 1].option
            BY <1>1, <6>1 DEF Calling
          <6>3. r \in offer.trigger[run.calls[i].option]
            BY <1>1, <6>2 DEF Calling
          <6>. QED
            BY <4>1, <6>1, <6>2, <6>3
        <5>. QED
          BY <5>1, <5>2
      <4>3. top.option \in C
        BY <1>2, <4>1 DEF top
      <4> HIDE DEF C
      <4>4. top.option \notin Shown(offer, sel)
        BY <4>1, <4>2, <4>3, ShownFacts
      <4>. QED
        BY <1>6, <2>2, <2>4, <4>4
    <3>2. CASE rule.on \notin ToSet(offer.options)
      <4>1. ~Satisfied(offer, sel, rule)
        BY <3>2, ShownFacts DEF Satisfied
      <4>. QED
        BY <1>6, <2>2, <2>3, <2>4, <4>1
    <3>. QED
      BY <2>4, <3>1, <3>2 DEF Stuck
  <2>5. CASE ~Stuck /\ Open
    <3>1. Look(offer, sel, run) = Call(offer, run, rule.on)
      BY <2>2, <2>5
    <3>2. /\ rule.on \in ToSet(offer.options) /\ rule.on \notin DOMAIN run.resolved
          /\ rule.on \notin Visiting(run)
      BY <2>5 DEF Stuck, Open
    <3>3. \E r \in run.calls[Len(run.calls)].rules : r.on = rule.on
      BY <2>1 DEF top
    <3>. QED
      BY <3>1, <3>2, <3>3, CallKeeps
  <2>6. CASE ~Stuck /\ ~Open
    <3>1. run.resolved[rule.on] = IF rule.on \in Shown(offer, sel) THEN Picked(sel, rule.on) ELSE {}
      BY <1>1, <2>6 DEF Decided, Open
    <3>2. Missed <=> ~Satisfied(offer, sel, rule)
      BY <3>1 DEF Missed, Satisfied, Accepted, Met
    <3>3. CASE Missed
      BY <1>6, <2>2, <2>3, <2>6, <3>2, <3>3
    <3>4. CASE ~Missed
      <4>1. Look(offer, sel, run) = Dropped(run, rule)
        BY <2>2, <2>6, <3>4
      <4>2. rule \in run.calls[Len(run.calls)].rules /\ Satisfied(offer, sel, rule)
        BY <2>1, <3>2, <3>4 DEF top
      <4>. QED
        BY <4>1, <4>2, DropKeeps
    <3>. QED
      BY <3>3, <3>4
  <2>. QED
    BY <2>4, <2>5, <2>6
<1>. QED
  BY <1>7, <1>8, <1>9

Finished(offer, run) == run.refused \/ (run.calls = <<>> /\ run.done = Len(offer.options))

(* One step of the walk.                                                   *)
LEMMA StepKeeps ==
  ASSUME NEW offer, offer.options \in Seq(ToSet(offer.options)),
         NEW sel, NEW run, WalkOK(offer, sel, run)
  PROVE  /\ WalkOK(offer, sel, Step(offer, sel, run))
         /\ Finished(offer, run) => Step(offer, sel, run) = run
         /\ ~Finished(offer, run) => GetsOn(offer, run, Step(offer, sel, run))
<1>1. CASE Finished(offer, run)
  BY <1>1 DEF Finished, Step
<1>2. CASE ~Finished(offer, run) /\ run.calls # <<>>
  <2>1. ~run.refused /\ Step(offer, sel, run) = Look(offer, sel, run)
    BY <1>2 DEF Finished, Step
  <2>. QED
    BY <1>2, <2>1, LookKeeps
<1>3. CASE ~Finished(offer, run) /\ run.calls = <<>>
  <2> DEFINE k == run.done + 1
             g == offer.options[k]
             after == Step(offer, sel, run)
  <2>1. /\ run = Parts(run) /\ Decided(offer, sel, run) /\ Calling(offer, sel, run)
    BY DEF WalkOK
  <2>2. /\ ~run.refused /\ run.done # Len(offer.options)
        /\ after = IF g \in DOMAIN run.resolved THEN [run EXCEPT !.done = @ + 1]
                   ELSE Call(offer, run, g)
    BY <1>3 DEF Finished, Step
  <2>3. /\ run.done \in Nat /\ k \in 1 .. Len(offer.options) /\ k \in 0 .. Len(offer.options)
        /\ DOMAIN offer.options = 1 .. Len(offer.options)
    BY <2>1, <2>2 DEF Decided
  <2>4. g \in ToSet(offer.options)
    BY <2>3 DEF ToSet
  <2>5. CASE g \in DOMAIN run.resolved
    <3>1. PICK c, res, d, f : run = [calls |-> c, resolved |-> res, done |-> d, refused |-> f]
      BY <2>1 DEF Parts
    <3>2. after = [calls |-> c, resolved |-> res, done |-> d + 1, refused |-> f]
      <4>1. after = [run EXCEPT !.done = run.done + 1]
        BY <2>2, <2>5
      <4>. QED
        BY <3>1, <4>1
    <3> HIDE DEF after
    <3>3. /\ after.calls = run.calls /\ after.resolved = run.resolved /\ after.done = k
          /\ after.refused = run.refused /\ after = Parts(after)
      BY <3>1, <3>2 DEF Parts
    <3>4. Calling(offer, sel, after)
      BY <2>1, <3>3 DEF Calling
    <3>5. \A i \in 1 .. k : i \in 1 .. run.done \/ i = k
      BY <2>3
    <3>6. \A i \in 1 .. k : offer.options[i] \in DOMAIN run.resolved
      BY <2>1, <2>5, <3>5 DEF Decided
    <3>7. Decided(offer, sel, after)
      BY <2>1, <2>3, <3>3, <3>6 DEF Decided
    <3>8. ASSUME NEW w \in Work(offer), Pending(after, w)
          PROVE  Pending(run, w)
      <4>1. Visiting(after) = Visiting(run)
        BY <3>3 DEF Visiting
      <4>2. w[1] = "display" => w[2] \in Nat
        BY <2>3, <3>8 DEF Work
      <4>. QED
        BY <2>3, <3>3, <3>8, <4>1, <4>2 DEF Pending
    <3> DEFINE w == <<"display", k>>
    <3>9. w \in Work(offer)
      BY <2>3 DEF Work
    <3>10. w[1] = "display" /\ w[2] = k
      OBVIOUS
    <3> HIDE DEF w
    <3>11. Pending(run, w) /\ ~Pending(after, w)
      BY <2>3, <3>3, <3>10 DEF Pending
    <3>12. Todo(offer, after) \subseteq Todo(offer, run) /\ w \in Todo(offer, run) /\ w \notin Todo(offer, after)
      BY <3>8, <3>9, <3>11 DEF Todo
    <3>13. GetsOn(offer, run, after)
      BY <3>12 DEF GetsOn
    <3>. QED
      BY <1>3, <3>3, <3>4, <3>7, <3>13 DEF WalkOK, after
  <2>6. CASE g \notin DOMAIN run.resolved
    <3>1. after = Call(offer, run, g)
      BY <2>2, <2>6
    <3>2. g \notin Visiting(run)
      BY <1>3 DEF Visiting
    <3> HIDE DEF after, g
    <3>3. WalkOK(offer, sel, after) /\ GetsOn(offer, run, after)
      BY <1>3, <2>2, <2>4, <2>6, <3>1, <3>2, CallKeeps
    <3>. QED
      BY <1>3, <3>3 DEF after
  <2>. QED
    BY <2>5, <2>6
<1>. QED
  BY <1>1, <1>2, <1>3

(* What is required of a menu for its walk to end.                         *)
MenuOK(offer) ==
  /\ offer.options \in Seq(ToSet(offer.options))
  /\ \A g \in ToSet(offer.options) : IsFiniteSet(offer.trigger[g]) /\ offer.minSelect[g] \in Nat

\* A menu has finitely many options.
LEMMA OptionsAreFinite ==
  ASSUME NEW offer, MenuOK(offer)
  PROVE  IsFiniteSet(ToSet(offer.options)) /\ IsFiniteSet(DOMAIN offer.options)
<1> DEFINE O == ToSet(offer.options)
           n == Len(offer.options)
<1>1. n \in Nat /\ DOMAIN offer.options = 1 .. n /\ offer.options \in [1 .. n -> O]
  BY DEF MenuOK
<1>2. IsFiniteSet(1 .. n)
  BY <1>1, FS_Interval
<1>3. offer.options \in Surjection(1 .. n, O)
  BY <1>1 DEF ToSet, Surjection
<1>. QED
  BY <1>1, <1>2, <1>3, FS_Surjection

\* So the steps of a walk are bounded.
LEMMA WorkIsFinite ==
  ASSUME NEW offer, MenuOK(offer)
  PROVE  IsFiniteSet(Work(offer))
<1> DEFINE O == ToSet(offer.options)
           Looks(g) == {"rule"} \X {g} \X offer.trigger[g]
           all == {Looks(g) : g \in O}
<1>1. IsFiniteSet(O) /\ IsFiniteSet(DOMAIN offer.options)
  BY OptionsAreFinite
<1>2. IsFiniteSet({"display"}) /\ IsFiniteSet({"call", "return"})
  <2>1. IsFiniteSet({"call"} \cup {"return"})
    BY FS_Singleton, FS_Union
  <2>2. {"call"} \cup {"return"} = {"call", "return"}
    OBVIOUS
  <2>. QED
    BY <2>1, <2>2, FS_Singleton
<1>3. IsFiniteSet({"display"} \X DOMAIN offer.options) /\ IsFiniteSet({"call", "return"} \X O)
  BY <1>1, <1>2, FS_Product
<1>4. ASSUME NEW g \in O
      PROVE  IsFiniteSet(Looks(g))
  <2> DEFINE T == offer.trigger[g]
             f == [w \in Looks(g) |-> w[3]]
  <2>1. IsFiniteSet(T)
    BY DEF MenuOK
  <2>2. \A w \in Looks(g) : w = <<"rule", g, w[3]>> /\ w[3] \in T
    OBVIOUS
  <2>3. f \in [Looks(g) -> T] /\ \A v, w \in Looks(g) : f[v] = f[w] => v = w
    BY <2>2
  <2>4. f \in Injection(Looks(g), T)
    BY <2>3 DEF Injection, IsInjective
  <2> HIDE DEF f, T, Looks
  <2>. QED
    BY <2>1, <2>4, FS_Injection
<1>5. IsFiniteSet(all)
  <2> DEFINE f == [g \in O |-> Looks(g)]
  <2>1. f \in Surjection(O, all)
    BY DEF Surjection
  <2> HIDE DEF f, all, O
  <2>. QED
    BY <1>1, <2>1, FS_Surjection
<1>6. IsFiniteSet(UNION all)
  <2>1. \A T \in all : IsFiniteSet(T)
    BY <1>4
  <2> HIDE DEF all
  <2>. QED
    BY <1>5, <2>1, FS_UNION
<1>7. Work(offer) = (({"display"} \X DOMAIN offer.options) \cup ({"call", "return"} \X O)) \cup UNION all
  BY DEF Work
<1> HIDE DEF all, O
<1>8. IsFiniteSet(({"display"} \X DOMAIN offer.options) \cup ({"call", "return"} \X O))
  BY <1>3, FS_Union
<1>9. IsFiniteSet((({"display"} \X DOMAIN offer.options) \cup ({"call", "return"} \X O)) \cup UNION all)
  BY <1>6, <1>8, FS_Union
<1>. QED
  BY <1>7, <1>9

(* The walk stays as it should, and each step but the last leaves less.    *)
LEMMA WalkKeeps ==
  ASSUME NEW offer, MenuOK(offer), NEW sel, NEW n \in Nat
  PROVE  /\ WalkOK(offer, sel, Walk(offer, sel)[n])
         /\ \/ Finished(offer, Walk(offer, sel)[n])
            \/ Cardinality(Todo(offer, Walk(offer, sel)[n])) + n <= Cardinality(Work(offer))
<1> DEFINE W == Cardinality(Work(offer))
           w == Walk(offer, sel)
           left(k) == Cardinality(Todo(offer, w[k]))
           Kept(k) == /\ WalkOK(offer, sel, w[k])
                      /\ Finished(offer, w[k]) \/ left(k) + k <= W
           Bad == {k \in Nat : ~Kept(k)}
<1>1. SUFFICES ASSUME Bad # {} PROVE FALSE
  OBVIOUS
<1>2. PICK k \in Bad : \A j \in Bad : k <= j
  <2>1. Bad \in SUBSET Nat
    OBVIOUS
  <2> HIDE DEF Bad
  <2>. QED
    BY <1>1, <2>1, LeastNumber
<1>3. k \in Nat /\ ~Kept(k) /\ \A j \in Nat : ~(k <= j) => Kept(j)
  BY <1>2
<1>4. IsFiniteSet(Work(offer)) /\ W \in Nat
  BY WorkIsFinite, FS_CardinalityType
<1>5. ASSUME NEW j \in Nat
      PROVE  /\ Todo(offer, w[j]) \in SUBSET Work(offer) /\ IsFiniteSet(Todo(offer, w[j]))
             /\ left(j) \in Nat /\ left(j) <= W /\ (left(j) = 0 => Todo(offer, w[j]) = {})
  <2>1. Todo(offer, w[j]) \in SUBSET Work(offer)
    BY DEF Todo
  <2>. QED
    BY <1>4, <2>1, FS_Subset, FS_CardinalityType, FS_EmptySet
<1>6. w[0] = Start /\ \A j \in Nat : w[j + 1] = Step(offer, sel, w[j])
  BY WalkSteps
<1>7. offer.options \in Seq(ToSet(offer.options))
  BY DEF MenuOK
<1> HIDE DEF w, Bad
<1>8. CASE k = 0
  <2>1. WalkOK(offer, sel, w[0])
    BY <1>6, <1>7, StartIsOK
  <2>2. left(0) + 0 <= W
    BY <1>4, <1>5
  <2>. QED
    BY <1>3, <1>8, <2>1, <2>2
<1>9. CASE k # 0
  <2> DEFINE j == k - 1
  <2>1. j \in Nat /\ j + 1 = k /\ ~(k <= j)
    BY <1>3, <1>9
  <2>2. Kept(j) /\ w[k] = Step(offer, sel, w[j])
    BY <1>3, <1>6, <2>1
  <2> HIDE DEF j
  <2>3. /\ WalkOK(offer, sel, w[k])
        /\ Finished(offer, w[j]) => w[k] = w[j]
        /\ ~Finished(offer, w[j]) => GetsOn(offer, w[j], w[k])
    BY <1>7, <2>2, StepKeeps
  <2>4. CASE Finished(offer, w[j])
    BY <1>3, <2>3, <2>4
  <2>5. CASE ~Finished(offer, w[j]) /\ ~w[k].refused
    <3>1. Todo(offer, w[k]) \subseteq Todo(offer, w[j]) /\ Todo(offer, w[k]) # Todo(offer, w[j])
      BY <2>3, <2>5 DEF GetsOn
    <3>2. left(k) <= left(j) /\ left(k) # left(j)
      BY <1>5, <2>1, <3>1, FS_Subset
    <3>3. left(j) + j <= W /\ left(j) \in Nat /\ left(k) \in Nat
      BY <1>3, <1>5, <2>1, <2>2, <2>5
    <3> HIDE DEF left, W
    <3>4. left(k) + k <= W
      BY <1>3, <1>4, <2>1, <3>2, <3>3
    <3>. QED
      BY <1>3, <2>3, <3>4
  <2>6. CASE w[k].refused
    BY <1>3, <2>3, <2>6 DEF Finished
  <2>. QED
    BY <2>4, <2>5, <2>6
<1>. QED
  BY <1>8, <1>9

(* So it has ended when the work is done.                                  *)
LEMMA WalkEnds ==
  ASSUME NEW offer, MenuOK(offer), NEW sel
  PROVE  /\ WalkOK(offer, sel, Walk(offer, sel)[Cardinality(Work(offer))])
         /\ Finished(offer, Walk(offer, sel)[Cardinality(Work(offer))])
<1> DEFINE W == Cardinality(Work(offer))
           end == Walk(offer, sel)[W]
<1>1. IsFiniteSet(Work(offer)) /\ W \in Nat
  BY WorkIsFinite, FS_CardinalityType
<1>2. WalkOK(offer, sel, end) /\ (Finished(offer, end) \/ Cardinality(Todo(offer, end)) + W <= W)
  BY <1>1, WalkKeeps
<1>3. CASE ~Finished(offer, end)
  <2>1. Todo(offer, end) \in SUBSET Work(offer)
    BY DEF Todo
  <2>2. IsFiniteSet(Todo(offer, end)) /\ Cardinality(Todo(offer, end)) \in Nat
    BY <1>1, <2>1, FS_Subset, FS_CardinalityType
  <2>3. Cardinality(Todo(offer, end)) = 0
    <3> DEFINE m == Cardinality(Todo(offer, end))
    <3>1. m \in Nat /\ m + W <= W
      BY <1>2, <1>3, <2>2
    <3> HIDE DEF m, W
    <3>. QED
      BY <1>1, <3>1 DEF m
  <2>4. Todo(offer, end) = {}
    BY <2>2, <2>3, FS_EmptySet
  <2>5. GetsOn(offer, end, Step(offer, sel, end))
    BY <1>2, <1>3, StepKeeps DEF MenuOK
  <2>. QED
    BY <2>4, <2>5 DEF GetsOn
<1>. QED
  BY <1>2, <1>3

(* The reasons to refuse the selection of an option are those that are     *)
(* meant.                                                                  *)
MeantRefusal(offer, sel, g, shown) ==
  IF shown
  THEN /\ Picked(sel, g) # {} \/ offer.required[g]
       /\ \/ Cardinality(Picked(sel, g)) < offer.minSelect[g]
          \/ Picked(sel, g) = {}
          \/ \E c \in Picked(sel, g) :
               c \notin DOMAIN offer.choices[g] \/ offer.choices[g][c] # "AVAILABLE"
  ELSE Picked(sel, g) # {} /\ g \in sel.explicit

\* Refuses and Meant agree about every option.
LEMMA RefusalIsMeant ==
  ASSUME NEW offer, MenuOK(offer), NEW sel, NEW g \in ToSet(offer.options),
         IsFiniteSet(Picked(sel, g)), NEW shown \in BOOLEAN
  PROVE  Refuses(offer, sel, g, shown) <=> MeantRefusal(offer, sel, g, shown)
<1>1. Cardinality(Picked(sel, g)) \in Nat /\ offer.minSelect[g] \in Nat
  BY FS_CardinalityType DEF MenuOK
<1>2. Picked(sel, g) \subseteq Pickable(offer, g) <=>
        ~\E c \in Picked(sel, g) :
           c \notin DOMAIN offer.choices[g] \/ offer.choices[g][c] # "AVAILABLE"
  BY DEF Pickable
<1>3. Cardinality(Picked(sel, g)) >= offer.minSelect[g] <=>
        ~(Cardinality(Picked(sel, g)) < offer.minSelect[g])
  BY <1>1
<1>. QED
  BY <1>2, <1>3 DEF Refuses, Droppable, ValidSelection, MeantRefusal

(* The walk computes what is meant.                                        *)
LEMMA WalkAgrees ==
  ASSUME NEW offer, MenuOK(offer), NEW sel,
         \A g \in ToSet(offer.options) : IsFiniteSet(Picked(sel, g))
  PROVE  /\ Agrees(offer, sel)
         /\ Validate(offer, sel).refused =>
              \/ (DOMAIN sel.picked \cap sel.explicit) \ ToSet(offer.options) # {}
              \/ \E g \in ToSet(offer.options) : Refuses(offer, sel, g, g \in Shown(offer, sel))
<1> DEFINE O == ToSet(offer.options)
           S == Shown(offer, sel)
           end == Walk(offer, sel)[Cardinality(Work(offer))]
           Strange == (DOMAIN sel.picked \cap sel.explicit) \ O # {}
           Bad == \E g \in O : Refuses(offer, sel, g, g \in S)
           results == [g \in O |-> IF g \in S THEN Picked(sel, g) ELSE {}]
<1>1. Decided(offer, sel, end) /\ Finished(offer, end)
  BY WalkEnds DEF WalkOK
<1>2. end.refused \in BOOLEAN /\ (end.refused => Bad)
  BY <1>1 DEF Decided
<1>3. ASSUME ~end.refused
      PROVE  ~Bad /\ end.resolved = results
  <2>1. end.done = Len(offer.options)
    BY <1>1, <1>3 DEF Finished
  <2>2. \A g \in O : \E i \in 1 .. Len(offer.options) : g = offer.options[i]
    BY DEF MenuOK, ToSet
  <2>3. DOMAIN end.resolved = O
    <3>1. DOMAIN end.resolved \subseteq O /\ \A i \in 1 .. Len(offer.options) : offer.options[i] \in DOMAIN end.resolved
      BY <1>1, <2>1 DEF Decided
    <3> HIDE DEF end
    <3>. QED
      BY <2>2, <3>1
  <2>4. end.resolved = [g \in O |-> end.resolved[g]]
    BY <1>1, <2>3 DEF Decided
  <2>5. \A g \in O : /\ end.resolved[g] = IF g \in S THEN Picked(sel, g) ELSE {}
                     /\ ~Refuses(offer, sel, g, g \in S)
    BY <1>1, <2>3 DEF Decided
  <2> HIDE DEF end, O, S
  <2>. QED
    BY <2>4, <2>5
<1>4. /\ Validate(offer, sel).refused = (end.refused \/ Strange)
      /\ Validate(offer, sel).accepted = end.resolved
  BY DEF Validate
<1>5. Validate(offer, sel).refused = (Bad \/ Strange)
  BY <1>2, <1>3, <1>4
<1>6. ~Validate(offer, sel).refused => Validate(offer, sel).accepted = results
  BY <1>3, <1>4
<1> DEFINE MeantBad == \E g \in O : MeantRefusal(offer, sel, g, g \in S)
           MeantStrange == \E g \in DOMAIN sel.picked \cap sel.explicit : g \notin O
<1>7. Bad <=> MeantBad
  <2>1. ASSUME NEW g \in O
        PROVE  Refuses(offer, sel, g, g \in S) <=> MeantRefusal(offer, sel, g, g \in S)
    <3>1. (g \in S) \in BOOLEAN
      OBVIOUS
    <3>. QED
      BY <3>1, RefusalIsMeant
  <2>. QED
    BY <2>1, Zenon
<1>8. Strange <=> MeantStrange
  OBVIOUS
<1>9. Meant(offer, sel) = [refused |-> MeantStrange \/ MeantBad, accepted |-> results]
  BY DEF Meant, MeantRefusal
<1> HIDE DEF Bad, Strange, MeantBad, MeantStrange, results
<1>10. /\ Meant(offer, sel).refused = (MeantStrange \/ MeantBad)
       /\ Meant(offer, sel).accepted = results
  BY <1>9
<1>11. Validate(offer, sel).refused = Meant(offer, sel).refused
  BY <1>5, <1>7, <1>8, <1>10
<1>12. Agrees(offer, sel)
  BY <1>6, <1>10, <1>11 DEF Agrees
<1>. QED
  BY <1>5, <1>12 DEF Bad, Strange

-----------------------------------------------------------------------------
(* A set that the rules of the menu cannot leave.                          *)
ClosedUnder(offer, sel, T) ==
  \A g \in ToSet(offer.options) \cap offer.enabled :
    (\A rule \in offer.trigger[g] : rule.on \in T /\ rule.choices \cap Picked(sel, rule.on) # {})
      => g \in T

\* Shown is the least set closed under the rules.
LEMMA ShownIsLeast ==
  ASSUME NEW offer, NEW sel
  PROVE  /\ ClosedUnder(offer, sel, Shown(offer, sel))
         /\ \A T \in SUBSET ToSet(offer.options) : ClosedUnder(offer, sel, T) => Shown(offer, sel) \subseteq T
<1>1. ClosedUnder(offer, sel, Shown(offer, sel))
  BY ShownFacts DEF ClosedUnder, Satisfied
<1>2. Shown(offer, sel) = {g \in ToSet(offer.options) :
                            \A T \in SUBSET ToSet(offer.options) : ClosedUnder(offer, sel, T) => g \in T}
  BY DEF Shown, ClosedUnder
<1>. QED
  BY <1>1, <1>2

(* There are finitely many rules.                                          *)
LEMMA RulesAreFinite == IsFiniteSet(Rules)
<1> DEFINE C == SUBSET ChoiceRows
           f == [rule \in Rules |-> <<rule.on, rule.choices>>]
<1>1. IsFiniteSet(Options) /\ IsFiniteSet(C)
  BY MenuAssumption, FS_SUBSET
<1>2. IsFiniteSet(Options \X C)
  BY <1>1, FS_Product
<1>3. \A rule \in Rules : rule = [on |-> rule.on, choices |-> rule.choices]
                         /\ rule.on \in Options /\ rule.choices \in C
  BY DEF Rules
<1>4. f \in [Rules -> Options \X C]
  BY <1>3
<1>5. ASSUME NEW r \in Rules, NEW q \in Rules, f[r] = f[q]
      PROVE  r = q
  <2>1. r.on = q.on /\ r.choices = q.choices
    BY <1>5
  <2>. QED
    BY <1>3, <2>1
<1>6. f \in Injection(Rules, Options \X C)
  BY <1>4, <1>5 DEF Injection, IsInjective
<1>. QED
  BY <1>2, <1>6, FS_Injection

(* A menu as an order reads it.                                            *)
LEMMA MenuAsIsOK ==
  ASSUME TypeOK, NEW order \in SetToSeqs(LiveOptions), NEW enabled
  PROVE  MenuOK(MenuAs(order, enabled)) /\ ToSet(order) \subseteq LiveOptions
<1> DEFINE n == Cardinality(LiveOptions)
           offer == MenuAs(order, enabled)
<1>1. LiveOptions \subseteq Options
  BY DEF LiveOptions
<1>2. n \in Nat
  BY <1>1, MenuAssumption, FS_Subset, FS_CardinalityType
<1>3. order \in [1 .. n -> LiveOptions]
  BY DEF SetToSeqs
<1> HIDE DEF n
<1>4. DOMAIN order = 1 .. n /\ ToSet(order) \subseteq LiveOptions
  BY <1>3 DEF ToSet
<1>5. order \in [1 .. n -> ToSet(order)]
  BY <1>3, <1>4 DEF ToSet
<1>6. order \in Seq(ToSet(order))
  BY <1>2, <1>5
<1>7. /\ offer.options = order
      /\ \A g \in ToSet(order) : /\ offer.trigger[g] = option[g].trigger
                                 /\ offer.minSelect[g] = option[g].minSelect
  BY DEF MenuAs
<1>8. ASSUME NEW g \in ToSet(order)
      PROVE  IsFiniteSet(offer.trigger[g]) /\ offer.minSelect[g] \in Nat
  <2>1. option[g] \in Row
    BY <1>1, <1>4, <1>8 DEF TypeOK
  <2>2. option[g].trigger \in SUBSET Rules /\ option[g].minSelect \in 0 .. Cardinality(ChoiceRows)
    BY <2>1 DEF Row
  <2>3. Cardinality(ChoiceRows) \in Nat
    BY MenuAssumption, FS_CardinalityType
  <2>4. IsFiniteSet(option[g].trigger)
    BY <2>2, RulesAreFinite, FS_Subset
  <2>. QED
    BY <1>7, <2>2, <2>3, <2>4
<1> HIDE DEF offer
<1>9. MenuOK(offer)
  BY <1>6, <1>7, <1>8 DEF MenuOK
<1>. QED
  BY <1>4, <1>9 DEF offer

\* A selection names finitely many choices.
LEMMA PickedIsFinite ==
  ASSUME NEW sel \in Selections, NEW g
  PROVE  IsFiniteSet(Picked(sel, g))
<1>1. sel.picked \in UNION {{p \in [gs -> SUBSET ChoiceRows] :
                              \A h \in gs : \A c \in p[h] : OptionOf[c] = h} : gs \in SUBSET Options}
  BY DEF Selections
<1>2. PICK gs \in SUBSET Options : sel.picked \in [gs -> SUBSET ChoiceRows]
  BY <1>1
<1>3. Picked(sel, g) \in SUBSET ChoiceRows
  BY <1>2 DEF Picked
<1>. QED
  BY <1>3, MenuAssumption, FS_Subset

\* Whatever the rows, validation is as meant.
LEMMA TypesValidate == TypeOK => ValidationIsAsMeant
<1> SUFFICES ASSUME TypeOK, NEW order \in SetToSeqs(LiveOptions), NEW enabled \in SUBSET LiveOptions,
                    NEW sel \in Selections
             PROVE  Agrees(MenuAs(order, enabled), sel)
  BY DEF ValidationIsAsMeant
<1>1. MenuOK(MenuAs(order, enabled))
  BY MenuAsIsOK
<1>2. \A g \in ToSet(MenuAs(order, enabled).options) : IsFiniteSet(Picked(sel, g))
  BY PickedIsFinite
<1>. QED
  BY <1>1, <1>2, WalkAgrees

(* SetToSeq lists the members of a finite set.                             *)
LEMMA ListsOptions ==
  SetToSeq(LiveOptions) \in SetToSeqs(LiveOptions) /\ ToSet(SetToSeq(LiveOptions)) = LiveOptions
<1> DEFINE m == Cardinality(LiveOptions)
<1>1. PICK L : L = LiveOptions
  OBVIOUS
<1>2. PICK f : f = SetToSeq(L)
  OBVIOUS
<1>3. IsFiniteSet(L) /\ m \in Nat /\ ExistsBijection(1 .. m, L) /\ m = Cardinality(L)
  <2>1. LiveOptions \in SUBSET Options
    BY DEF LiveOptions
  <2>. QED
    BY <1>1, <2>1, MenuAssumption, FS_Subset, FS_CardinalityType
<1> HIDE DEF m
<1>4. \E g \in [1 .. m -> L] : IsInjective(g)
  BY <1>3 DEF ExistsBijection, Bijection, Injection
<1>5. f \in [1 .. m -> L] /\ IsInjective(f)
  BY <1>2, <1>3, <1>4 DEF SetToSeq
<1>6. f \in Injection(1 .. m, L)
  BY <1>5 DEF Injection
<1>7. Cardinality(1 .. m) = m
  BY <1>3, FS_Interval
<1>8. f \in Surjection(1 .. m, L)
  BY <1>3, <1>6, <1>7, FS_Injection
<1>9. ToSet(f) = L
  BY <1>5, <1>8 DEF Surjection, ToSet
<1>10. f \in SetToSeqs(L)
  BY <1>3, <1>5 DEF SetToSeqs, IsInjective
<1>. QED
  BY <1>1, <1>2, <1>9, <1>10

Available(g) == {c \in ChoicesOf(g) : choice[c] = "AVAILABLE"}

(* What sound settings ask for is available, unless it is sold out.        *)
LEMMA SoundSettingsCanBeMet ==
  ASSUME TypeOK, NEW g \in LiveOptions, SettingsSound(g),
         \A c \in ChoicesOf(g) : choice[c] # "SOLD_OUT"
  PROVE  /\ Cardinality(Available(g)) >= option[g].minSelect
         /\ Available(g) = {} => ~option[g].required
<1> DEFINE states == StatesOf(ChoicesOf(g))
<1>1. \A c \in ChoicesOf(g) : choice[c] = "AVAILABLE" \/ choice[c] = "HIDDEN"
  BY DEF ChoicesOf, Live, ChoiceState
<1>2. DOMAIN states = ChoicesOf(g) /\ \A c \in ChoicesOf(g) : states[c] = choice[c]
  BY DEF StatesOf
<1>3. Available(g) = {c \in DOMAIN states : states[c] # "HIDDEN"}
  BY <1>1, <1>2 DEF Available
<1>4. Selectable(states) = Cardinality(Available(g))
  BY <1>3 DEF Selectable
<1>5. Consistent(option[g].required, option[g].minSelect, Cardinality(Available(g)))
  BY <1>4 DEF SettingsSound, LiveOptions
<1>6. option[g].minSelect \in Nat /\ option[g].required \in BOOLEAN
  <2>1. option[g] \in Row
    BY DEF TypeOK, LiveOptions
  <2>2. Cardinality(ChoiceRows) \in Nat
    BY MenuAssumption, FS_CardinalityType
  <2>. QED
    BY <2>1, <2>2 DEF Row
<1>7. IsFiniteSet(Available(g)) /\ Cardinality(Available(g)) \in Nat
  <2>1. Available(g) \in SUBSET ChoiceRows
    BY DEF Available, ChoicesOf
  <2>. QED
    BY <2>1, MenuAssumption, FS_Subset, FS_CardinalityType
<1>8. Available(g) = {} => Cardinality(Available(g)) = 0
  BY FS_EmptySet
<1>. QED
  BY <1>5, <1>6, <1>7, <1>8 DEF Consistent

\* Whatever the rows, picking all that is available is accepted.
LEMMA TypesCanBeOrdered == TypeOK => SoundMenuCanBeOrdered
<1> SUFFICES ASSUME TypeOK, NEW enabled \in SUBSET LiveOptions,
                    \A g \in LiveOptions :
                      SettingsSound(g) /\ \A c \in ChoicesOf(g) : choice[c] # "SOLD_OUT"
             PROVE  \E sel \in Selections :
                      /\ DOMAIN sel.picked = LiveOptions /\ sel.explicit = LiveOptions
                      /\ ~Validate(MenuAs(SetToSeq(LiveOptions), enabled), sel).refused
  BY DEF SoundMenuCanBeOrdered
<1> DEFINE L == LiveOptions
           order == SetToSeq(L)
           offer == MenuAs(order, enabled)
           every == [picked |-> [g \in L |-> Available(g)], explicit |-> L]
           S == Shown(offer, every)
           sel == [picked |-> [g \in L |-> IF g \in S THEN Available(g) ELSE {}], explicit |-> L]
<1>1. order \in SetToSeqs(L) /\ ToSet(order) = L
  BY ListsOptions
<1> HIDE DEF order
<1>2. MenuOK(offer)
  BY <1>1, MenuAsIsOK
<1>3. /\ ToSet(offer.options) = L /\ offer.enabled = enabled
      /\ \A g \in L : /\ offer.required[g] = option[g].required
                      /\ offer.minSelect[g] = option[g].minSelect
                      /\ offer.choices[g] = StatesOf(ChoicesOf(g))
  BY <1>1 DEF MenuAs
<1> HIDE DEF offer
<1>4. S \subseteq L
  BY <1>3, ShownFacts
<1>5. \A g \in L : Picked(every, g) = Available(g)
  BY DEF Picked
<1>6. every.explicit = L
  OBVIOUS
<1> HIDE DEF every, S
<1>7. /\ \A g \in L : Picked(sel, g) = IF g \in S THEN Available(g) ELSE {}
      /\ DOMAIN sel.picked = L /\ sel.explicit = L
  BY DEF Picked
<1>8. sel \in Selections
  <2>1. \A g \in L : Available(g) \in SUBSET ChoiceRows /\ \A c \in Available(g) : OptionOf[c] = g
    BY DEF Available, ChoicesOf
  <2>2. L \in SUBSET Options
    BY DEF LiveOptions
  <2>3. sel.picked \in {p \in [L -> SUBSET ChoiceRows] : \A g \in L : \A c \in p[g] : OptionOf[c] = g}
    BY <2>1
  <2> HIDE DEF L
  <2>4. sel.picked \in UNION {{p \in [gs -> SUBSET ChoiceRows] :
                      \A g \in gs : \A c \in p[g] : OptionOf[c] = g} : gs \in SUBSET Options}
    BY <2>2, <2>3
  <2>. QED
    BY <2>2, <2>4 DEF Selections
<1> HIDE DEF sel, L
<1>9. Shown(offer, sel) = S
  <2> DEFINE T == Shown(offer, sel)
  <2>1. T \subseteq L /\ ClosedUnder(offer, sel, T)
    BY <1>3, ShownFacts, ShownIsLeast
  <2>2. ClosedUnder(offer, every, S)
    BY ShownIsLeast DEF S
  <2> HIDE DEF T
  <2>3. ClosedUnder(offer, sel, S)
    BY <1>3, <1>4, <1>5, <1>7, <2>2 DEF ClosedUnder
  <2>4. T \subseteq S
    BY <1>3, <1>4, <2>3, ShownIsLeast DEF T
  <2>5. ClosedUnder(offer, every, T)
    BY <1>3, <1>4, <1>5, <1>7, <2>1, <2>4 DEF ClosedUnder
  <2>6. S \subseteq T
    BY <1>3, <2>1, <2>5, ShownIsLeast DEF S
  <2>. QED
    BY <2>4, <2>6 DEF T
<1>10. ASSUME NEW g \in L
       PROVE  ~Refuses(offer, sel, g, g \in S)
  <2>1. CASE g \notin S
    BY <1>7, <2>1 DEF Refuses, Droppable
  <2>2. CASE g \in S
    <3>1. Cardinality(Available(g)) >= option[g].minSelect /\ (Available(g) = {} => ~option[g].required)
      BY SoundSettingsCanBeMet DEF L
    <3>2. Available(g) \subseteq Pickable(offer, g)
      BY <1>3 DEF Available, Pickable, StatesOf
    <3>3. Picked(sel, g) = Available(g)
      BY <1>7, <2>2
    <3>4. ValidSelection(offer, g, Available(g))
      BY <1>3, <3>1, <3>2 DEF ValidSelection
    <3>. QED
      BY <1>3, <2>2, <3>1, <3>3, <3>4 DEF Refuses
  <2>. QED
    BY <2>1, <2>2
<1>11. \A g \in ToSet(offer.options) : IsFiniteSet(Picked(sel, g))
  BY <1>8, PickedIsFinite
<1>12. ~Validate(offer, sel).refused
  <2>1. (DOMAIN sel.picked \cap sel.explicit) \ ToSet(offer.options) = {}
    BY <1>3, <1>7
  <2>. QED
    BY <1>2, <1>3, <1>9, <1>10, <1>11, <2>1, WalkAgrees
<1>. QED
  BY <1>7, <1>8, <1>12 DEF offer, order, L

(* ValidationIsAsMeant (resolve, acceptedChoiceIdsOf and their cache), for *)
(* every menu that can be reached, every order of its options and every    *)
(* selection: the walk decides every option as its rules mean it, and ends.*)
THEOREM OrdersAreValidated == Spec => []ValidationIsAsMeant
BY MenuTypes, TypesValidate, PTL

(* SoundMenuCanBeOrdered (countSelectableChoices and                       *)
(* assertChoiceSelectable): picking every available choice of the options  *)
(* shown is accepted.                                                      *)
THEOREM SoundMenusAreOrdered == Spec => []SoundMenuCanBeOrdered
BY MenuTypes, TypesCanBeOrdered, PTL

\* A listing without repetition of a finite set lists all of it.
LEMMA ListingIsComplete ==
  ASSUME NEW order \in SetToSeqs(LiveOptions)
  PROVE  ToSet(order) = LiveOptions
<1>1. PICK L : L = LiveOptions
  OBVIOUS
<1>2. PICK m : m = Cardinality(L)
  OBVIOUS
<1>3. IsFiniteSet(L) /\ m \in Nat
  <2>1. LiveOptions \in SUBSET Options
    BY DEF LiveOptions
  <2>. QED
    BY <1>1, <1>2, <2>1, MenuAssumption, FS_Subset, FS_CardinalityType
<1>4. /\ order \in [1 .. m -> L]
      /\ \A i, j \in 1 .. m : i # j => order[i] # order[j]
  BY <1>1, <1>2 DEF SetToSeqs
<1>5. order \in Injection(1 .. m, L)
  BY <1>4 DEF Injection, IsInjective
<1>6. Cardinality(1 .. m) = m
  BY <1>3, FS_Interval
<1>7. order \in Surjection(1 .. m, L)
  BY <1>2, <1>3, <1>5, <1>6, FS_Injection
<1>. QED
  BY <1>1, <1>4, <1>7 DEF Surjection, ToSet

(* The same selection gets the same answer however the options are         *)
(* displayed, although resolve goes through them in that order.            *)
SameForEveryDisplay ==
  \A one, other \in SetToSeqs(LiveOptions) : \A enabled \in SUBSET LiveOptions :
  \A sel \in Selections :
    LET a == Validate(MenuAs(one, enabled), sel)
        b == Validate(MenuAs(other, enabled), sel) IN
    a.refused = b.refused /\ (~a.refused => a.accepted = b.accepted)

\* What is meant does not depend on the display.
LEMMA TypesIgnoreDisplay == TypeOK => SameForEveryDisplay
<1> SUFFICES ASSUME TypeOK, NEW one \in SetToSeqs(LiveOptions), NEW other \in SetToSeqs(LiveOptions),
                    NEW enabled \in SUBSET LiveOptions, NEW sel \in Selections,
                    NEW a, a = MenuAs(one, enabled), NEW b, b = MenuAs(other, enabled)
             PROVE  /\ Validate(a, sel).refused = Validate(b, sel).refused
                    /\ ~Validate(a, sel).refused => Validate(a, sel).accepted = Validate(b, sel).accepted
  BY DEF SameForEveryDisplay
<1>1. Agrees(a, sel) /\ Agrees(b, sel)
  <2>1. MenuOK(a) /\ MenuOK(b)
    BY MenuAsIsOK
  <2>. QED
    BY <2>1, PickedIsFinite, WalkAgrees
<1>2. /\ ToSet(a.options) = ToSet(b.options) /\ a.enabled = b.enabled
      /\ a.required = b.required /\ a.minSelect = b.minSelect /\ a.trigger = b.trigger
      /\ a.choices = b.choices
  BY ListingIsComplete DEF MenuAs
<1>3. Shown(a, sel) = Shown(b, sel)
  BY <1>2 DEF Shown
<1>4. Meant(a, sel) = Meant(b, sel)
  BY <1>2, <1>3 DEF Meant
<1>. QED
  BY <1>1, <1>4 DEF Agrees

(* SameForEveryDisplay (the forEach over the options), for every menu that *)
(* can be reached.                                                         *)
THEOREM DisplayIsIrrelevant == Spec => []SameForEveryDisplay
BY MenuTypes, TypesIgnoreDisplay, PTL
============================================================================

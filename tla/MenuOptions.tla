---------------------------- MODULE MenuOptions -----------------------------
(***************************************************************************)
(* The options of one menu and their choices, as the owner edits them      *)
(* (menu-option.service.ts, menu-option-choice.service.ts).                *)
(*                                                                         *)
(* Every edit is one REPEATABLE READ transaction: it reads the snapshot of *)
(* its first read, checks it, and writes single columns of single rows by  *)
(* their id.  So it is two steps, a Begin that computes the writes and a   *)
(* Commit that applies them to the rows as they are by then; owners edit   *)
(* on several devices, and other transactions commit in between.           *)
(*                                                                         *)
(* Left out: maxSelect and the defaults with their checks (a refused edit  *)
(* changes nothing), and names, prices and display order.                  *)
(***************************************************************************)
EXTENDS Naturals, FiniteSets

CONSTANTS
  Options,        \* rows of menu_option_group, by their publicId
  ChoiceRows,     \* rows of menu_option_choice
  OptionOf,       \* the option a choice is, or would be, created in
  Requests,
  PayloadStates,  \* bound: the states that payloads name for each choice
  PayloadColumns, \* bound: the sets of columns that updates of an option name
  MaxRules,       \* bound: the rules of the triggers the payloads name
  Triggers,       \* the aspect of the menu that is not one option's own
  Keep            \* in a transaction's writes: not written

ChoiceState == {"AVAILABLE", "SOLD_OUT", "HIDDEN"}
Settings == {"required", "minSelect"}

(* A trigger is a conjunction of rules; a rule wants one of its choices.     *)
Rules == [on : Options, choices : (SUBSET ChoiceRows) \ {{}}]

ASSUME MenuAssumption ==
  IsFiniteSet(Options) /\ IsFiniteSet(ChoiceRows)
  /\ Options # {} /\ OptionOf \in [ChoiceRows -> Options]
ASSUME PayloadAssumption ==
  /\ PayloadStates \in [ChoiceRows -> SUBSET ChoiceState]
  /\ PayloadColumns \subseteq SUBSET (Settings \cup {"trigger"})
ASSUME TriggersAssumption == Triggers \notin Options
ASSUME KeepAssumption ==
  /\ Keep \notin ChoiceState \cup {"deleted"} /\ \A trigger \in SUBSET Rules : Keep # trigger
  /\ Keep \notin BOOLEAN /\ Keep \notin 0 .. Cardinality(ChoiceRows)

VARIABLES
  option,    \* [Options -> row]
  choice,    \* [ChoiceRows -> state, or why there is no row]
  tx         \* [Requests -> transaction]

vars == <<option, choice, tx>>

-----------------------------------------------------------------------------
Row == [life : {"unborn", "live", "deleted"}, required : BOOLEAN,
        minSelect : 0 .. Cardinality(ChoiceRows), trigger : SUBSET Rules]
Unborn == [life |-> "unborn", required |-> FALSE, minSelect |-> 0, trigger |-> {}]
Gone == [Unborn EXCEPT !.life = "deleted"]

(* A transaction: what becomes of the row `on' and the columns of it that    *)
(* are written, the triggers and choices that are written, what its checks   *)
(* depend on, and what of that has changed since its snapshot.               *)
Transaction ==
  [kind : {"none", "make", "edit", "drop"}, on : Options,
   required : {Keep} \cup BOOLEAN,
   minSelect : {Keep} \cup (0 .. Cardinality(ChoiceRows)),
   triggers : [Options -> {Keep} \cup SUBSET Rules],
   choices : [ChoiceRows -> {Keep, "deleted"} \cup ChoiceState],
   relies : SUBSET (Options \cup {Triggers}),
   outdated : SUBSET (Options \cup {Triggers})]

Idle(g) ==
  [kind |-> "none", on |-> g, required |-> Keep, minSelect |-> Keep,
   triggers |-> [h \in Options |-> Keep], choices |-> [c \in ChoiceRows |-> Keep],
   relies |-> {}, outdated |-> {}]
NoWrites == Idle(CHOOSE g \in Options : TRUE)

Live(c) == choice[c] \in ChoiceState
LiveOptions == {g \in Options : option[g].life = "live"}
ChoicesOf(g) == {c \in ChoiceRows : OptionOf[c] = g /\ Live(c)}

InFlight == {r \in Requests : tx[r].kind # "none"}
NewChoices == {c \in ChoiceRows :
                 choice[c] = "unborn" /\ \A r \in InFlight : tx[r].choices[c] = Keep}
NewOptions == {g \in Options :
                 option[g].life = "unborn" /\ \A r \in InFlight : tx[r].on # g}

-----------------------------------------------------------------------------
AsTheyAre == [required |-> Keep, minSelect |-> Keep]

(* Mutated forms of the definitions below.                                   *)
AllOfThem(states) == Cardinality(DOMAIN states)
NoCycleFound(g, trigger) == FALSE
LoweredAlone(min, selectable) ==
  IF selectable >= min THEN AsTheyAre ELSE [AsTheyAre EXCEPT !.minSelect = selectable]

(* countSelectableChoices                                                    *)
Selectable(states) == Cardinality({c \in DOMAIN states : states[c] # "HIDDEN"})
StatesOf(cs) == [c \in cs |-> choice[c]]

(* assertGroupConstraints: what of it is about these columns.                *)
Consistent(required, min, selectable) == (required <=> min >= 1) /\ min <= selectable

(* The correction when fewer choices than minSelect are left.                *)
Lowered(min, selectable) ==
  IF selectable >= min THEN AsTheyAre
  ELSE [required |-> IF selectable = 0 THEN FALSE ELSE Keep, minSelect |-> selectable]

(* assertNoTriggerCycle: a cycle that can be reached from g, were its        *)
(* trigger the new one.                                                      *)
ReachesCycle(g, trigger) ==
  LET next == [h \in Options |->
                 {rule.on : rule \in IF h = g THEN trigger ELSE option[h].trigger}]
      reached == {h \in Options : \A S \in SUBSET Options :
                    (g \in S /\ \A k \in S : next[k] \subseteq S) => h \in S}
  IN \E S \in (SUBSET reached) \ {{}} : \A h \in S : next[h] \cap S # {}

(* assertTriggerIsValid; an option that is yet to be created closes none.    *)
ValidRule(g, rule) ==
  rule.on # g /\ rule.on \in LiveOptions /\ rule.choices \subseteq ChoicesOf(rule.on)
ValidTriggers(g) ==
  {trigger \in SUBSET {rule \in Rules : ValidRule(g, rule)} :
     /\ Cardinality(trigger) <= MaxRules
     /\ g \in LiveOptions => ~ReachesCycle(g, trigger)}

(* pruneTriggersReferencing: the trigger without the choices, or without the *)
(* option when no choice is named; rewritten wherever a rule is on it.       *)
Pruned(trigger, g, gone) ==
  {rule \in {[rule EXCEPT !.choices = IF rule.on = g THEN @ \ gone ELSE @] :
               rule \in trigger} : rule.choices # {}}
Rewritten(g) == {h \in LiveOptions \ {g} : \E rule \in option[h].trigger : rule.on = g}
PrunedTriggers(g, gone) ==
  [h \in Options |-> IF h \in Rewritten(g) THEN Pruned(option[h].trigger, g, gone)
                      ELSE Keep]

-----------------------------------------------------------------------------
Init ==
  /\ option = [g \in Options |-> Unborn]
  /\ choice = [c \in ChoiceRows |-> "unborn"]
  /\ tx = [r \in Requests |-> NoWrites]

Begin(r, writes) ==
  /\ tx[r].kind = "none"
  /\ tx' = [tx EXCEPT ![r] = writes]
  /\ UNCHANGED <<option, choice>>

Creation(g, states, required, min, trigger) ==
  [Idle(g) EXCEPT
     !.kind = "make", !.required = required, !.minSelect = min, !.triggers[g] = trigger,
     !.choices = [c \in ChoiceRows |-> IF c \in DOMAIN states THEN states[c] ELSE Keep],
     !.relies = IF trigger = {} THEN {} ELSE {Triggers}]
CreateOption(r) ==
  \E g \in NewOptions :
  \E cs \in (SUBSET {c \in NewChoices : OptionOf[c] = g}) \ {{}} :
  \E states \in [cs -> ChoiceState], required \in BOOLEAN, min \in 0 .. Cardinality(cs),
     trigger \in ValidTriggers(g) :
    /\ \A c \in cs : states[c] \in PayloadStates[c]
    /\ Consistent(required, min, Selectable(states))
    /\ Begin(r, Creation(g, states, required, min, trigger))

(* The payload is merged with the stored settings and the result is checked, *)
(* whatever the payload names; what it names is written.                     *)
Edition(g, named, required, min, trigger) ==
  [Idle(g) EXCEPT
     !.kind = "edit",
     !.required = IF "required" \in named THEN required ELSE Keep,
     !.minSelect = IF "minSelect" \in named THEN min ELSE Keep,
     !.triggers[g] = IF "trigger" \in named THEN trigger ELSE Keep,
     !.relies = (IF named \cap Settings = {} THEN {} ELSE {g})
                  \cup (IF trigger = {} THEN {} ELSE {Triggers})]
UpdateOption(r) ==
  \E g \in LiveOptions : \E named \in PayloadColumns :
  \E required \in BOOLEAN, min \in 0 .. Cardinality(ChoicesOf(g)),
     trigger \in IF "trigger" \in named THEN ValidTriggers(g) ELSE {{}} :
    /\ "required" \notin named => required = option[g].required
    /\ "minSelect" \notin named => min = option[g].minSelect
    /\ Consistent(required, min, Selectable(StatesOf(ChoicesOf(g))))
    /\ Begin(r, Edition(g, named, required, min, trigger))

DeleteOption(r) ==
  \E g \in LiveOptions :
    Begin(r, [Idle(g) EXCEPT !.kind = "drop", !.triggers = PrunedTriggers(g, ChoiceRows),
                             !.relies = {Triggers}])

CreateChoice(r) ==
  \E c \in NewChoices : \E state \in PayloadStates[c] :
    /\ OptionOf[c] \in LiveOptions
    /\ Begin(r, [Idle(OptionOf[c]) EXCEPT !.kind = "edit", !.choices[c] = state])

UpdateChoice(r) ==
  \E c \in ChoiceRows : \E state \in PayloadStates[c] :
    LET g == OptionOf[c]
        left == [StatesOf(ChoicesOf(g)) EXCEPT ![c] = state]
        settings == IF state = choice[c] THEN AsTheyAre
                    ELSE Lowered(option[g].minSelect, Selectable(left)) IN
    /\ Live(c)
    /\ Begin(r, [Idle(g) EXCEPT
         !.kind = "edit", !.choices[c] = state, !.relies = {g},
         !.required = settings.required, !.minSelect = settings.minSelect])

DeleteChoice(r) ==
  \E c \in ChoiceRows :
    LET g == OptionOf[c]
        left == StatesOf(ChoicesOf(g) \ {c})
        settings == Lowered(option[g].minSelect, Selectable(left)) IN
    /\ Live(c)
    /\ ChoicesOf(g) # {c}                    \* MENU_OPTION_LAST_CHOICE
    /\ Begin(r, [Idle(g) EXCEPT
         !.kind = "edit", !.choices[c] = "deleted",
         !.required = settings.required, !.minSelect = settings.minSelect,
         !.triggers = PrunedTriggers(g, {c}), !.relies = {g, Triggers}])

-----------------------------------------------------------------------------
(* A write finds its row by its id, and finds nothing when the row is gone.  *)
Written(new, old) == IF new = Keep THEN old ELSE new
Stored(row, g, w) ==
  [life |-> "live",
   required |-> IF g = w.on THEN Written(w.required, row.required) ELSE row.required,
   minSelect |-> IF g = w.on THEN Written(w.minSelect, row.minSelect) ELSE row.minSelect,
   trigger |-> Written(w.triggers[g], row.trigger)]

(* What the commit has changed for the transactions still open.              *)
Changed ==
  {g \in Options :
     \/ \E s \in Settings : option'[g][s] # option[g][s]
     \/ \E c \in ChoiceRows : OptionOf[c] = g /\ choice'[c] # choice[c]}
  \cup {t \in {Triggers} :
          \/ \E g \in Options : option'[g].trigger # option[g].trigger
          \/ \E g \in LiveOptions : option'[g].life # "live"
          \/ \E c \in ChoiceRows : Live(c) /\ choice'[c] = "deleted"}

(* A new choice needs its option (foreign key); a dropped option takes its   *)
(* choices along (ON DELETE CASCADE).                                        *)
Commit(r) ==
  LET w == tx[r]
      makes(g) == w.kind = "make" /\ g = w.on
      drops(g) == w.kind = "drop" /\ g = w.on IN
  /\ w.kind # "none"
  /\ \A c \in ChoiceRows : (w.choices[c] # Keep /\ choice[c] = "unborn") =>
       OptionOf[c] \in LiveOptions \/ makes(OptionOf[c])
  /\ option' = [g \in Options |->
       IF drops(g) THEN Gone
       ELSE IF g \in LiveOptions \/ makes(g) THEN Stored(option[g], g, w)
       ELSE option[g]]
  /\ choice' = [c \in ChoiceRows |->
       IF drops(OptionOf[c]) /\ Live(c) THEN "deleted"
       ELSE IF choice[c] = "deleted" THEN "deleted"
       ELSE Written(w.choices[c], choice[c])]
  /\ tx' = [q \in Requests |->
       IF q = r THEN NoWrites
       ELSE [tx[q] EXCEPT !.outdated = @ \cup (tx[q].relies \cap Changed)]]

(* A deadlock, a timeout, a duplicate name, or a row found missing.          *)
Abort(r) ==
  /\ tx[r].kind # "none"
  /\ tx' = [tx EXCEPT ![r] = NoWrites]
  /\ UNCHANGED <<option, choice>>

Next == \E r \in Requests :
  \/ CreateOption(r) \/ UpdateOption(r) \/ DeleteOption(r)
  \/ CreateChoice(r) \/ UpdateChoice(r) \/ DeleteChoice(r)
  \/ Commit(r) \/ Abort(r)

Spec == Init /\ [][Next]_vars

-----------------------------------------------------------------------------
(* The variables' types; in particular no rule is without a choice or on its *)
(* own option (the columns of menu_option_group).                            *)
TypeOK ==
  /\ option \in [Options -> Row]
  /\ choice \in [ChoiceRows -> ChoiceState \cup {"unborn", "deleted"}]
  /\ tx \in [Requests -> Transaction]
  /\ \A g \in Options : \A rule \in option[g].trigger : rule.on # g

SettingsSound(g) ==
  option[g].life = "live" =>
    /\ ChoicesOf(g) # {}
    /\ Consistent(option[g].required, option[g].minSelect,
                  Selectable(StatesOf(ChoicesOf(g))))

TriggersRefer ==
  \A g \in LiveOptions : \A rule \in option[g].trigger :
    rule.on \in LiveOptions /\ rule.choices \subseteq ChoicesOf(rule.on)

(* "The graph there is already is acyclic" (menu-option-trigger.ts), which   *)
(* is why assertNoTriggerCycle starts from the changed option only.          *)
TriggersAcyclic ==
  ~\E S \in (SUBSET LiveOptions) \ {{}} :
     \A g \in S : \E rule \in option[g].trigger : rule.on \in S

CommitsFresh(aspect) ==
  \A r \in Requests : (tx[r].kind # "none" /\ tx'[r].kind = "none") =>
                         aspect \notin tx[r].outdated

(* A required option asks for at least one choice, no option asks for more   *)
(* than customers can see or is left without a choice: a commit can break    *)
(* that only if the option changed between the transaction's read and it.    *)
(* (The correction of minSelect in updateChoice and deleteChoice, and the    *)
(* merged check of updateOption, next to creations and prunings.)            *)
FreshCommitsKeepSettings ==
  [][\A g \in Options :
       (SettingsSound(g) /\ CommitsFresh(g)) => SettingsSound(g)']_vars

(* No rule refers to an option or a choice that is gone, and the triggers    *)
(* have no cycle: a commit can break that only if some trigger changed, or   *)
(* something was deleted, between the transaction's read and it.             *)
(* (assertTriggerIsValid and pruneTriggersReferencing.)                      *)
FreshCommitsKeepTriggers ==
  [][(TriggersRefer /\ TriggersAcyclic /\ CommitsFresh(Triggers)) =>
       (TriggersRefer /\ TriggersAcyclic)']_vars
=============================================================================

-------------------------- MODULE OptionSelection ---------------------------
(***************************************************************************)
(* How the options of an order item are checked against the menu           *)
(* (common/validate/menu/options.ts): an option that is disabled, or whose *)
(* trigger is not satisfied, is not shown; what is shown must be answered. *)
(* Whether a trigger is satisfied depends on what was accepted of other    *)
(* options, which are therefore resolved on demand, in whatever order the  *)
(* options are displayed.                                                  *)
(*                                                                         *)
(*   menu: options, a sequence; enabled, a set of them; required,          *)
(*         minSelect, trigger, functions on them; choices, the choice      *)
(*         states of each                                                  *)
(*   sel:  picked, from the options that are named to sets of choices;     *)
(*         explicit, the options named by the request itself and not       *)
(*         merged in from what is stored                                   *)
(*                                                                         *)
(* An exception is the flag `refused'.  Left out: quantities, maxSelect,   *)
(* prices, and which of several complaints is the one reported.            *)
(***************************************************************************)
EXTENDS Naturals, FiniteSets, Sequences, SequencesExt

Picked(sel, g) == IF g \in DOMAIN sel.picked THEN sel.picked[g] ELSE {}

(* Mutated forms of the definitions below.                                   *)
AcceptedIsPicked(run, sel, g) == Picked(sel, g)

(* The state of a validation: the calls of resolveGroup that have not        *)
(* returned, the last one on top, each with the rules of its trigger that    *)
(* `every' has yet to find satisfied; the results so far, {} for an option   *)
(* without a snapshot; how many options of the display are done; and whether *)
(* an exception has been thrown.                                             *)
Start == [calls |-> <<>>, resolved |-> [g \in {} |-> {}], done |-> 0, refused |-> FALSE]

Visiting(run) == {run.calls[i].option : i \in DOMAIN run.calls}
Accepted(run, sel, g) == run.resolved[g]                  \* acceptedChoiceIdsOf
Met(run, sel, rule) == rule.choices \cap Accepted(run, sel, rule.on) # {}
Droppable(sel, g) == Picked(sel, g) = {} \/ g \notin sel.explicit
Pickable(menu, g) ==                                      \* assertChoiceSelectable
  {c \in DOMAIN menu.choices[g] : menu.choices[g][c] = "AVAILABLE"}
ValidSelection(menu, g, picked) ==                        \* validateGroupSelection
  Cardinality(picked) >= menu.minSelect[g] /\ picked \subseteq Pickable(menu, g)
Refuses(menu, sel, g, shown) ==
  LET picked == Picked(sel, g) IN
  IF ~shown THEN ~Droppable(sel, g)
  ELSE IF picked = {} THEN menu.required[g]
  ELSE ~ValidSelection(menu, g, picked)

(* resolve: a call for an option without a result.                           *)
Call(menu, run, g) ==
  [run EXCEPT !.calls = Append(@, [option |-> g, rules |-> menu.trigger[g]])]

(* The call on top returns, or throws.                                       *)
Return(menu, sel, run, shown) ==
  LET g == Last(run.calls).option IN
  IF Refuses(menu, sel, g, shown) THEN [run EXCEPT !.refused = TRUE]
  ELSE [run EXCEPT !.calls = Front(@),
                   !.resolved = [h \in DOMAIN @ \cup {g} |->
                                   IF h # g THEN @[h]
                                   ELSE IF shown THEN Picked(sel, g) ELSE {}]]

(* The call on top looks at one more rule: one on an option that is being    *)
(* resolved (a cycle) or does not exist is not satisfied, and the rules      *)
(* after one that is not satisfied are not looked at.                        *)
Look(menu, sel, run) ==
  LET top == Last(run.calls)
      rule == CHOOSE r \in top.rules : TRUE IN
  CASE top.option \notin menu.enabled -> Return(menu, sel, run, FALSE)
    [] top.option \in menu.enabled /\ top.rules = {} -> Return(menu, sel, run, TRUE)
    [] OTHER ->
       IF rule.on \in Visiting(run) \/ rule.on \notin ToSet(menu.options)
       THEN Return(menu, sel, run, FALSE)
       ELSE IF rule.on \notin DOMAIN run.resolved THEN Call(menu, run, rule.on)
       ELSE IF ~Met(run, sel, rule) THEN Return(menu, sel, run, FALSE)
       ELSE [run EXCEPT !.calls[Len(run.calls)].rules = @ \ {rule}]

(* The options are resolved in the order of the display.                     *)
Step(menu, sel, run) ==
  IF run.refused THEN run
  ELSE IF run.calls # <<>> THEN Look(menu, sel, run)
  ELSE IF run.done = Len(menu.options) THEN run
  ELSE LET g == menu.options[run.done + 1] IN
       IF g \in DOMAIN run.resolved THEN [run EXCEPT !.done = @ + 1]
       ELSE Call(menu, run, g)

(* As many steps as there can be: a call and a return of each option, a look *)
(* at each rule, and the display's own.                                      *)
Work(menu) ==
  ({"display"} \X DOMAIN menu.options) \cup ({"call", "return"} \X ToSet(menu.options))
  \cup UNION {{"rule"} \X {g} \X menu.trigger[g] : g \in ToSet(menu.options)}

(* getValidatedMenuOptionsSnapshot                                           *)
Walk(menu, sel) ==
  LET run[n \in Nat] == IF n = 0 THEN Start ELSE Step(menu, sel, run[n - 1]) IN run
Validate(menu, sel) ==
  LET end == Walk(menu, sel)[Cardinality(Work(menu))] IN
  [refused |-> end.refused
                 \/ (DOMAIN sel.picked \cap sel.explicit) \ ToSet(menu.options) # {},
   accepted |-> end.resolved]

-----------------------------------------------------------------------------
(* What the algorithm is meant to compute.  The options shown are the least  *)
(* set that contains every enabled option whose rules each find one of their *)
(* choices picked in an option that is itself shown: options on a cycle wait *)
(* for each other and are not shown.                                         *)
Shown(menu, sel) ==
  LET options == ToSet(menu.options)
      Holds(rule, S) == rule.on \in S /\ rule.choices \cap Picked(sel, rule.on) # {}
      Closed(S) == \A g \in options \cap menu.enabled :
                     (\A rule \in menu.trigger[g] : Holds(rule, S)) => g \in S IN
  {g \in options : \A S \in SUBSET options : Closed(S) => g \in S}

Meant(menu, sel) ==
  LET shown == Shown(menu, sel) IN
  [refused |->
     \/ \E g \in DOMAIN sel.picked \cap sel.explicit : g \notin ToSet(menu.options)
     \/ \E g \in ToSet(menu.options) :
          IF g \in shown
          THEN /\ Picked(sel, g) # {} \/ menu.required[g]
               /\ \/ Cardinality(Picked(sel, g)) < menu.minSelect[g]
                  \/ Picked(sel, g) = {}
                  \/ \E c \in Picked(sel, g) :
                       c \notin DOMAIN menu.choices[g] \/ menu.choices[g][c] # "AVAILABLE"
          ELSE Picked(sel, g) # {} /\ g \in sel.explicit,
   accepted |-> [g \in ToSet(menu.options) |-> IF g \in shown THEN Picked(sel, g) ELSE {}]]

Agrees(menu, sel) ==
  LET code == Validate(menu, sel)
      meant == Meant(menu, sel) IN
  code.refused = meant.refused /\ (~code.refused => code.accepted = meant.accepted)
=============================================================================

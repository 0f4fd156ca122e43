---------------------------- MODULE MenuOrdering ----------------------------
(***************************************************************************)
(* Customers order from the menu that the owner is editing: the validation *)
(* of OptionSelection applied to every menu that MenuOptions can reach,    *)
(* the broken ones included.                                               *)
(***************************************************************************)
EXTENDS MenuOptions, OptionSelection

(* The menu as the order reads it (MENU_VALIDATION_FIELDS_SELECT), for an    *)
(* order of display and for any options switched off.                        *)
MenuAs(order, enabled) ==
  [options |-> order, enabled |-> enabled,
   required |-> [g \in ToSet(order) |-> option[g].required],
   minSelect |-> [g \in ToSet(order) |-> option[g].minSelect],
   trigger |-> [g \in ToSet(order) |-> option[g].trigger],
   choices |-> [g \in ToSet(order) |-> StatesOf(ChoicesOf(g))]]

Selections ==
  [picked : UNION {{p \in [gs -> SUBSET ChoiceRows] :
                      \A g \in gs : \A c \in p[g] : OptionOf[c] = g} : gs \in SUBSET Options},
   explicit : SUBSET Options]

(* An order reads committed rows: transactions in flight add nothing.        *)
AtRest == InFlight = {}

(* However the options are displayed and whatever cycle or dangling rule     *)
(* stale commits have left, the validation shows the least set of options    *)
(* their rules allow and accepts exactly the selections that answer them     *)
(* (resolve and acceptedChoiceIdsOf, with their cache and their stop at a    *)
(* cycle).                                                                   *)
ValidationIsAsMeant ==
  AtRest =>
    \A order \in SetToSeqs(LiveOptions) : \A enabled \in SUBSET LiveOptions :
    \A sel \in Selections : Agrees(MenuAs(order, enabled), sel)

(* A menu whose options' own settings are sound can be ordered, even one     *)
(* with broken triggers: some selection is accepted, unless too many choices *)
(* are sold out (countSelectableChoices counts those, assertChoiceSelectable *)
(* refuses them).                                                            *)
SoundMenuCanBeOrdered ==
  (AtRest /\ \A g \in LiveOptions :
     SettingsSound(g) /\ \A c \in ChoicesOf(g) : choice[c] # "SOLD_OUT") =>
  \A enabled \in SUBSET LiveOptions :
    \E sel \in Selections :
      /\ DOMAIN sel.picked = LiveOptions /\ sel.explicit = LiveOptions
      /\ ~Validate(MenuAs(SetToSeq(LiveOptions), enabled), sel).refused
=============================================================================

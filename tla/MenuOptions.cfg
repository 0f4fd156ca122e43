\* Two owners' devices edit one menu.
SPECIFICATION Spec
CONSTANTS
  A = A
  B = B
  a1 = a1
  a2 = a2
  b1 = b1
  Options = {A, B}
  ChoiceRows = {a1, a2, b1}
  OptionOf <- MCOptionOf
  Requests = {r1, r2}
  PayloadStates <- MCPayloadStates
  PayloadColumns = {{"minSelect"}, {"required", "minSelect"}, {"trigger"}}
  MaxRules = 1
  Triggers = Triggers
  Keep = Keep
CONSTRAINT StillSound
SYMMETRY Symmetry
INVARIANTS
  ValidationIsAsMeant
  SoundMenuCanBeOrdered
PROPERTIES
  FreshCommitsKeepSettings
  FreshCommitsKeepTriggers
CHECK_DEADLOCK FALSE

\* Two calls per window, four requests of any kind on one set of photographs.
\* What is read from them: up to three items, two of which are kept, for stores of up to two categories.
SPECIFICATION DraftSpec
CONSTANTS
  Drafts = {d1}
  Senders = {r1, r2, r3, r4}
  RateLimit = 2
  Nobody = Nobody
  tea = tea
  TEA = TEA
  teaaa = teaaa
  c1 = c1
  c2 = c2
  Names = {tea, TEA, teaaa}
  Key <- MCKey
  Cut <- MCCut
  TooLong = {teaaa}
  Ids = {c1, c2}
  MaxItems = 2
  Nothing = Nothing
  Extractions <- MCExtractions
  Stores <- MCStores
SYMMETRY Symmetry
INVARIANTS
  CounterAccounts
  BudgetKept
  
  SavedAsShown
  CommittedAsShown
PROPERTIES
  EditsSurvive
CHECK_DEADLOCK FALSE

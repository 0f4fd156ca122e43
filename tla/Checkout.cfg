\* One line in the cart, room for a second and a third; three requests, and so at most three more writes.
SPECIFICATION Spec
CONSTANTS
  Requests = {r1, r2, r3}
  Lines = {l1, l2, l3}
  Fingerprints = {fA, fB}
  MaxQuantity = 2
  MaxVersion = 4
  Null = Null
SYMMETRY Symmetry
INVARIANTS
  NoLostUpdate
  SuccessMeansSettled
PROPERTIES
  RefinesIntake
CHECK_DEADLOCK FALSE

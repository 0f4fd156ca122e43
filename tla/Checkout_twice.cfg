\* Three requests, a cart of one line with room for a second, every quantity one.
SPECIFICATION Spec
CONSTANTS
  Requests = {r1, r2, r3}
  Lines = {l1, l2}
  Fingerprints = {fA, fB}
  MaxQuantity = 1
  MaxVersion = 4
  Null = Null
SYMMETRY Symmetry
INVARIANTS
  NothingOrderedTwice
CHECK_DEADLOCK FALSE

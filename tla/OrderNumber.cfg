\* Four requests, two keys and the owner's; a retry limit that three others reach.
SPECIFICATION Spec
CONSTANTS
  Requests = {r1, r2, r3, r4}
  Keys = {kA, kB}
  MaxRetry = 2
  Null = Null
SYMMETRY Symmetry
INVARIANTS
  NumbersAreConsecutive
  OneOrderPerKey
  ConflictAfterLosingAll
CHECK_DEADLOCK FALSE

\* Four requests, room for three sessions, a clock that passes both expiries.
SPECIFICATION Spec
CONSTANTS
  Sessions = {s1, s2, s3}
  Requests = {r1, r2, r3, r4}
  WaitTtl = 1
  ActiveTtl = 2
  ExtendBy = 1
  MaxTime = 3
  Null = Null
SYMMETRY Symmetry
INVARIANTS
  OrderedIsNotWaiting
  SplitNeedsOverlap
PROPERTIES
  ClosedChangesHaveCause
CHECK_DEADLOCK FALSE

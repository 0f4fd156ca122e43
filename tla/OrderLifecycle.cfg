\* One order with one or two items, three concurrent requests.
SPECIFICATION FairSpec
CONSTANTS
  Orders = {o1}
  Items = {i1, i2}
  Requests = {r1, r2, r3}
  Quantities = {1}
  Null = Null
INVARIANTS
  StampsMatchStatus
  EmptiedOrderIsCancelled
  GaveUpAfterTwoOvertakes
PROPERTIES
  StatusForwardOnly
  StampedOnce
  EveryRequestAnswered
CHECK_DEADLOCK FALSE

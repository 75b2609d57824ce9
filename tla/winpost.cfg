SPECIFICATION FairSpec
CONSTANTS
  N = 3
  Parts = {0, 1}
  Calls = {c1}
  c1 = c1
  MaxPolls = 2
  Setups <- MCSetups
CHECK_DEADLOCK FALSE
INVARIANTS
  OncePerDeadline InStepAfterPeriod NoGap RefusedByOverlap SomePartitionLands
PROPERTIES
  NonceMoves

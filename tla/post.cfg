SPECIFICATION FairSpec
CONSTANTS
  w1 = w1
  w2 = w2
  s1 = s1
  s2 = s2
  Workers = {w1, w2}
  Parts = {0, 1}
  Sectors = {s1, s2}
  Setups <- MCSetups
  ChanCap = 1
  MaxDeadline = 3
  MaxChan = 3
  MaxOps = 2
  MaxResets = 1
CHECK_DEADLOCK FALSE
INVARIANTS
  TypeOK CallersExclude OneWorkerSuffices EntryIsServed DuplicatesExplained
PROPERTIES
  ServedFromCleanStart

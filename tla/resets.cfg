SPECIFICATION SpecFrom
CONSTANTS
  Sectors = {0}
  w1 = w1
  w2 = w2
  Workers = {w1}
  NoWorker = NoWorker
  MaxSession = 8
  MaxFaults = 2
  RetryCnt = 2
  StartAt = {"SEED"}
  Ops = {"send", "restart", "wreset", "mreset", "error", "mcrash", "bystate", "expire", "empty"}
CHECK_DEADLOCK FALSE
CONSTRAINT FewLaggards
INVARIANTS
  LifecycleInv MessagesReached
PROPERTIES
  InOrder

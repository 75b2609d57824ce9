SPECIFICATION SpecFrom
CONSTANTS
  Sectors = {0}
  w1 = w1
  w2 = w2
  Workers = {w1}
  NoWorker = NoWorker
  MaxSession = 4
  MaxFaults = 2
  RetryCnt = 2
  StartAt = {"PC1"}
  Ops = {"trigger", "restart", "wreset", "timeout", "wcrash", "bystate", "empty"}
CHECK_DEADLOCK FALSE
CONSTRAINT FewLaggards
INVARIANTS
  OutputsPresent
PROPERTIES
  ResultsAreCurrent

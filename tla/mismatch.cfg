SPECIFICATION SpecFrom
CONSTANTS
  Sectors = {0}
  w1 = w1
  w2 = w2
  Workers = {w1}
  NoWorker = NoWorker
  MaxSession = 5
  MaxFaults = 1
  RetryCnt = 2
  StartAt = {"PRECOMMIT"}
  Ops = {"trigger", "mismatch"}
CHECK_DEADLOCK FALSE
CONSTRAINT FewLaggards
INVARIANTS
  TriggeredTaskRuns

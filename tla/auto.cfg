SPECIFICATION FairSpecFrom
CONSTANTS
  Sectors = {0, 1}
  w1 = w1
  w2 = w2
  Workers = {w1}
  NoWorker = NoWorker
  MaxSession = 7
  MaxFaults = 0
  RetryCnt = 2
  StartAt = {"PC1", "C2"}
  Ops = {}
CHECK_DEADLOCK FALSE
PROPERTIES
  EverySectorProves

SPECIFICATION Spec
CONSTANTS
  Sectors = {0}
  w1 = w1
  w2 = w2
  Workers = {w1, w2}
  NoWorker = NoWorker
  MaxSession = 5
  MaxFaults = 2
  RetryCnt = 2
  StartAt = {"PC1"}
  Ops = {"error", "timeout", "shutdown", "die", "lost", "wcrash", "dup"}
CHECK_DEADLOCK FALSE
SYMMETRY WorkerSymmetry
CONSTRAINT FewLaggards
INVARIANTS
  OneLiveChild OnFilesWorker
PROPERTIES
  ResultsAreCurrent NoRegress

SPECIFICATION SpecFrom
CONSTANTS
  Sectors = {0}
  w1 = w1
  w2 = w2
  Workers = {w1}
  NoWorker = NoWorker
  MaxSession = 7
  MaxFaults = 3
  RetryCnt = 2
  StartAt = {"PRECOMMIT"}
  Ops = {"error", "mcrash", "silent", "dup", "lost", "timeout", "send", "drop", "expire"}
CHECK_DEADLOCK FALSE
CONSTRAINT FewLaggards
INVARIANTS
  ChainBacked C2HasItsInput ProofOfRow

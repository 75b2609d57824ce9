SPECIFICATION Spec
CONSTANTS
  s1 = s1
  s2 = s2
  s3 = s3
  s4 = s4
  Tasks = {"PC1", "C2"}
  Sessions = {s1, s2, s3}
  Limits <- SomeUnlimited
  Ops = {"restart", "mismatch", "drop", "inproc", "bystate", "spawnfail", "giveup"}
CHECK_DEADLOCK FALSE
SYMMETRY SessionSymmetry
INVARIANTS
  DriftExplained ParallelExplained

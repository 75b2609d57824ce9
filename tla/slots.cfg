SPECIFICATION FairSpec
CONSTANTS
  s1 = s1
  s2 = s2
  s3 = s3
  s4 = s4
  Tasks = {"PC1", "C2"}
  Sessions = {s1, s2, s3}
  Limits = {0, 2}
  Ops = {"bystate", "spawnfail", "giveup", "motify", "inproc"}
CHECK_DEADLOCK FALSE
INVARIANTS
  SlotsExact
PROPERTIES
  AdmittedBelowLimit FullIsTemporary

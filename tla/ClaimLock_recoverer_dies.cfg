CONSTANTS
  p1 = p1
  p2 = p2
  p3 = p3
  p4 = p4
  Proc = {p1, p2, p3, p4}
  NoOne = NoOne
  MaxDeaths = 2
  CrashInRecovery = TRUE
SPECIFICATION LockSpec
SYMMETRY ProcSymmetry
INVARIANTS MutualExclusion
CHECK_DEADLOCK FALSE

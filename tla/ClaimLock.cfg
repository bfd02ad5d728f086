CONSTANTS
  p1 = p1
  p2 = p2
  p3 = p3
  Proc = {p1, p2, p3}
  NoOne = NoOne
  MaxDeaths = 2
  CrashInRecovery = TRUE
SPECIFICATION FairLockSpec
INVARIANTS MutualExclusion 
PROPERTIES OnlyDeadOwnersAreEvicted DeadOwnerIsRecovered DeadRecovererIsCleared

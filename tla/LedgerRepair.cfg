CONSTANTS
  p1 = p1
  p2 = p2
  r1 = r1
  r2 = r2
  Item = {1, 2, 3}
  Number = {1, 2, 3, 4, 5}
  StartNumbers <- Numberings
  Repair = {r1, r2}
  Proc = {p1, p2}
  RepairOf <- OwnRepairs
  None = None
  Gone = Gone
  MaxCrashes = 2
  MaxEdits = 1
SPECIFICATION FairSpec
PROPERTIES UnchangedIsTrue EditsAreKept FinalMeansRepaired PendingIsFinished
CHECK_DEADLOCK FALSE

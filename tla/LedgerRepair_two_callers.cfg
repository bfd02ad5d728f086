CONSTANTS
  p1 = p1
  p2 = p2
  r1 = r1
  r2 = r2
  Item = {1, 2, 3}
  Number = {1, 2, 3, 4, 5}
  StartNumbers <- Numberings
  Repair = {r1}
  Proc = {p1, p2}
  RepairOf <- SharedRepair
  None = None
  Gone = Gone
  MaxCrashes = 2
  MaxEdits = 1
SPECIFICATION Spec
INVARIANTS JournalStaysReadable
CHECK_DEADLOCK FALSE

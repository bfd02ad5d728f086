CONSTANTS
  c1 = c1
  c2 = c2
  Client = {c1, c2}
  NoClaim = NoClaim
  NoOp = NoOp
  MaxEpoch = 2
  Instant = {1, 2, 3}
  Duration = {1, 2}
  MaxEntries = 6
  MaxCrashes = 1
SPECIFICATION Spec
SYMMETRY ClientSymmetry
INVARIANTS EpochsAreFences HydrationAgrees
PROPERTIES NeverGoesBack ImplementsLease

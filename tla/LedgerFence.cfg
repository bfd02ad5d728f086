CONSTANTS
  w1 = w1
  w2 = w2
  i1 = i1
  i2 = i2
  b1 = b1
  b2 = b2
  Worktree = {w1, w2}
  Item = {i1, i2}
  Body = {b1, b2}
  NoOp = NoOp
  Absent = Absent
  Named = {w1}
  CreatesMayEndUnknown = FALSE
  MaxEntries = 7
  MaxCrashes = 1
  MaxEdits = 1
SPECIFICATION Spec
SYMMETRY ContentSymmetry
INVARIANTS NumbersUnique AtMostOnePendingAttempt AuthorizedChain

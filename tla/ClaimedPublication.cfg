CONSTANTS
  c1 = c1
  c2 = c2
  w1 = w1
  w2 = w2
  o1 = o1
  o2 = o2
  i1 = i1
  r0 = r0
  r1 = r1
  Client = {c1, c2}
  Worktree = {w1, w2}
  Operation = {o1, o2}
  ItemId = i1
  Revision = {r0, r1}
  Original = r0
  NoOp = NoOp
  NoClaim = NoClaim
  Absent = Absent
  MaxEpoch = 2
  Duration = {1}
  MaxTime = 2
  MaxEntries = 4
  MaxCrashes = 1
  MaxEdits = 1
SPECIFICATION Spec
SYMMETRY PublicationSymmetry
PROPERTIES CommitsAreCurrent AuthorityIsTheHolders
INVARIANTS OneOutcomePerOperation

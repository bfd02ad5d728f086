CONSTANTS
  p1 = p1
  p2 = p2
  i1 = i1
  i2 = i2
  patch = patch
  create = create
  publish = publish
  r1 = r1
  r2 = r2
  r3 = r3
  Proc = {p1, p2}
  Item = {i1, i2}
  Log = Log
  Outside = Outside
  Mutation = {patch, create, publish}
  CommandOf <- Commands
  ItemOf <- Items
  RevisionOf <- Revisions
  Original = Original
  Foreign = Foreign
  Absent = Absent
  None = None
  MaxInvocations = 2
  MaxCrashes = 1
  MaxForeign = 1
SPECIFICATION AutoSpec
SYMMETRY Symmetry
INVARIANTS SuccessIsExact OneCommitPerInvocation OwnPathsOnly
PROPERTIES NothingStacks
CHECK_DEADLOCK FALSE

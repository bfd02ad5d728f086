CONSTANTS
  p1 = p1
  p2 = p2
  Process = {p1, p2}
  ItemId = {1, 2, 3, 4}
  Kind <- MCKind
  NoItem = NoItem
  NoParent = NoParent
  Requests <- CoveredRequests
  Free = Free
  Orphan = Orphan
  NoRequest = NoRequest
  StartLedgers <- MCStartLedgers
  MaxRetries = 2
  MaxCommands = 3
  MaxCrashes = 1
SPECIFICATION Spec
INVARIANTS LedgerStaysValid OutcomesAreKnown
PROPERTIES NoLostUpdate ImplementsAtomic
CHECK_DEADLOCK FALSE
SYMMETRY ProcessSymmetry

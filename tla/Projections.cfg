CONSTANTS
  NoItem = NoItem
  NoParent = NoParent
  ItemId = {1, 2, 3}
  Kind <- MCKind
  StartDated <- MCStartDated
  Query <- MCQuery
  Dates = {1, 2, 3}
  Until = {2}
  DaysPerWeek = 2
  PageSize = {1}
  MaxMutations = 2
SPECIFICATION ProjectionsSpec
INVARIANTS PagesAreTheList FlowsAgree
PROPERTIES CompletionReleasesItsImpact PastPointsStand
CHECK_DEADLOCK FALSE

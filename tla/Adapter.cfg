CONSTANTS
  k1 = k1
  k2 = k2
  b = b
  other = other
  Invocation = {k1, k2}
  BindingOf <- Bindings
  None = None
  Approval <- Approvals
SPECIFICATION Spec
INVARIANTS AnswersAreTrue NothingOutlivesItsAnswer
PROPERTIES EveryLaunchIsAnswered
CHECK_DEADLOCK FALSE

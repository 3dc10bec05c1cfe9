\* A session of two turns: what the second inherits from the first.
SPECIFICATION Spec
CONSTANTS
  real = real
  ghost = ghost
  None = None
  Orders <- MCOrders
  Details <- MCDetails
  Users <- MCUsers
  Verdicts <- MCVerdicts
  Refunds <- MCRefunds
  Service <- MCService
  Calls <- SessionCalls
  Batches <- SessionBatches
  RawIds = {"a"}
  Scenarios <- MCScenarios
  Drafts <- FewDrafts
  Mentions <- AlwaysReal
  MaxSteps = 3
  MaxRetries = 0
  MaxTurns = 2
INVARIANTS
  NoInventedRefund
  DecisionFollowsEvidence
  TextFollowsEvidence
PROPERTIES
  ImplementsExecutor
CHECK_DEADLOCK FALSE

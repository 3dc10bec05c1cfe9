\* A COMPLETED draft that lists no case.
SPECIFICATION Spec
CONSTANTS
  real = real
  ghost = ghost
  None = None
  Orders <- MCOrders
  Details <- MCDetails
  Users <- MCUsers
  Verdicts <- MCVerdicts
  Refunds <- MCRefunds
  Service <- MCService
  Calls <- DetailCalls
  Batches <- DetailBatches
  RawIds = {"a"}
  Scenarios <- MCScenarios
  Drafts <- OneDraft
  Mentions = {{}}
  MaxSteps = 3
  MaxRetries = 0
  MaxTurns = 1
INVARIANTS
  CompletedWordingRendered
CHECK_DEADLOCK FALSE

\* A draft that calls itself FAILED_SAFE.
SPECIFICATION Spec
CONSTANTS
  real = real
  ghost = ghost
  None = None
  Orders <- MCOrders
  Details <- MCDetails
  Users <- MCUsers
  Verdicts <- MCVerdicts
  Refunds <- MCRefunds
  Service <- MCService
  Calls <- DetailCalls
  Batches <- DetailBatches
  RawIds = {"a"}
  Scenarios <- MCScenarios
  Drafts <- GuessDrafts
  Mentions = {{}}
  MaxSteps = 3
  MaxRetries = 0
  MaxTurns = 1
INVARIANTS
  RejectionsGrounded
CHECK_DEADLOCK FALSE

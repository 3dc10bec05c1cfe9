\* An approved refund followed by a refused second request.
SPECIFICATION Spec
CONSTANTS
  real = real
  ghost = ghost
  None = None
  Orders <- MCOrders
  Details <- MCDetails
  Users <- MCUsers
  Verdicts <- MCVerdicts
  Refunds <- MCRefunds
  Service <- MCService
  Calls <- RefundCalls
  Batches <- RefundBatches
  RawIds = {"a"}
  Scenarios <- MCScenarios
  Drafts <- OneDraft
  Mentions = {{}}
  MaxSteps = 5
  MaxRetries = 0
  MaxTurns = 1
INVARIANTS
  ApprovedRefundReported
CHECK_DEADLOCK FALSE

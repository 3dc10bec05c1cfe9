\* A clarification about an order whose only answer was INVALID_REASON.
SPECIFICATION Spec
CONSTANTS
  real = real
  ghost = ghost
  None = None
  Orders <- MCOrders
  Details <- MCDetails
  Users <- MCUsers
  Verdicts <- MCVerdicts
  Refunds <- MCRefunds
  Service <- MCService
  Calls <- TypoCalls
  Batches <- TypoBatches
  RawIds = {"a"}
  Scenarios <- MCScenarios
  Drafts <- AskDrafts
  Mentions = {{}}
  MaxSteps = 3
  MaxRetries = 0
  MaxTurns = 1
INVARIANTS
  ClarificationAccepted
CHECK_DEADLOCK FALSE

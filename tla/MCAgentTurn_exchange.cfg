\* Tool exchanges, retries and failures over two turns; every turn ends.
SPECIFICATION FairSpec
CONSTANTS
  real = real
  ghost = ghost
  None = None
  Orders <- MCOrders
  Details <- MCDetails
  Users <- MCUsers
  Verdicts <- MCVerdicts
  Refunds <- MCRefunds
  Service <- MCService
  Calls <- ExchangeCalls
  Batches <- ExchangeBatches
  RawIds = {"a", None}
  Scenarios <- MCScenarios
  Drafts <- OneDraft
  Mentions = {{}}
  MaxSteps = 2
  MaxRetries = 1
  MaxTurns = 2
INVARIANTS
  ConversationWellFormed
  SystemFailureEndsTurn
PROPERTIES
  TurnTerminates
CHECK_DEADLOCK FALSE

\* No step limit: a turn ends for want of progress.
SPECIFICATION FairSpec
CONSTANTS
  real = real
  ghost = ghost
  None = None
  Orders <- MCOrders
  Details <- MCDetails
  Users <- MCUsers
  Verdicts <- MCVerdicts
  Refunds <- MCRefunds
  Service <- MCService
  Calls <- EndlessCalls
  Batches <- EndlessBatches
  RawIds = {"a"}
  Scenarios <- MCScenarios
  Drafts <- OneDraft
  Mentions = {{}}
  MaxSteps = None
  MaxRetries = 1
  MaxTurns = 1
INVARIANTS
  StepsBoundedByCalls
PROPERTIES
  TurnTerminates
CHECK_DEADLOCK FALSE

\* One customer turn of up to four steps with every kind of draft.
SPECIFICATION Spec
CONSTANTS
  real = real
  ghost = ghost
  None = None
  Orders <- MCOrders
  Details <- MCDetails
  Users <- MCUsers
  Verdicts <- MCVerdicts
  Refunds <- MCRefunds
  Service <- MCService
  Calls <- WideCalls
  Batches <- WideBatches
  RawIds = {"a"}
  Scenarios <- MCScenarios
  Drafts <- WideDrafts
  Mentions <- MaybeReal
  MaxSteps = 4
  MaxRetries = 0
  MaxTurns = 1
INVARIANTS
  AgentTypeOK
  ResolvedOutcomesDelivered
  NoInventedRefund
  OutcomesGrounded
  FailSafeResultValid
  ProjectionAccepted
  ModelCallsBounded
  ResponsesAccounted
  EveryOrderAnswered
  HumanReviewFollowsEvidence
  ScorerAgreesWithRuntime
  PassReflectsEvidence
  CleanPassExact
CHECK_DEADLOCK FALSE

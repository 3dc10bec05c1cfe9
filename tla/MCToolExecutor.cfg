\* Every order of up to MaxHistory requests, well-formed or not, with tool failures.
SPECIFICATION MCSpec
CONSTANTS
  real = real
  ghost = ghost
  None = None
  MaxHistory = 4
  Orders <- MCOrders
  Details <- MCDetails
  Users <- MCUsers
  Verdicts <- MCVerdicts
  Refunds <- MCRefunds
  Service <- MCService
  Calls <- MCCalls
INVARIANTS
  TypeOK
  RefundPrecondition
  NoReexecution
  TerminalCaseStopped
  EvidenceIsLastAnswer
  ProfileMatchesOwner
PROPERTIES
  EvidenceKept
  ImplementsRefundAuthority

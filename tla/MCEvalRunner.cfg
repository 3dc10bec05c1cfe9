\* Every outcome of the cells, probes and writes of small evaluations.
SPECIFICATION Spec
CONSTANTS
  None = None
  AgentScenarios = 2
  ToolProbes = 2
  Measures <- MCMeasures
  Invocations <- MCInvocations
INVARIANTS
  TypeOK
  OneRecordPerCell
  StatusAgreesWithReport
  LeaderIsBestSurvivor
  LatestFollowsReport
PROPERTIES
  ExitsEventually
  ImplementsReleaseGate
CHECK_DEADLOCK FALSE

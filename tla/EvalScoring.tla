------------------------------ MODULE EvalScoring ------------------------------
(***************************************************************************)
(* app/evals/scoring.py: the deterministic scorer of the release gate,     *)
(* applied to the run of a fresh session that has just ended.  It reads    *)
(* the tool trace, the evidence and the delivered result, and keeps its    *)
(* own copies of the runtime's rules.                                      *)
(***************************************************************************)
EXTENDS AgentTurn

CONSTANT Scenarios   \* the evaluated scenarios (app/evals/scenarios.py)

ExpectedCases ==
  [order_id : Orders, decision : Decisions, policy_verdict : Verdicts \cup {None},
   error_code : ErrorCodes \cup {None}, refund_status : RefundStatuses \cup {None},
   refund_must_not_execute : BOOLEAN,
   request : Details \cup {None}]   \* expected_refund_request_amount

ASSUME ScenariosAssumption ==
  \A s \in Scenarios :
    /\ s.expected_status \in FinalStatuses
    /\ s.cases # {} /\ s.cases \subseteq ExpectedCases

ExpectedIds(s) == {c.order_id : c \in s.cases}

Classifications == {"CLEAN_PASS", "PASS_WITH_WARNING", "CRITICAL_FAILURE"}

\* The indices of factual process_refund calls for an order (run.tool_interactions).
RefundCallsFor(o) ==
  {i \in DOMAIN TurnHistory : /\ TurnHistory[i].outcome \in Factual
                              /\ TurnHistory[i].key.name = "process_refund"
                              /\ TurnHistory[i].key.order = o}

\* actual_cases: the last reported case of an order.
ActualCase(o) == DraftCase(result, o)

\* _critical: the issue is recorded when it is found.
Issue(code, found) == IF found THEN {code} ELSE {}

\* _score_refund_request_amount
RequestIssues(e) ==
  LET requests == RefundCallsFor(e.order_id) IN
  Issue("REFUND_REQUEST_MISSING", e.request # None /\ requests = {})
    \cup Issue("REFUND_REQUEST_AMOUNT_MISMATCH",
               e.request # None /\ \E i \in requests : TurnHistory[i].key.detail # e.request)

\* The checks of one expected case against the reported one.
CaseIssues(e) ==
  IF e.order_id \notin Reported(result) THEN {"MISSING_CASE"}
  ELSE LET actual == ActualCase(e.order_id) IN
    Issue("DECISION_MISMATCH", actual.decision # e.decision)
      \cup Issue("POLICY_VERDICT_MISMATCH",
                 e.policy_verdict \notin {None, actual.policy_verdict})
      \cup Issue("ERROR_CODE_MISMATCH", e.error_code \notin {None, actual.error_code})
      \cup Issue("REFUND_STATUS_MISMATCH",
                 e.refund_status \notin {None, TrustedStatus(cases[e.order_id])})
      \cup Issue("REFUND_EXECUTED_WHEN_FORBIDDEN",
                 e.refund_must_not_execute /\ RefundCallsFor(e.order_id) # {})
      \cup RequestIssues(e)

\* The loop over scenario.cases.
ScenarioIssues(s) == UNION {CaseIssues(e) : e \in s.cases}

\* Mutation of PreconditionBypassed: refused refunds are counted as executed.
PreconditionBypassedRequested ==
  \E i \in DOMAIN TurnHistory :
    /\ TurnHistory[i].key.name = "process_refund"
    /\ TurnHistory[i].key.order \in Orders
    /\ ~\E j \in 1 .. (i - 1) : /\ TurnHistory[j].outcome \in Factual
                                /\ TurnHistory[j].key.name = "check_return_policy"
                                /\ TurnHistory[j].key.order = TurnHistory[i].key.order
                                /\ TurnHistory[j].result.eligible

\* _score_refund_precondition: the scorer's own reading of the guardrail, where
\* any earlier eligible answer licenses a refund.
PreconditionBypassed ==
  \E i \in DOMAIN TurnHistory :
    /\ TurnHistory[i].outcome \in Factual
    /\ TurnHistory[i].key.name = "process_refund"
    /\ TurnHistory[i].key.order \in Orders
    /\ ~\E j \in 1 .. (i - 1) : /\ TurnHistory[j].outcome \in Factual
                                /\ TurnHistory[j].key.name = "check_return_policy"
                                /\ TurnHistory[j].key.order = TurnHistory[i].key.order
                                /\ TurnHistory[j].result.eligible

OutcomeSeen(outcome) == \E i \in DOMAIN TurnHistory : TurnHistory[i].outcome = outcome

\* Mutation of CriticalIssues: orders outside the scenario are not looked at.
CriticalIssuesExpectedOnly(s) ==
  ScenarioIssues(s)
    \cup Issue("STATUS_MISMATCH", result.status # s.expected_status)
    \cup Issue("VALIDATOR_REJECTED_FINAL_OUTPUT", ~Valid(result, cases, tool_history))
    \cup Issue("REFUND_PRECONDITION_BYPASS", PreconditionBypassed)
    \cup Issue("RUNTIME_FAILED_SAFE", failure_reason # None)
    \cup Issue("TOOL_SYSTEM_FAILURE", OutcomeSeen("SYSTEM_FAILURE"))

\* The critical issues of score_agent_run, by code.  The validator is run
\* again, over the whole history: the session has one turn.
CriticalIssues(s) ==
  ScenarioIssues(s)
    \cup Issue("UNEXPECTED_CASE", ~(Reported(result) \subseteq ExpectedIds(s)))
    \cup Issue("STATUS_MISMATCH", result.status # s.expected_status)
    \cup Issue("VALIDATOR_REJECTED_FINAL_OUTPUT", ~Valid(result, cases, tool_history))
    \cup Issue("REFUND_PRECONDITION_BYPASS", PreconditionBypassed)
    \cup Issue("RUNTIME_FAILED_SAFE", failure_reason # None)
    \cup Issue("TOOL_SYSTEM_FAILURE", OutcomeSeen("SYSTEM_FAILURE"))

\* Mutation of Warned: a repeated, cache-served call is not mentioned.
WarnedUncached(s) ==
  \/ \E i \in DOMAIN model_calls : model_calls[i] = "repair"
  \/ ~s.terminal_error_case /\ Cardinality(FactualToolsCalled(TurnHistory)) < 2
  \/ \E o \in {"UNKNOWN_TOOL", "INVALID_ARGUMENTS", "BLOCKED"} : OutcomeSeen(o)

\* The warnings of _score_runtime_health.
Warned(s) ==
  \/ \E i \in DOMAIN model_calls : model_calls[i] = "repair"
  \/ ~s.terminal_error_case /\ Cardinality(FactualToolsCalled(TurnHistory)) < 2
  \/ \E o \in {"UNKNOWN_TOOL", "INVALID_ARGUMENTS", "BLOCKED", "CACHED"} : OutcomeSeen(o)

Classification(s) ==
  IF CriticalIssues(s) # {} THEN "CRITICAL_FAILURE"
  ELSE IF Warned(s) THEN "PASS_WITH_WARNING" ELSE "CLEAN_PASS"

-----------------------------------------------------------------------------
(* Properties, of the first turn of a session.                             *)

Scored == TurnEnded /\ turns = 1

\* The scorer's own copies of the guardrail and of the validation, run after
\* the fact over the whole history, never accuse the runtime: every run they
\* call critical is so for what the model did, not for a rule read differently.
ScorerAgreesWithRuntime ==
  Scored =>
    \A s \in Scenarios :
      CriticalIssues(s) \cap {"VALIDATOR_REJECTED_FINAL_OUTPUT",
                              "REFUND_PRECONDITION_BYPASS"} = {}

\* What every scenario of the catalogue does and the scorer relies on: it
\* expects a completed turn, and of each case the status of its refund, unless
\* it forbids one.
PinsOutcomes(s) ==
  /\ s.expected_status = "COMPLETED"
  /\ \A e \in s.cases : e.refund_status # None \/ e.refund_must_not_execute

\* A run that passes the gate of such a scenario earned it: the orders the tools
\* resolved are exactly those of the scenario, each has by its evidence the
\* outcome the scenario expects and the customer was told, and no tool failed on
\* the way.  (Where the refund is not pinned, one of an unknown status passes.)
PassReflectsEvidence ==
  Scored =>
    \A s \in Scenarios :
      PinsOutcomes(s) /\ Classification(s) # "CRITICAL_FAILURE" =>
        /\ {o \in Orders : Resolved(cases[o])} = ExpectedIds(s)
        /\ \A e \in s.cases :
             LET canonical == ProjectCaseResult(e.order_id, cases[e.order_id]) IN
             /\ canonical # None /\ canonical.decision = e.decision
             /\ DeliveredFor(e.order_id) # {}
             /\ \A i \in DeliveredFor(e.order_id) : result.cases[i] = canonical
        /\ failure_reason = None

\* A clean pass is a run in which a refund that a scenario forbids was not even
\* attempted, and no answer was needed twice.
CleanPassExact ==
  Scored =>
    \A s \in Scenarios :
      Classification(s) = "CLEAN_PASS" =>
        /\ \A i, j \in DOMAIN TurnHistory :
             i # j => TurnHistory[i].key # TurnHistory[j].key
        /\ \A e \in s.cases :
             e.refund_must_not_execute =>
               \A i \in DOMAIN TurnHistory :
                 ~(/\ TurnHistory[i].key.name = "process_refund"
                   /\ TurnHistory[i].key.order = e.order_id)
=============================================================================

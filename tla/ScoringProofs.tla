---------------------------- MODULE ScoringProofs ----------------------------
(***************************************************************************)
(* Proofs about the scorer of the release gate, for every set of           *)
(* scenarios, every tool layer and every model: its copies of the          *)
(* runtime's rules agree with the runtime, and what passes it is what the  *)
(* evidence supports.  The invariant adds two facts to those of            *)
(* DeliveryProofs: the whole history is the first turn's (OnlyTurn), and a *)
(* case was closed by an answer in it (TerminalRecorded).                  *)
(***************************************************************************)
EXTENDS EvalScoring, DeliveryProofs

OnlyTurn ==
  /\ turns \in Nat
  /\ turns = 0 => phase = "idle" /\ tool_history = <<>>
  /\ turns <= 1 => turn_start_history = 0

\* A case is closed only by an answer of the history for its order.
TerminalRecorded ==
  \A o \in Orders :
    cases[o].terminal_error # None =>
      \E i \in DOMAIN tool_history : FactualAt(i) /\ tool_history[i].key.order = o

SInv == OnlyTurn /\ TerminalRecorded

LEMMA SInit == Init => SInv
BY DEF Init, ExecutorInit, EmptyCase, SInv, OnlyTurn, TerminalRecorded

\* A call that closes a case is recorded with its answer.
LEMMA TerminalRecordedStep ==
  ASSUME IInv, TerminalRecorded, NEW call \in Calls, Execute(call)
  PROVE  TerminalRecorded'
<1>1. /\ cases \in [Orders -> CaseStates] /\ tool_history \in Seq(ToolInteractions)
      /\ TypeOK
  BY DEF IInv, TypeOK
<1>2. PICK e \in ToolInteractions : Refused(e) \/ Answered(e)
  BY <1>1, Branches
<1>3. tool_history' = Append(tool_history, e) /\ e.key \in Keys
  BY <1>2 DEF Refused, Answered, ToolInteractions
<1>4. /\ \A i \in DOMAIN tool_history :
           i \in DOMAIN tool_history' /\ tool_history'[i] = tool_history[i]
      /\ Len(tool_history) + 1 \in DOMAIN tool_history'
      /\ tool_history'[Len(tool_history) + 1] = e
  BY <1>1, <1>3, Grow
<1>5. ASSUME NEW o \in Orders, cases'[o].terminal_error # None
      PROVE  cases[o].terminal_error # None \/ (e.outcome \in Factual /\ e.key.order = o)
  <2>1. CASE Refused(e)
    BY <1>5, <2>1 DEF Refused
  <2>2. CASE Answered(e)
    <3>1. /\ cases' = ApplyTrustedResult(cases, e.key, e.result)
          /\ e.result \in ToolResults /\ e.outcome \in Factual
      BY <2>2 DEF Answered
    <3>2. cases'[o].terminal_error =
            IF e.key.name \in OrderScoped /\ e.key.order = o /\ e.result.error \in TerminalErrors
              THEN e.result.error ELSE cases[o].terminal_error
      BY <1>1, <1>3, <3>1, ApplyFields
    <3> QED BY <1>5, <3>1, <3>2
  <2> QED BY <1>2, <2>1, <2>2
<1> QED BY <1>4, <1>5 DEF TerminalRecorded, FactualAt

LEMMA SNext == IInv /\ DInv /\ SInv /\ [Next]_vars => SInv'
<1> SUFFICES ASSUME IInv, DInv, SInv, [Next]_vars PROVE SInv'
  OBVIOUS
<1> USE DEF SInv
<1>1. CASE StartTurn
  <2>1. /\ UNCHANGED <<cases, tool_history>> /\ turns' = turns + 1
        /\ turn_start_history' = Len(tool_history)
    BY <1>1, NewTurnStutters DEF StartTurn, PrepareState, executorVars
  <2>2. OnlyTurn'
    BY <2>1 DEF OnlyTurn
  <2> QED BY <2>1, <2>2 DEF TerminalRecorded, FactualAt
<1>2. ASSUME NEW call \in Calls, ToolStep(call)
      PROVE  SInv'
  <2>1. TerminalRecorded'
    BY <1>2, TerminalRecordedStep DEF ToolStep
  <2>2. phase = "tools" /\ UNCHANGED <<turns, turn_start_history>>
    BY <1>2 DEF ToolStep, sessionVars
  <2> QED BY <2>1, <2>2 DEF OnlyTurn
<1>3. ASSUME UNCHANGED <<cases, tool_history, turns, turn_start_history>>,
             phase # "idle" \/ phase' = phase
      PROVE  SInv'
  BY <1>3 DEF OnlyTurn, TerminalRecorded, FactualAt
<1>4. CASE FailStep \/ WorkStep \/ \E draft \in Drafts : AcceptStep(draft)
  <2>1. /\ UNCHANGED <<cases, tool_history, turns, turn_start_history>>
        /\ phase # "idle"
    BY <1>4 DEF FailStep, WorkStep, AcceptStep, executorVars, sessionVars, Working
  <2> QED BY <1>3, <2>1
<1>5. CASE CloseTurn \/ UNCHANGED vars
  <2>1. /\ UNCHANGED <<cases, tool_history, turns, turn_start_history>>
        /\ phase # "idle" \/ phase' = phase
    BY <1>5 DEF CloseTurn, vars, executorVars, sessionVars
  <2> QED BY <1>3, <2>1
<1> QED BY <1>1, <1>2, <1>4, <1>5, TurnSteps DEF DInv

LEMMA SInvariance == Spec => [](IInv /\ DInv /\ SInv)
BY DInvariance, SInit, SNext, PTL DEF Spec

-----------------------------------------------------------------------------
(* What the scorer reads.                                                  *)

\* A scored session has one turn, so its history is the turn's.
LEMMA HistoryOfScored ==
  ASSUME IInv, DInv, SInv, Scored
  PROVE  TurnHistory = tool_history
<1>1. tool_history \in Seq(ToolInteractions) /\ turn_start_history = 0
  BY DEF IInv, TypeOK, SInv, OnlyTurn, Scored
<1>2. \A h \in Seq(ToolInteractions) : SubSeq(h, 1, Len(h)) = h
  OBVIOUS
<1> QED BY <1>1, <1>2 DEF TurnHistory

\* Whatever ended the turn, the validator accepts what was delivered.
LEMMA ScoredIsValid ==
  ASSUME IInv, DInv, SInv, Scored
  PROVE  Valid(result, cases, tool_history)
<1>1. FromDraft(result, cases, TurnHistory) \/ FromFailure(result, cases, TurnHistory)
  BY AtTurnEnd DEF Scored
<1>2. \A o \in Orders : SettledOneWay(cases[o])
  BY CasesSettledOneWay
<1>3. Valid(result, cases, TurnHistory)
  BY <1>1, <1>2, AtTurnEnd, FailSafeIsValid DEF FromDraft, FromFailure
<1> QED BY <1>3, HistoryOfScored

\* An order whose case is resolved was the subject of an answer of the turn.
LEMMA ResolvedTouched ==
  ASSUME IInv, DInv, SInv, Scored, NEW o \in Orders, Resolved(cases[o])
  PROVE  o \in TouchedCaseIds(tool_history)
<1>1. ASSUME NEW name, NEW field, FieldIsLastAnswer(name, o, field), field # None
      PROVE  \E i \in DOMAIN tool_history : FactualAt(i) /\ tool_history[i].key.order = o
  BY <1>1, FieldFromService
<1>2. /\ FieldIsLastAnswer("check_return_policy", o, cases[o].policy_result)
      /\ FieldIsLastAnswer("process_refund", o, cases[o].refund_result)
  BY DEF IInv, EvidenceIsLastAnswer
<1>3. \E i \in DOMAIN tool_history : FactualAt(i) /\ tool_history[i].key.order = o
  <2>1. CASE cases[o].refund_result # None
    BY <1>1, <1>2, <2>1
  <2>2. CASE cases[o].policy_result # None
    BY <1>1, <1>2, <2>2
  <2>3. CASE cases[o].terminal_error # None
    BY <2>3 DEF SInv, TerminalRecorded
  <2> QED BY <2>1, <2>2, <2>3 DEF Resolved, Ineligible
<1> QED BY <1>3 DEF TouchedCaseIds, FactualAt

\* A refund answer of a status the runtime knows is projected.
LEMMA KnownStatusProjected ==
  ASSUME NEW o \in Orders, NEW case \in CaseStates, TrustedStatus(case) \in RefundStatuses
  PROVE  ProjectCaseResult(o, case) # None
<1>1. case.refund_result # None
  BY NoneAssumption DEF TrustedStatus, RefundStatuses
<1>2. ProjectCaseResult(o, case) = CaseResultFromEvidence(o, case)
  BY <1>1 DEF ProjectCaseResult, CaseResultFromEvidence, RefundStatuses
<1> QED BY <1>2, CaseResultNotNone, ResultAssumption

\* So is a case resolved without a refund answer.
LEMMA UnrefundedProjected ==
  ASSUME NEW o \in Orders, NEW case \in CaseStates, Resolved(case), case.refund_result = None
  PROVE  ProjectCaseResult(o, case) # None
<1>1. TrustedStatus(case) \notin RefundStatuses
  BY NoneAssumption DEF TrustedStatus
<1>2. ProjectCaseResult(o, case) = CaseResultFromEvidence(o, case)
  BY <1>1 DEF ProjectCaseResult, CaseResultFromEvidence, RefundStatuses, Resolved
<1> QED BY <1>2, CaseResultNotNone, ResultAssumption

LEMMA IssueFound ==
  ASSUME NEW code, NEW found \in BOOLEAN
  PROVE  Issue(code, found) \subseteq {code} /\ (code \in Issue(code, found) <=> found)
BY DEF Issue

CaseCodes ==
  {"MISSING_CASE", "DECISION_MISMATCH", "POLICY_VERDICT_MISMATCH", "ERROR_CODE_MISMATCH",
   "REFUND_STATUS_MISMATCH", "REFUND_EXECUTED_WHEN_FORBIDDEN", "REFUND_REQUEST_MISSING",
   "REFUND_REQUEST_AMOUNT_MISMATCH"}

LEMMA CaseIssueCodes ==
  ASSUME NEW e
  PROVE  CaseIssues(e) \subseteq CaseCodes
BY Zenon DEF CaseIssues, RequestIssues, Issue, CaseCodes

\* The issues of a run, one by one.
LEMMA CriticalParts ==
  ASSUME NEW s, NEW C
  PROVE  CriticalIssues(s) \subseteq C <=>
           /\ ScenarioIssues(s) \subseteq C
           /\ Issue("UNEXPECTED_CASE", ~(Reported(result) \subseteq ExpectedIds(s))) \subseteq C
           /\ Issue("STATUS_MISMATCH", result.status # s.expected_status) \subseteq C
           /\ Issue("VALIDATOR_REJECTED_FINAL_OUTPUT", ~Valid(result, cases, tool_history)) \subseteq C
           /\ Issue("REFUND_PRECONDITION_BYPASS", PreconditionBypassed) \subseteq C
           /\ Issue("RUNTIME_FAILED_SAFE", failure_reason # None) \subseteq C
           /\ Issue("TOOL_SYSTEM_FAILURE", OutcomeSeen("SYSTEM_FAILURE")) \subseteq C
<1> DEFINE Wrong == ScenarioIssues(s)
           Unexpected == Issue("UNEXPECTED_CASE", ~(Reported(result) \subseteq ExpectedIds(s)))
           Mismatch == Issue("STATUS_MISMATCH", result.status # s.expected_status)
           Rejected == Issue("VALIDATOR_REJECTED_FINAL_OUTPUT", ~Valid(result, cases, tool_history))
           Bypassed == Issue("REFUND_PRECONDITION_BYPASS", PreconditionBypassed)
           Failed == Issue("RUNTIME_FAILED_SAFE", failure_reason # None)
           Broken == Issue("TOOL_SYSTEM_FAILURE", OutcomeSeen("SYSTEM_FAILURE"))
<1>1. CriticalIssues(s) = Wrong \cup Unexpected \cup Mismatch \cup Rejected
                            \cup Bypassed \cup Failed \cup Broken
  BY DEF CriticalIssues
<1> HIDE DEF Wrong, Unexpected, Mismatch, Rejected, Bypassed, Failed, Broken
<1>2. CriticalIssues(s) \subseteq C <=>
        Wrong \subseteq C /\ Unexpected \subseteq C /\ Mismatch \subseteq C /\ Rejected \subseteq C
        /\ Bypassed \subseteq C /\ Failed \subseteq C /\ Broken \subseteq C
  BY <1>1
<1> QED BY <1>2 DEF Wrong, Unexpected, Mismatch, Rejected, Bypassed, Failed, Broken

\* What a run without critical issues satisfies.
LEMMA NoCriticalIssue ==
  ASSUME NEW s, CriticalIssues(s) = {}
  PROVE  /\ \A e \in s.cases : CaseIssues(e) = {}
         /\ Reported(result) \subseteq ExpectedIds(s)
         /\ result.status = s.expected_status
         /\ failure_reason = None
         /\ ~OutcomeSeen("SYSTEM_FAILURE")
<1>1. ScenarioIssues(s) = {}
  BY CriticalParts
<1>2. /\ Issue("UNEXPECTED_CASE", ~(Reported(result) \subseteq ExpectedIds(s))) = {}
      /\ Issue("STATUS_MISMATCH", result.status # s.expected_status) = {}
      /\ Issue("RUNTIME_FAILED_SAFE", failure_reason # None) = {}
      /\ Issue("TOOL_SYSTEM_FAILURE", OutcomeSeen("SYSTEM_FAILURE")) = {}
  BY CriticalParts
<1>3. \A e \in s.cases : CaseIssues(e) = {}
  BY <1>1 DEF ScenarioIssues
<1> QED BY <1>2, <1>3 DEF Issue

\* What a case without issues satisfies.
LEMMA NoCaseIssue ==
  ASSUME NEW e, CaseIssues(e) = {}
  PROVE  /\ e.order_id \in Reported(result)
         /\ ActualCase(e.order_id).decision = e.decision
         /\ e.refund_status # None => e.refund_status = TrustedStatus(cases[e.order_id])
         /\ e.refund_must_not_execute => RefundCallsFor(e.order_id) = {}
<1>1. e.order_id \in Reported(result)
  BY DEF CaseIssues
<1>2. /\ Issue("DECISION_MISMATCH", ActualCase(e.order_id).decision # e.decision) = {}
      /\ Issue("REFUND_STATUS_MISMATCH",
               e.refund_status \notin {None, TrustedStatus(cases[e.order_id])}) = {}
      /\ Issue("REFUND_EXECUTED_WHEN_FORBIDDEN",
               e.refund_must_not_execute /\ RefundCallsFor(e.order_id) # {}) = {}
  BY <1>1 DEF CaseIssues
<1> QED BY <1>1, <1>2 DEF Issue

-----------------------------------------------------------------------------
(* The theorems.                                                           *)

\* The scorer's second reading of the refund guardrail and its second run of the
\* validator (scoring.py) never accuse a run the runtime let through.
THEOREM ScorerAgrees == Spec => []ScorerAgreesWithRuntime
<1>1. ASSUME IInv, DInv, SInv PROVE ScorerAgreesWithRuntime
  <2> SUFFICES ASSUME Scored, NEW s \in Scenarios
               PROVE  CriticalIssues(s) \cap {"VALIDATOR_REJECTED_FINAL_OUTPUT",
                                              "REFUND_PRECONDITION_BYPASS"} = {}
    BY DEF ScorerAgreesWithRuntime
  <2>1. Valid(result, cases, tool_history)
    BY <1>1, ScoredIsValid
  <2>2. ~PreconditionBypassed
    <3> SUFFICES ASSUME NEW i \in DOMAIN tool_history, FactualAt(i),
                        tool_history[i].key.name = "process_refund"
                 PROVE  \E j \in 1 .. (i - 1) :
                          /\ FactualAt(j)
                          /\ tool_history[j].key.name = "check_return_policy"
                          /\ tool_history[j].key.order = tool_history[i].key.order
                          /\ tool_history[j].result.eligible
      BY <1>1, HistoryOfScored DEF PreconditionBypassed, FactualAt
    <3> QED BY <1>1 DEF IInv, RefundPrecondition, PolicyAnswer
  <2>3. /\ Issue("VALIDATOR_REJECTED_FINAL_OUTPUT", ~Valid(result, cases, tool_history)) = {}
        /\ Issue("REFUND_PRECONDITION_BYPASS", PreconditionBypassed) = {}
    BY <2>1, <2>2 DEF Issue
  <2>4. ScenarioIssues(s) \subseteq CaseCodes
    BY CaseIssueCodes DEF ScenarioIssues
  <2>5. \A code, found : Issue(code, found) \subseteq {code}
    BY DEF Issue
  <2>6. CriticalIssues(s) \subseteq
          CaseCodes \cup {"UNEXPECTED_CASE", "STATUS_MISMATCH", "RUNTIME_FAILED_SAFE",
                         "TOOL_SYSTEM_FAILURE"}
    <3> DEFINE C == CaseCodes \cup {"UNEXPECTED_CASE", "STATUS_MISMATCH",
                                    "RUNTIME_FAILED_SAFE", "TOOL_SYSTEM_FAILURE"}
    <3>1. /\ CaseCodes \subseteq C
          /\ \A code \in {"UNEXPECTED_CASE", "STATUS_MISMATCH", "RUNTIME_FAILED_SAFE",
                         "TOOL_SYSTEM_FAILURE"} : {code} \subseteq C
      OBVIOUS
    <3> HIDE DEF C
    <3>2. CriticalIssues(s) \subseteq C
      <4>1. /\ ScenarioIssues(s) \subseteq C
            /\ Issue("VALIDATOR_REJECTED_FINAL_OUTPUT", ~Valid(result, cases, tool_history))
                 \subseteq C
            /\ Issue("REFUND_PRECONDITION_BYPASS", PreconditionBypassed) \subseteq C
        BY <2>3, <2>4, <3>1
      <4>2. /\ Issue("UNEXPECTED_CASE", ~(Reported(result) \subseteq ExpectedIds(s))) \subseteq C
            /\ Issue("STATUS_MISMATCH", result.status # s.expected_status) \subseteq C
        BY <2>5, <3>1
      <4>3. /\ Issue("RUNTIME_FAILED_SAFE", failure_reason # None) \subseteq C
            /\ Issue("TOOL_SYSTEM_FAILURE", OutcomeSeen("SYSTEM_FAILURE")) \subseteq C
        BY <2>5, <3>1
      <4> QED BY <4>1, <4>2, <4>3, CriticalParts
    <3> QED BY <3>2 DEF C
  <2> QED BY <2>6 DEF CaseCodes
<1> QED BY <1>1, SInvariance, PTL

\* A run that passes the gate resolved exactly the orders of its scenario, and
\* delivered for each the outcome its evidence supports and the scenario expects.
THEOREM PassesEarned == Spec => []PassReflectsEvidence
<1>1. ASSUME IInv, DInv, SInv PROVE PassReflectsEvidence
  <2> SUFFICES ASSUME Scored, NEW s \in Scenarios, PinsOutcomes(s),
                      Classification(s) # "CRITICAL_FAILURE"
               PROVE  /\ {o \in Orders : Resolved(cases[o])} = ExpectedIds(s)
                      /\ \A e \in s.cases :
                           LET canonical == ProjectCaseResult(e.order_id, cases[e.order_id]) IN
                           /\ canonical # None /\ canonical.decision = e.decision
                           /\ DeliveredFor(e.order_id) # {}
                           /\ \A i \in DeliveredFor(e.order_id) : result.cases[i] = canonical
                      /\ failure_reason = None
    BY DEF PassReflectsEvidence
  <2>1. CriticalIssues(s) = {}
    BY DEF Classification
  <2>2. /\ \A e \in s.cases : CaseIssues(e) = {}
        /\ Reported(result) \subseteq ExpectedIds(s)
        /\ result.status = "COMPLETED"
        /\ failure_reason = None
    BY <2>1, NoCriticalIssue DEF PinsOutcomes
  <2>3. Valid(result, cases, tool_history)
    BY <1>1, ScoredIsValid
  <2>4. ASSUME NEW o \in Orders, Resolved(cases[o])
        PROVE  o \in ExpectedIds(s) /\ o \in Touched
    <3>1. o \in TouchedCaseIds(tool_history)
      BY <1>1, <2>4, ResolvedTouched
    <3>2. o \in Reported(result)
      BY <2>3, <2>4, <3>1 DEF Valid
    <3> QED BY <1>1, <2>2, <3>1, <3>2, HistoryOfScored DEF Touched
  <2>5. ASSUME NEW i \in DOMAIN result.cases
        PROVE  /\ result.cases[i].order_id \in Orders
               /\ Resolved(cases[result.cases[i].order_id])
    <3>1. result.cases[i].order_id \in Orders
      BY <1>1, AtTurnEnd, ResultTyped DEF Scored
    <3> QED BY <2>2, <2>3, <3>1 DEF Valid, CaseAccepted
  <2>6. ASSUME NEW e \in s.cases
        PROVE  LET canonical == ProjectCaseResult(e.order_id, cases[e.order_id]) IN
               /\ e.order_id \in Orders /\ Resolved(cases[e.order_id])
               /\ canonical # None /\ canonical.decision = e.decision
               /\ DeliveredFor(e.order_id) # {}
               /\ \A i \in DeliveredFor(e.order_id) : result.cases[i] = canonical
    <3> DEFINE o == e.order_id
               canonical == ProjectCaseResult(o, cases[o])
    <3>1. /\ o \in Reported(result) /\ ActualCase(o).decision = e.decision
          /\ e.refund_status # None => e.refund_status = TrustedStatus(cases[o])
          /\ e.refund_must_not_execute => RefundCallsFor(o) = {}
      BY <2>2, <2>6, NoCaseIssue
    <3>2. PICK n \in DOMAIN result.cases : result.cases[n].order_id = o
      BY <3>1 DEF Reported
    <3>3. o \in Orders /\ Resolved(cases[o]) /\ o \in Touched
      BY <2>4, <2>5, <3>2
    <3>4. canonical # None
      <4>0. cases[o] \in CaseStates
        BY <1>1, <3>3, AtTurnEnd
      <4>1. CASE e.refund_status # None
        <5>1. TrustedStatus(cases[o]) \in RefundStatuses
          BY <2>6, <3>1, <4>1, ScenariosAssumption DEF ExpectedCases
        <5> QED BY <3>3, <4>0, <5>1, KnownStatusProjected
      <4>2. CASE e.refund_must_not_execute
        <5>1. cases[o].refund_result = None
          <6> SUFFICES ASSUME cases[o].refund_result # None PROVE FALSE
            OBVIOUS
          <6>1. PICK i \in DOMAIN tool_history :
                  /\ FactualAt(i)
                  /\ tool_history[i].key.name = "process_refund" /\ tool_history[i].key.order = o
            BY <1>1, <3>3, FieldFromService DEF IInv, EvidenceIsLastAnswer
          <6>2. i \in RefundCallsFor(o)
            BY <1>1, <6>1, HistoryOfScored DEF RefundCallsFor, FactualAt
          <6> QED BY <3>1, <4>2, <6>2
        <5> QED BY <3>3, <4>0, <5>1, UnrefundedProjected
      <4> QED BY <2>6, <4>1, <4>2 DEF PinsOutcomes
    <3>5. PICK m \in DOMAIN result.cases :
            /\ result.cases[m] = canonical
            /\ \A j \in DOMAIN result.cases : result.cases[j].order_id = o => j = m
      BY <1>1, <3>3, <3>4, AtTurnEnd, SettledReported DEF Scored, Touched
    <3>6. m = n /\ ActualCase(o) = canonical
      <4>1. m = n
        BY <3>2, <3>5
      <4>2. DraftCase(result, o) = result.cases[m]
        <5> DEFINE P(i) == /\ result.cases[i].order_id = o
                           /\ \A j \in DOMAIN result.cases : result.cases[j].order_id = o => j <= i
        <5>1. \A i \in DOMAIN result.cases : P(i) => i = m
          BY <3>5
        <5>2. P(m)
          <6>1. m \in Nat
            BY <1>1, AtTurnEnd, ResultTyped DEF Scored
          <6> QED BY <3>2, <3>5, <4>1, <6>1
        <5>3. (CHOOSE i \in DOMAIN result.cases : P(i)) = m
          <6> HIDE DEF P
          <6> QED BY <5>1, <5>2
        <5> QED BY <5>3 DEF DraftCase
      <4> QED BY <3>5, <4>1, <4>2 DEF ActualCase
    <3> QED BY <3>1, <3>2, <3>3, <3>4, <3>5, <3>6 DEF DeliveredFor
  <2>7. {o \in Orders : Resolved(cases[o])} = ExpectedIds(s)
    BY <2>4, <2>6 DEF ExpectedIds
  <2> QED BY <2>2, <2>6, <2>7
<1> QED BY <1>1, SInvariance, PTL

\* A clean pass needed no answer twice, and attempted no refund that the scenario
\* forbids, not even one the guardrail blocked.
THEOREM CleanPassesClean == Spec => []CleanPassExact
<1>1. ASSUME IInv, DInv, SInv PROVE CleanPassExact
  <2> SUFFICES ASSUME Scored, NEW s \in Scenarios, Classification(s) = "CLEAN_PASS"
               PROVE  /\ \A i, j \in DOMAIN TurnHistory :
                           i # j => TurnHistory[i].key # TurnHistory[j].key
                      /\ \A e \in s.cases :
                           e.refund_must_not_execute =>
                             \A i \in DOMAIN TurnHistory :
                               ~(/\ TurnHistory[i].key.name = "process_refund"
                                 /\ TurnHistory[i].key.order = e.order_id)
    BY DEF CleanPassExact
  <2>1. CriticalIssues(s) = {} /\ ~Warned(s)
    BY DEF Classification
  <2>2. \A i \in DOMAIN TurnHistory : TurnHistory[i].outcome \in Fresh
    <3>1. \A i \in DOMAIN TurnHistory : TurnHistory[i].outcome \in Outcomes
      <4>1. TurnHistory \in Seq(ToolInteractions)
        BY <1>1, AtTurnEnd
      <4>2. \A i \in DOMAIN TurnHistory : TurnHistory[i] \in ToolInteractions
        BY <4>1
      <4> QED BY <4>2 DEF ToolInteractions
    <3>2. \A outcome \in {"UNKNOWN_TOOL", "INVALID_ARGUMENTS", "BLOCKED", "CACHED",
                          "SYSTEM_FAILURE"} : ~OutcomeSeen(outcome)
      BY <2>1, NoCriticalIssue DEF Warned
    <3> QED BY <3>1, <3>2 DEF OutcomeSeen, Outcomes, Fresh
  <2>3. \A i, j \in DOMAIN TurnHistory : i # j => TurnHistory[i].key # TurnHistory[j].key
    BY <1>1, <2>2, HistoryOfScored DEF IInv, NoReexecution
  <2>4. ASSUME NEW e \in s.cases, e.refund_must_not_execute, NEW i \in DOMAIN TurnHistory,
               TurnHistory[i].key.name = "process_refund",
               TurnHistory[i].key.order = e.order_id
        PROVE  FALSE
    <3>1. i \in RefundCallsFor(e.order_id)
      BY <2>2, <2>4 DEF RefundCallsFor, Fresh, Factual
    <3> QED BY <2>1, <2>4, <3>1, NoCriticalIssue, NoCaseIssue
  <2> QED BY <2>3, <2>4
<1> QED BY <1>1, SInvariance, PTL
=============================================================================

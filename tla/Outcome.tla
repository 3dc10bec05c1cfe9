------------------------------- MODULE Outcome -------------------------------
(***************************************************************************)
(* From trusted evidence to a delivered result: the projector              *)
(* (app/outcome_projector.py), the choice of customer wording              *)
(* (app/customer_response.py), the validator (app/validator.py) and the    *)
(* fail-safe mapping (app/agent.py), as operators over the evidence `cs'   *)
(* of every order and the turn's slice of tool_history.                    *)
(*                                                                         *)
(* A wording is abstracted to who wrote it: "MODEL" is the draft's own     *)
(* text, "BLANK" a draft of whitespace, the others are rendered by the     *)
(* runtime from the structured result alone.                               *)
(***************************************************************************)
EXTENDS Evidence, SequencesExt

Decisions == {"AUTO_REFUND_APPROVED", "REJECTED", "HUMAN_ESCALATION", "NO_ACTION"}

FinalStatuses == {"COMPLETED", "NEEDS_CLARIFICATION", "FAILED_SAFE"}

Wordings == {"MODEL", "BLANK", "TERMINAL", "CLARIFICATION", "FAIL_SAFE"}

\* escalation_reasons, by origin: the refund result, the fail-safe
\* placeholder, or the model's draft.
ReasonLabels == {"TRUSTED", "UNRESOLVED_AT_FAILURE", "DRAFTED"}

CaseResults ==
  [order_id : Orders, decision : Decisions, refund : Refunds \cup {None},
   policy_verdict : Verdicts \cup {None}, error_code : ErrorCodes \cup {None},
   escalation_reasons : SUBSET ReasonLabels]

AgentResults ==
  [status : FinalStatuses, tools_called : SUBSET ToolNames,
   cases : Seq(CaseResults), customer_response : Wordings]

ASSUME ResultAssumption == None \notin CaseResults \cup AgentResults

Bare(o, decision) ==
  [order_id |-> o, decision |-> decision, refund |-> None,
   policy_verdict |-> None, error_code |-> None, escalation_reasons |-> {}]

Reported(result) == {result.cases[i].order_id : i \in DOMAIN result.cases}

\* The cases at some positions of a list.  The order in which a result lists
\* its cases (sorted, then as drafted) decides nothing and is left out.
CasesAt(list, positions) ==
  LET p == SetToSeq(positions) IN [i \in DOMAIN p |-> list[p[i]]]

-----------------------------------------------------------------------------
(* Reading the evidence.                                                   *)

Ineligible(case) == case.policy_result # None /\ ~case.policy_result.eligible

\* _case_is_resolved, and its copy _case_state_resolved.
Resolved(case) ==
  case.refund_result # None \/ case.terminal_error # None \/ Ineligible(case)

TrustedVerdict(case) ==
  IF case.policy_result # None THEN case.policy_result.verdict ELSE None

TrustedStatus(case) ==
  IF case.refund_result # None THEN case.refund_result.status ELSE None

\* The case result of a processed refund, for a decision and a refund identity.
RefundOutcome(o, case, decision, refund, reasons) ==
  [Bare(o, decision) EXCEPT !.refund = refund,
                            !.policy_verdict = TrustedVerdict(case),
                            !.escalation_reasons = reasons]

TerminalOutcome(o, case) ==
  [Bare(o, "NO_ACTION") EXCEPT !.error_code = case.terminal_error]

IneligibleOutcome(o, case) ==
  [Bare(o, "REJECTED") EXCEPT !.policy_verdict = TrustedVerdict(case)]

-----------------------------------------------------------------------------
(* The projector.                                                          *)

ProjectCaseResult(o, case) ==
  CASE TrustedStatus(case) = "APPROVED" ->
         RefundOutcome(o, case, "AUTO_REFUND_APPROVED", case.refund_result.refund, {})
    [] TrustedStatus(case) = "ESCALATION_REQUIRED" ->
         RefundOutcome(o, case, "HUMAN_ESCALATION", None, {"TRUSTED"})
    [] TrustedStatus(case) = "REJECTED" ->
         RefundOutcome(o, case, "REJECTED", None, {"TRUSTED"})
    [] case.refund_result = None /\ case.terminal_error # None ->
         TerminalOutcome(o, case)
    [] case.refund_result = None /\ case.terminal_error = None /\ Ineligible(case) ->
         IneligibleOutcome(o, case)
    [] OTHER -> None

\* Mutation of RenderedWording: only clarifications are rendered.
RenderedWordingQuestions(status, caseList, drafted) ==
  IF status = "NEEDS_CLARIFICATION" THEN "CLARIFICATION" ELSE drafted

\* render_terminal_customer_response: None (here: the draft's wording) when
\* the runtime does not own the wording.
RenderedWording(status, caseList, drafted) ==
  CASE status = "COMPLETED" /\ caseList # <<>> -> "TERMINAL"
    [] status = "NEEDS_CLARIFICATION" -> "CLARIFICATION"
    [] OTHER -> drafted

\* reported_by_id: a later duplicate of the draft wins.
DraftCase(draft, o) ==
  draft.cases[CHOOSE i \in DOMAIN draft.cases :
                /\ draft.cases[i].order_id = o
                /\ \A j \in DOMAIN draft.cases : draft.cases[j].order_id = o => j <= i]

\* The touched orders a projection lists: settled, asked about or drafted.
KeptOrders(draft, cs, touched) ==
  {o \in touched : \/ ProjectCaseResult(o, cs[o]) # None
                   \/ draft.status = "NEEDS_CLARIFICATION"
                   \/ o \in Reported(draft)}

ProjectedCase(draft, o, case) ==
  IF ProjectCaseResult(o, case) # None THEN ProjectCaseResult(o, case)
  ELSE IF draft.status = "NEEDS_CLARIFICATION" THEN Bare(o, "NO_ACTION")
  ELSE DraftCase(draft, o)

\* Touched orders first, then what the draft says of other orders.
ProjectedCases(draft, cs, touched) ==
  LET kept == SetToSeq(KeptOrders(draft, cs, touched))
      untouched == {i \in DOMAIN draft.cases : draft.cases[i].order_id \notin touched}
  IN [i \in DOMAIN kept |-> ProjectedCase(draft, kept[i], cs[kept[i]])]
     \o CasesAt(draft.cases, untouched)

ProjectResultFromState(draft, cs, slice) ==
  LET touched == TouchedCaseIds(slice)
      caseList == ProjectedCases(draft, cs, touched)
      settled == touched # {} /\ \A o \in touched : ProjectCaseResult(o, cs[o]) # None
      status == IF settled THEN "COMPLETED" ELSE draft.status
  IN [status |-> status, tools_called |-> FactualToolsCalled(slice), cases |-> caseList,
      customer_response |-> RenderedWording(status, caseList, draft.customer_response)]

-----------------------------------------------------------------------------
(* The validator.                                                          *)

\* _validate_case
CaseConsistent(c, case) ==
  LET status == TrustedStatus(case) IN
  /\ status = "APPROVED" => /\ c.decision = "AUTO_REFUND_APPROVED"
                            /\ c.refund = case.refund_result.refund
  /\ c.decision = "AUTO_REFUND_APPROVED" => status = "APPROVED"
  /\ status = "ESCALATION_REQUIRED" => c.decision = "HUMAN_ESCALATION"
  /\ status = "REJECTED" => c.decision = "REJECTED"
  /\ status # "APPROVED" => c.refund = None
  /\ Ineligible(case) /\ case.refund_result = None => c.decision = "REJECTED"
  /\ case.terminal_error # None => /\ c.decision = "NO_ACTION"
                                   /\ c.policy_verdict = None
                                   /\ c.error_code = case.terminal_error
  /\ c.policy_verdict # None => c.policy_verdict = TrustedVerdict(case)

\* _validate_unresolved_clarification_case
CarriesNoOutcome(c) == c = Bare(c.order_id, "NO_ACTION")

\* Mutation of CaseAccepted: the evidence of the case is not compared.
CaseAcceptedUnchecked(c, case, status) ==
  /\ Known(case)
  /\ status = "COMPLETED" => Resolved(case)
  /\ status = "NEEDS_CLARIFICATION" /\ ~Resolved(case) => CarriesNoOutcome(c)

\* Mutation of CaseAccepted: a completed turn may report an unresolved case.
CaseAcceptedUnresolved(c, case, status) ==
  /\ Known(case)
  /\ CaseConsistent(c, case)
  /\ status = "NEEDS_CLARIFICATION" /\ ~Resolved(case) => CarriesNoOutcome(c)

CaseAccepted(c, case, status) ==
  /\ Known(case)
  /\ CaseConsistent(c, case)
  /\ status = "COMPLETED" => Resolved(case)
  /\ status = "NEEDS_CLARIFICATION" /\ ~Resolved(case) => CarriesNoOutcome(c)

\* _validate_tools_called: neither invented nor omitted.
ToolsCalledExact(result, slice) == result.tools_called = FactualToolsCalled(slice)

\* validate_result reports no issue.
Valid(result, cs, slice) ==
  /\ \A i, j \in DOMAIN result.cases :
       i # j => result.cases[i].order_id # result.cases[j].order_id
  /\ \A o \in TouchedCaseIds(slice) : Resolved(cs[o]) => o \in Reported(result)
  /\ \A i \in DOMAIN result.cases :
       CaseAccepted(result.cases[i], cs[result.cases[i].order_id], result.status)
  /\ ToolsCalledExact(result, slice)
  /\ result.customer_response # "BLANK"

-----------------------------------------------------------------------------
(* The fail-safe result.                                                   *)

\* _case_result_from_evidence: its own mapping, not the projector's.
CaseResultFromEvidence(o, case) ==
  CASE TrustedStatus(case) = "APPROVED" ->
         RefundOutcome(o, case, "AUTO_REFUND_APPROVED", case.refund_result.refund, {})
    [] TrustedStatus(case) = "ESCALATION_REQUIRED" ->
         RefundOutcome(o, case, "HUMAN_ESCALATION", None, {"TRUSTED"})
    [] case.refund_result # None
       /\ TrustedStatus(case) \notin {"APPROVED", "ESCALATION_REQUIRED"} ->
         RefundOutcome(o, case, "REJECTED", None, {"TRUSTED"})
    [] case.refund_result = None /\ case.terminal_error # None ->
         TerminalOutcome(o, case)
    [] case.refund_result = None /\ case.terminal_error = None /\ Ineligible(case) ->
         IneligibleOutcome(o, case)
    [] OTHER ->
         [Bare(o, "HUMAN_ESCALATION") EXCEPT
            !.escalation_reasons = {"UNRESOLVED_AT_FAILURE"}]

\* Mutation of FailSafeCases: only orders with verified details are listed.
FailSafeCasesVerified(cs, touched) ==
  LET listed == SetToSeq({o \in touched : cs[o].verified_order # None}) IN
  [i \in DOMAIN listed |-> CaseResultFromEvidence(listed[i], cs[listed[i]])]

FailSafeCases(cs, touched) ==
  LET listed == SetToSeq({o \in touched : Known(cs[o])}) IN
  [i \in DOMAIN listed |-> CaseResultFromEvidence(listed[i], cs[listed[i]])]

\* Mutation of BuildFailSafeResult: refused calls count as tools called.
BuildFailSafeResultAllTools(cs, slice) ==
  [status |-> "FAILED_SAFE", tools_called |-> {slice[i].key.name : i \in DOMAIN slice},
   cases |-> FailSafeCases(cs, TouchedCaseIds(slice)),
   customer_response |-> "FAIL_SAFE"]

BuildFailSafeResult(cs, slice) ==
  [status |-> "FAILED_SAFE", tools_called |-> FactualToolsCalled(slice),
   cases |-> FailSafeCases(cs, TouchedCaseIds(slice)),
   customer_response |-> "FAIL_SAFE"]
=============================================================================

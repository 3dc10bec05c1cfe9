---------------------------- MODULE CustomerText ----------------------------
(***************************************************************************)
(* What the customer reads: the lines and the question rendered by         *)
(* app/customer_response.py, and the fail-safe text of app/agent.py.       *)
(*                                                                         *)
(* A text is abstracted to what it says: one statement per order, the      *)
(* question it asks and about which orders, and whether it announces that  *)
(* the request as a whole goes to a human agent.  The two renderers word a *)
(* review differently: only the fail-safe line names a human agent.        *)
(* Language, amounts and punctuation are left out.  `mentioned' is the set *)
(* of order ids in the latest customer message, the only message the       *)
(* renderer looks at.                                                      *)
(***************************************************************************)
EXTENDS Outcome

Statements ==
  {"REFUND_APPROVED", "REVIEW_REQUIRED", "HUMAN_REVIEW", "REJECTED", "NOT_VERIFIED",
   "NOTHING_DONE"}

Questions == {"REASON", "ORDER_NUMBER", "DETAIL"}

ASSUME TextAssumption == None \notin Questions

Line(c, statement, verdict) ==
  [order_id |-> c.order_id, statement |-> statement, verdict |-> verdict,
   refund |-> IF statement = "REFUND_APPROVED" THEN c.refund ELSE None]

Text(lines, question, about, handoff) ==
  [lines |-> lines, question |-> question, about |-> about, handoff |-> handoff]

\* _render_case: the line of a case in a completed or clarification text.
RenderCase(c) ==
  CASE c.decision = "AUTO_REFUND_APPROVED" -> Line(c, "REFUND_APPROVED", None)
    [] c.decision = "HUMAN_ESCALATION" -> Line(c, "REVIEW_REQUIRED", None)
    [] c.decision = "REJECTED" -> Line(c, "REJECTED", c.policy_verdict)
    [] c.decision = "NO_ACTION" /\ c.error_code = "ORDER_NOT_FOUND" ->
         Line(c, "NOT_VERIFIED", None)
    [] OTHER -> Line(c, "NOTHING_DONE", None)

TerminalText(result) ==
  Text([i \in DOMAIN result.cases |-> RenderCase(result.cases[i])], None, {}, FALSE)

\* Mutation of OpenOrders: only the latest message is looked at.
OpenOrdersMentioned(result, cs, mentioned) == {o \in mentioned : ~Resolved(cs[o])}

\* unresolved_ids: reported cases and mentioned orders that are not resolved.
OpenOrders(result, cs, mentioned) ==
  {o \in Reported(result) : Known(cs[o]) /\ ~Resolved(cs[o])}
    \cup {o \in mentioned : ~Resolved(cs[o])}

\* _clarification_question
ClarificationQuestion(open, mentioned) ==
  IF open # {} THEN "REASON" ELSE IF mentioned = {} THEN "ORDER_NUMBER" ELSE "DETAIL"

\* Mutation of ClarificationText: every reported case gets a line.
ClarificationTextAll(result, cs, mentioned) ==
  LET open == OpenOrders(result, cs, mentioned) IN
  Text([i \in DOMAIN result.cases |-> RenderCase(result.cases[i])],
       ClarificationQuestion(open, mentioned), open, FALSE)

\* _render_clarification
ClarificationText(result, cs, mentioned) ==
  LET open == OpenOrders(result, cs, mentioned)
      told == CasesAt(result.cases, {i \in DOMAIN result.cases :
                                       Resolved(cs[result.cases[i].order_id])})
  IN Text([i \in DOMAIN told |-> RenderCase(told[i])],
          ClarificationQuestion(open, mentioned), open, FALSE)

\* _case_customer_line: its own wording, not the renderer's.  An escalation, the
\* tool's or the placeholder of an open order, "requires additional review by a
\* human agent".
FailSafeLine(c) ==
  CASE c.decision = "AUTO_REFUND_APPROVED" -> Line(c, "REFUND_APPROVED", None)
    [] c.decision = "REJECTED" -> Line(c, "REJECTED", None)
    [] c.decision = "NO_ACTION" -> Line(c, "NOT_VERIFIED", None)
    [] OTHER -> Line(c, "HUMAN_REVIEW", None)

\* Mutation of IsUnresolvedEscalation: a trusted escalation counts too.
IsAnyEscalation(c) == c.decision = "HUMAN_ESCALATION"

\* _is_unresolved_escalation
IsUnresolvedEscalation(c) ==
  c.decision = "HUMAN_ESCALATION" /\ "UNRESOLVED_AT_FAILURE" \in c.escalation_reasons

\* The preamble hands the request over only for an open order, or where there is
\* no case to report.
FailSafeText(result) ==
  Text([i \in DOMAIN result.cases |-> FailSafeLine(result.cases[i])], None, {},
       \/ result.cases = <<>>
       \/ \E i \in DOMAIN result.cases : IsUnresolvedEscalation(result.cases[i]))

\* The runtime, not the model, wrote the delivered text.
Rendered(result) == result.customer_response \in {"TERMINAL", "CLARIFICATION", "FAIL_SAFE"}

\* The text of a rendered result.
DeliveredText(result, cs, mentioned) ==
  CASE result.customer_response = "TERMINAL" -> TerminalText(result)
    [] result.customer_response = "CLARIFICATION" ->
         ClarificationText(result, cs, mentioned)
    [] OTHER -> FailSafeText(result)
=============================================================================

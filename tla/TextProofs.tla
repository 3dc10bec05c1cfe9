------------------------------ MODULE TextProofs ------------------------------
(***************************************************************************)
(* Proofs about what the customer reads (CustomerText), for every evidence, *)
(* every draft and every way a turn can end: each line of either renderer  *)
(* is compared with the evidence of its order, and the lines and the       *)
(* question of a text with the orders of the turn.                         *)
(***************************************************************************)
EXTENDS DeliveryProofs

\* What a line may say of a case, given whether the text announces a handoff.
LineFollows(line, case, handoff) ==
  /\ line.statement \in Supported(case, handoff)
  /\ line.statement = "REFUND_APPROVED" => line.refund = case.refund_result.refund
  /\ line.verdict # None => line.verdict = TrustedVerdict(case)

\* A trusted status comes with a refund answer, and decides what may be said.
LEMMA StatusSupports ==
  ASSUME NEW case, NEW handoff \in BOOLEAN, TrustedStatus(case) \in RefundStatuses
  PROVE  /\ case.refund_result # None
         /\ TrustedStatus(case) = "APPROVED" => Supported(case, handoff) = {"REFUND_APPROVED"}
         /\ TrustedStatus(case) = "ESCALATION_REQUIRED" =>
              Supported(case, handoff) = {"REVIEW_REQUIRED", "HUMAN_REVIEW"}
         /\ TrustedStatus(case) = "REJECTED" => Supported(case, handoff) = {"REJECTED"}
<1>1. case.refund_result # None
  BY NoneAssumption DEF TrustedStatus, RefundStatuses
<1>2. CASE TrustedStatus(case) = "APPROVED"
  BY <1>1, <1>2 DEF Supported, RefundStatuses
<1>3. CASE TrustedStatus(case) = "ESCALATION_REQUIRED"
  BY <1>1, <1>3 DEF Supported, RefundStatuses
<1>4. CASE TrustedStatus(case) = "REJECTED"
  BY <1>1, <1>4 DEF Supported, RefundStatuses
<1> QED BY <1>1, <1>2, <1>3, <1>4 DEF RefundStatuses

\* _render_case: the line of an accepted case of a settled order.
LEMMA RenderedLine ==
  ASSUME NEW case \in CaseStates, NEW c \in CaseResults, NEW handoff \in BOOLEAN,
         CaseConsistent(c, case), Resolved(case)
  PROVE  RenderCase(c).order_id = c.order_id /\ LineFollows(RenderCase(c), case, handoff)
<1> DEFINE line == RenderCase(c)
<1>0. c.decision \in Decisions /\ case.terminal_error \in TerminalErrors \cup {None}
  BY DEF CaseResults, CaseStates
<1>1. /\ line.order_id = c.order_id
      /\ line.statement \in Statements
      /\ line.statement = "REFUND_APPROVED" <=> c.decision = "AUTO_REFUND_APPROVED"
      /\ line.statement = "REVIEW_REQUIRED" <=> c.decision = "HUMAN_ESCALATION"
      /\ line.statement = "REJECTED" <=> c.decision = "REJECTED"
      /\ line.statement = "NOT_VERIFIED" <=>
           c.decision = "NO_ACTION" /\ c.error_code = "ORDER_NOT_FOUND"
      /\ line.statement = "REFUND_APPROVED" => line.refund = c.refund
      /\ line.verdict # None => line.verdict = c.policy_verdict
  BY <1>0 DEF RenderCase, Line, Decisions, Statements
<1> HIDE DEF line
<1>2. /\ line.statement = "REFUND_APPROVED" => line.refund = case.refund_result.refund
      /\ line.verdict # None => line.verdict = TrustedVerdict(case)
  BY <1>1 DEF CaseConsistent
<1>3. line.statement \in Supported(case, handoff)
  <2>1. CASE TrustedStatus(case) = "APPROVED"
    BY <1>1, <2>1, StatusSupports DEF CaseConsistent, RefundStatuses
  <2>2. CASE TrustedStatus(case) = "ESCALATION_REQUIRED"
    BY <1>1, <2>2, StatusSupports DEF CaseConsistent, RefundStatuses
  <2>3. CASE TrustedStatus(case) = "REJECTED"
    BY <1>1, <2>3, StatusSupports DEF CaseConsistent, RefundStatuses
  <2>4. CASE TrustedStatus(case) \notin RefundStatuses
    <3>1. c.decision # "AUTO_REFUND_APPROVED"
      BY <2>4 DEF CaseConsistent, RefundStatuses
    <3>2. CASE case.refund_result # None
      BY <1>1, <2>4, <3>1, <3>2 DEF Supported, RefundStatuses
    <3>3. CASE case.refund_result = None /\ case.terminal_error # None
      <4>1. c.decision = "NO_ACTION" /\ c.error_code = "ORDER_NOT_FOUND"
        BY <1>0, <3>3 DEF CaseConsistent, TerminalErrors
      <4> QED BY <1>1, <2>4, <3>3, <4>1 DEF Supported, RefundStatuses
    <3>4. CASE case.refund_result = None /\ case.terminal_error = None
      <4>1. Ineligible(case) /\ c.decision = "REJECTED"
        BY <3>4 DEF Resolved, CaseConsistent
      <4> QED BY <1>1, <2>4, <3>4, <4>1 DEF Supported, RefundStatuses
    <3> QED BY <3>2, <3>3, <3>4
  <2> QED BY <2>1, <2>2, <2>3, <2>4 DEF RefundStatuses
<1> QED BY <1>1, <1>2, <1>3 DEF LineFollows, line

\* _case_result_from_evidence escalates an order that was left open, and one the
\* tool escalated; no other.
LEMMA EscalatedExactly ==
  ASSUME NEW o \in Orders, NEW case \in CaseStates
  PROVE  CaseResultFromEvidence(o, case).decision = "HUMAN_ESCALATION"
           <=> ~Resolved(case) \/ TrustedStatus(case) = "ESCALATION_REQUIRED"
<1> DEFINE f == CaseResultFromEvidence(o, case)
<1> USE DEF Bare
<1>1. CASE TrustedStatus(case) = "ESCALATION_REQUIRED"
  BY <1>1, StatusSupports DEF CaseResultFromEvidence, RefundOutcome, RefundStatuses
<1>2. CASE case.refund_result # None /\ TrustedStatus(case) # "ESCALATION_REQUIRED"
  <2>1. f.decision \in {"AUTO_REFUND_APPROVED", "REJECTED"}
    BY <1>2 DEF CaseResultFromEvidence, RefundOutcome
  <2> QED BY <1>2, <2>1 DEF Resolved
<1>3. CASE case.refund_result = None
  <2>1. TrustedStatus(case) = None /\ TrustedStatus(case) \notin RefundStatuses
    BY <1>3, NoneAssumption DEF TrustedStatus
  <2>2. CASE case.terminal_error # None
    BY <1>3, <2>1, <2>2
       DEF CaseResultFromEvidence, TerminalOutcome, RefundStatuses, Resolved
  <2>3. CASE case.terminal_error = None /\ Ineligible(case)
    BY <1>3, <2>1, <2>3
       DEF CaseResultFromEvidence, IneligibleOutcome, RefundStatuses, Resolved
  <2>4. CASE case.terminal_error = None /\ ~Ineligible(case)
    <3>1. ~Resolved(case)
      BY <1>3, <2>4 DEF Resolved
    <3>2. IsUnresolvedEscalation(f)
      BY <3>1, FailSafeAgrees
    <3> QED BY <3>1, <3>2 DEF IsUnresolvedEscalation
  <2> QED BY <2>2, <2>3, <2>4
<1> QED BY <1>1, <1>2, <1>3

\* _case_customer_line: the line of a case of the fail-safe result.  It names a
\* human agent exactly for an order that was left open or that the tool escalated.
LEMMA FailSafeLineFollows ==
  ASSUME NEW o \in Orders, NEW case \in CaseStates, NEW handoff \in BOOLEAN,
         IsUnresolvedEscalation(CaseResultFromEvidence(o, case)) => handoff
  PROVE  LET line == FailSafeLine(CaseResultFromEvidence(o, case)) IN
         /\ line.order_id = o
         /\ LineFollows(line, case, handoff)
         /\ line.statement = "HUMAN_REVIEW"
              <=> ~Resolved(case) \/ TrustedStatus(case) = "ESCALATION_REQUIRED"
<1> DEFINE f == CaseResultFromEvidence(o, case)
           line == FailSafeLine(f)
<1>0. f.decision \in Decisions /\ f.order_id = o /\ f \in CaseResults
  BY CaseResultNotNone, FailSafeAgrees DEF CaseResults
<1>1. /\ line.order_id = o /\ line.verdict = None
      /\ line.statement \in Statements
      /\ line.statement = "REFUND_APPROVED" <=> f.decision = "AUTO_REFUND_APPROVED"
      /\ line.statement = "HUMAN_REVIEW" <=> f.decision = "HUMAN_ESCALATION"
      /\ line.statement = "REJECTED" <=> f.decision = "REJECTED"
      /\ line.statement = "NOT_VERIFIED" <=> f.decision = "NO_ACTION"
      /\ line.statement = "REFUND_APPROVED" => line.refund = f.refund
  BY <1>0 DEF FailSafeLine, Line, Decisions, Statements
<1> HIDE DEF line
<1>2. line.statement = "REFUND_APPROVED" => line.refund = case.refund_result.refund
  BY <1>1, FailSafeAgrees
<1>3. line.statement \in Supported(case, handoff)
  <2> USE DEF Bare
  <2>1. CASE TrustedStatus(case) = "APPROVED"
    <3>1. f.decision = "AUTO_REFUND_APPROVED"
      BY <2>1, StatusSupports DEF CaseResultFromEvidence, RefundOutcome, RefundStatuses
    <3> QED BY <1>1, <2>1, <3>1, StatusSupports DEF RefundStatuses
  <2>2. CASE TrustedStatus(case) = "ESCALATION_REQUIRED"
    <3>1. f.decision = "HUMAN_ESCALATION"
      BY <2>2, StatusSupports DEF CaseResultFromEvidence, RefundOutcome, RefundStatuses
    <3> QED BY <1>1, <2>2, <3>1, StatusSupports DEF RefundStatuses
  <2>3. CASE case.refund_result # None
             /\ TrustedStatus(case) \notin {"APPROVED", "ESCALATION_REQUIRED"}
    <3>1. f.decision = "REJECTED"
      BY <2>3 DEF CaseResultFromEvidence, RefundOutcome
    <3> QED BY <1>1, <2>3, <3>1 DEF Supported, RefundStatuses
  <2>4. CASE case.refund_result = None
    <3>1. TrustedStatus(case) = None /\ TrustedStatus(case) \notin RefundStatuses
      BY <2>4, NoneAssumption DEF TrustedStatus
    <3>2. CASE case.terminal_error # None
      <4>1. f.decision = "NO_ACTION"
        BY <2>4, <3>1, <3>2 DEF CaseResultFromEvidence, TerminalOutcome, RefundStatuses
      <4> QED BY <1>1, <2>4, <3>1, <3>2, <4>1 DEF Supported, RefundStatuses
    <3>3. CASE case.terminal_error = None /\ Ineligible(case)
      <4>1. f.decision = "REJECTED"
        BY <2>4, <3>1, <3>3 DEF CaseResultFromEvidence, IneligibleOutcome, RefundStatuses
      <4> QED BY <1>1, <2>4, <3>1, <3>3, <4>1 DEF Supported, RefundStatuses
    <3>4. CASE case.terminal_error = None /\ ~Ineligible(case)
      <4>1. f.decision = "HUMAN_ESCALATION" /\ IsUnresolvedEscalation(f)
        <5>1. ~Resolved(case)
          BY <2>4, <3>4 DEF Resolved
        <5> QED BY <5>1, FailSafeAgrees DEF IsUnresolvedEscalation
      <4> QED BY <1>1, <2>4, <3>1, <3>4, <4>1 DEF Supported, RefundStatuses
    <3> QED BY <3>2, <3>3, <3>4
  <2> QED BY <2>1, <2>2, <2>3, <2>4
<1>4. line.statement = "HUMAN_REVIEW"
        <=> ~Resolved(case) \/ TrustedStatus(case) = "ESCALATION_REQUIRED"
  BY <1>1, EscalatedExactly
<1> QED BY <1>1, <1>2, <1>3, <1>4 DEF LineFollows, line

-----------------------------------------------------------------------------
(* The three texts the runtime renders.                                    *)

\* Which text a draft's projection is delivered in.
LEMMA DraftWording ==
  ASSUME NEW cs, NEW slice, NEW r, FromDraft(r, cs, slice), Rendered(r)
  PROVE  \/ r.status = "COMPLETED" /\ r.customer_response = "TERMINAL"
         \/ r.status = "NEEDS_CLARIFICATION" /\ r.customer_response = "CLARIFICATION"
<1>1. PICK draft \in Drafts : r = ProjectResultFromState(draft, cs, slice)
  BY DEF FromDraft
<1>2. r.customer_response = RenderedWording(r.status, r.cases, draft.customer_response)
  BY <1>1 DEF ProjectResultFromState
<1>3. draft.customer_response \in {"MODEL", "BLANK"}
  BY AgentAssumption
<1> QED BY <1>2, <1>3 DEF RenderedWording, Rendered

\* Every case of a draft's projection that its evidence settles has a line that
\* follows that evidence.
LEMMA DraftLines ==
  ASSUME NEW cs \in [Orders -> CaseStates], NEW slice \in Seq(ToolInteractions), NEW r,
         FromDraft(r, cs, slice), NEW i \in DOMAIN r.cases,
         Resolved(cs[r.cases[i].order_id]), NEW handoff \in BOOLEAN
  PROVE  LET line == RenderCase(r.cases[i]) IN
         /\ line.order_id = r.cases[i].order_id
         /\ LineFollows(line, cs[line.order_id], handoff)
<1>1. CaseConsistent(r.cases[i], cs[r.cases[i].order_id])
  BY DEF FromDraft, Valid, CaseAccepted
<1>2. r.cases[i] \in CaseResults /\ cs[r.cases[i].order_id] \in CaseStates
  BY ResultTyped
<1>3. /\ RenderCase(r.cases[i]).order_id = r.cases[i].order_id
      /\ LineFollows(RenderCase(r.cases[i]), cs[r.cases[i].order_id], handoff)
  BY <1>1, <1>2, RenderedLine
<1> QED BY <1>3

\* The cases a clarification tells about: the settled ones, each once.
LEMMA ToldCases ==
  ASSUME NEW cs \in [Orders -> CaseStates], NEW slice \in Seq(ToolInteractions), NEW r,
         FromDraft(r, cs, slice), r.customer_response = "CLARIFICATION", NEW asked
  PROVE  LET text == DeliveredText(r, cs, asked) IN
         /\ text.handoff \in BOOLEAN
         /\ text.about = OpenOrders(r, cs, asked)
         /\ text.question = ClarificationQuestion(text.about, asked)
         /\ \A n \in DOMAIN text.lines : \E i \in DOMAIN r.cases :
              /\ Resolved(cs[r.cases[i].order_id])
              /\ text.lines[n] = RenderCase(r.cases[i])
         /\ \A i \in DOMAIN r.cases : Resolved(cs[r.cases[i].order_id]) =>
              \E n \in DOMAIN text.lines : text.lines[n] = RenderCase(r.cases[i])
         /\ OneCasePerOrder(text.lines)
<1> DEFINE text == DeliveredText(r, cs, asked)
           P == {i \in DOMAIN r.cases : Resolved(cs[r.cases[i].order_id])}
           told == CasesAt(r.cases, P)
<1>1. r.cases \in Seq(CaseResults) /\ P \in SUBSET DOMAIN r.cases
  BY ResultTyped
<1>2. OneCasePerOrder(r.cases)
  BY DEF FromDraft, Valid, OneCasePerOrder
<1>3. /\ \A n \in DOMAIN told : \E i \in P : told[n] = r.cases[i]
      /\ \A i \in P : \E n \in DOMAIN told : told[n] = r.cases[i]
      /\ OneCasePerOrder(told)
  <2> HIDE DEF P
  <2> QED BY <1>1, <1>2, CasesKept
<1>4. text = ClarificationText(r, cs, asked)
  BY DEF DeliveredText
<1>5. /\ text.handoff \in BOOLEAN /\ text.about = OpenOrders(r, cs, asked)
      /\ text.question = ClarificationQuestion(text.about, asked)
      /\ text.lines = [n \in DOMAIN told |-> RenderCase(told[n])]
  BY <1>4 DEF ClarificationText, Text
<1>6. \A c : RenderCase(c).order_id = c.order_id
  BY DEF RenderCase, Line
<1> HIDE DEF told, text
<1>7. OneCasePerOrder(text.lines)
  BY <1>3, <1>5, <1>6 DEF OneCasePerOrder
<1>8. \A n \in DOMAIN text.lines : \E i \in P : text.lines[n] = RenderCase(r.cases[i])
  BY <1>3, <1>5
<1>9. \A i \in P : \E n \in DOMAIN text.lines : text.lines[n] = RenderCase(r.cases[i])
  BY <1>3, <1>5
<1> QED BY <1>5, <1>7, <1>8, <1>9 DEF text

\* The fail-safe text: one line for every known order of the turn, which names a
\* human agent exactly if the order is open or was escalated by the tool, and a
\* handoff exactly when one of them is open or there is none.
LEMMA FailSafeLines ==
  ASSUME NEW cs \in [Orders -> CaseStates], NEW slice \in Seq(ToolInteractions), NEW r,
         FromFailure(r, cs, slice), NEW asked
  PROVE  LET text == DeliveredText(r, cs, asked)
             known == {o \in TouchedCaseIds(slice) : Known(cs[o])}
         IN
         /\ r.customer_response = "FAIL_SAFE"
         /\ text.about = {} /\ text.question = None
         /\ \A n \in DOMAIN text.lines :
              /\ text.lines[n].order_id \in known
              /\ LineFollows(text.lines[n], cs[text.lines[n].order_id], text.handoff)
              /\ text.lines[n].statement = "HUMAN_REVIEW" <=>
                   \/ ~Resolved(cs[text.lines[n].order_id])
                   \/ TrustedStatus(cs[text.lines[n].order_id]) = "ESCALATION_REQUIRED"
         /\ \A o \in known : \E n \in DOMAIN text.lines : text.lines[n].order_id = o
         /\ OneCasePerOrder(text.lines)
         /\ text.handoff = (known = {} \/ \E o \in known : ~Resolved(cs[o]))
<1> DEFINE text == DeliveredText(r, cs, asked)
           touched == TouchedCaseIds(slice)
           known == {o \in touched : Known(cs[o])}
<1>1. IsFiniteSet(touched) /\ touched \in SUBSET Orders
  BY TouchedFinite
<1>2. r.customer_response = "FAIL_SAFE" /\ r.cases = FailSafeCases(cs, touched)
  BY DEF FromFailure, BuildFailSafeResult
<1>3. /\ r.cases \in Seq(CaseResults)
      /\ \A i \in DOMAIN r.cases :
           /\ r.cases[i].order_id \in known
           /\ r.cases[i] = CaseResultFromEvidence(r.cases[i].order_id, cs[r.cases[i].order_id])
      /\ \A o \in known : \E i \in DOMAIN r.cases :
           /\ r.cases[i] = CaseResultFromEvidence(o, cs[o])
           /\ \A j \in DOMAIN r.cases : r.cases[j].order_id = o => j = i
  <2> HIDE DEF touched
  <2> QED BY <1>1, <1>2, FailSafeList
<1> DEFINE open == \/ r.cases = <<>>
                  \/ \E i \in DOMAIN r.cases : IsUnresolvedEscalation(r.cases[i])
<1>4. text = Text([i \in DOMAIN r.cases |-> FailSafeLine(r.cases[i])], None, {}, open)
  BY <1>2 DEF DeliveredText, FailSafeText
<1>5. /\ text.about = {} /\ text.question = None
      /\ text.lines = [i \in DOMAIN r.cases |-> FailSafeLine(r.cases[i])]
      /\ text.handoff = open
  <2> HIDE DEF open, text
  <2> QED BY <1>4 DEF Text
<1> HIDE DEF text
<1>6. ASSUME NEW i \in DOMAIN r.cases
      PROVE  /\ text.lines[i].order_id = r.cases[i].order_id
             /\ LineFollows(text.lines[i], cs[r.cases[i].order_id], text.handoff)
             /\ text.lines[i].statement = "HUMAN_REVIEW" <=>
                  \/ ~Resolved(cs[r.cases[i].order_id])
                  \/ TrustedStatus(cs[r.cases[i].order_id]) = "ESCALATION_REQUIRED"
             /\ IsUnresolvedEscalation(r.cases[i]) <=> ~Resolved(cs[r.cases[i].order_id])
  <2> DEFINE o == r.cases[i].order_id
  <2>1. o \in Orders /\ cs[o] \in CaseStates /\ r.cases[i] = CaseResultFromEvidence(o, cs[o])
    BY <1>1, <1>3
  <2>2. text.handoff \in BOOLEAN /\ (IsUnresolvedEscalation(r.cases[i]) => text.handoff)
    BY <1>5
  <2>3. text.lines[i] = FailSafeLine(CaseResultFromEvidence(o, cs[o]))
    BY <1>5, <2>1
  <2>4. /\ text.lines[i].order_id = o
        /\ LineFollows(text.lines[i], cs[o], text.handoff)
        /\ text.lines[i].statement = "HUMAN_REVIEW"
             <=> ~Resolved(cs[o]) \/ TrustedStatus(cs[o]) = "ESCALATION_REQUIRED"
    <3> HIDE DEF o
    <3> QED BY <2>1, <2>2, <2>3, FailSafeLineFollows
  <2>5. IsUnresolvedEscalation(r.cases[i]) <=> ~Resolved(cs[o])
    <3> HIDE DEF o
    <3> QED BY <2>1, FailSafeAgrees
  <2> QED BY <2>4, <2>5
<1>7. DOMAIN text.lines = DOMAIN r.cases
  BY <1>5
<1>8. \A o \in known : \E i \in DOMAIN r.cases : r.cases[i].order_id = o
  <2> SUFFICES ASSUME NEW o \in known PROVE \E i \in DOMAIN r.cases : r.cases[i].order_id = o
    OBVIOUS
  <2>1. PICK i \in DOMAIN r.cases : r.cases[i] = CaseResultFromEvidence(o, cs[o])
    BY <1>3
  <2> QED BY <1>1, <2>1, FailSafeAgrees
<1>9. OneCasePerOrder(text.lines)
  <2> SUFFICES ASSUME NEW i \in DOMAIN r.cases, NEW j \in DOMAIN r.cases,
                      r.cases[i].order_id = r.cases[j].order_id
               PROVE  i = j
    BY <1>6, <1>7 DEF OneCasePerOrder
  <2> QED BY <1>3
<1>10. text.handoff = (known = {} \/ \E o \in known : ~Resolved(cs[o]))
  <2>1. r.cases = <<>> <=> known = {}
    BY <1>3, <1>8
  <2>2. (\E i \in DOMAIN r.cases : IsUnresolvedEscalation(r.cases[i]))
          <=> \E o \in known : ~Resolved(cs[o])
    BY <1>3, <1>6, <1>8
  <2> QED BY <1>5, <2>1, <2>2
<1> QED BY <1>2, <1>3, <1>5, <1>6, <1>7, <1>8, <1>9, <1>10 DEF text

\* Every line of a text the runtime wrote says what the evidence of its order
\* supports, with the refund and the verdict of that evidence, whichever of the
\* two renderers wrote it.
THEOREM TextFollows == Spec => []TextFollowsEvidence
<1>1. ASSUME IInv, DInv PROVE TextFollowsEvidence
  <2> SUFFICES ASSUME TurnEnded, Rendered(result), NEW n \in DOMAIN ReadText.lines
               PROVE  LineFollows(ReadText.lines[n], cases[ReadText.lines[n].order_id],
                                  ReadText.handoff)
    BY DEF TextFollowsEvidence, LineFollows
  <2>0. cases \in [Orders -> CaseStates] /\ TurnHistory \in Seq(ToolInteractions)
    BY <1>1, AtTurnEnd
  <2>1. CASE FromDraft(result, cases, TurnHistory) /\ result.customer_response = "TERMINAL"
    <3>1. result.status = "COMPLETED"
      BY <2>1, DraftWording
    <3>2. /\ ReadText.handoff \in BOOLEAN
          /\ ReadText.lines = [i \in DOMAIN result.cases |-> RenderCase(result.cases[i])]
      BY <2>1 DEF ReadText, DeliveredText, TerminalText, Text
    <3>3. n \in DOMAIN result.cases /\ ReadText.lines[n] = RenderCase(result.cases[n])
      BY <3>2
    <3>4. Resolved(cases[result.cases[n].order_id])
      <4>1. Valid(result, cases, TurnHistory)
        BY <2>1 DEF FromDraft
      <4>2. CaseAccepted(result.cases[n], cases[result.cases[n].order_id], result.status)
        BY <3>3, <4>1 DEF Valid
      <4> QED BY <3>1, <4>2 DEF CaseAccepted
    <3> QED BY <2>0, <2>1, <3>2, <3>3, <3>4, DraftLines
  <2>2. CASE FromDraft(result, cases, TurnHistory) /\ result.customer_response = "CLARIFICATION"
    <3>1. ReadText.handoff \in BOOLEAN
      BY <2>0, <2>2, ToldCases DEF ReadText
    <3>2. PICK i \in DOMAIN result.cases :
            /\ Resolved(cases[result.cases[i].order_id])
            /\ ReadText.lines[n] = RenderCase(result.cases[i])
      BY <2>0, <2>2, ToldCases DEF ReadText
    <3> QED BY <2>0, <2>2, <3>1, <3>2, DraftLines
  <2>3. CASE FromFailure(result, cases, TurnHistory)
    BY <2>0, <2>3, FailSafeLines DEF ReadText
  <2> QED BY <1>1, <2>1, <2>2, <2>3, AtTurnEnd, DraftWording
<1> QED BY <1>1, DInvariance, PTL

\* A failed turn hands the request to a human agent exactly when it leaves a known
\* order open or has none to report, and names one in the line of an order exactly
\* when the turn left that order open or the tool escalated it.
THEOREM HumanReviewExact == Spec => []HumanReviewFollowsEvidence
<1>1. ASSUME IInv, DInv PROVE HumanReviewFollowsEvidence
  <2> DEFINE Reviewed(o) ==
               ~Resolved(cases[o]) \/ TrustedStatus(cases[o]) = "ESCALATION_REQUIRED"
  <2> SUFFICES ASSUME TurnEnded, failure_reason # None
               PROVE  /\ ReadText.handoff =
                           (KnownTouched = {} \/ \E o \in KnownTouched : ~Resolved(cases[o]))
                      /\ \A o \in Orders :
                           (\E i \in LinesFor(o) : ReadText.lines[i].statement = "HUMAN_REVIEW")
                             <=> o \in KnownTouched /\ Reviewed(o)
    BY DEF HumanReviewFollowsEvidence
  <2>1. /\ ReadText.handoff =
             (KnownTouched = {} \/ \E o \in KnownTouched : ~Resolved(cases[o]))
        /\ \A n \in DOMAIN ReadText.lines :
             /\ ReadText.lines[n].order_id \in KnownTouched
             /\ ReadText.lines[n].statement = "HUMAN_REVIEW"
                  <=> Reviewed(ReadText.lines[n].order_id)
        /\ \A o \in KnownTouched : \E n \in DOMAIN ReadText.lines :
             ReadText.lines[n].order_id = o
    <3>1. /\ cases \in [Orders -> CaseStates] /\ TurnHistory \in Seq(ToolInteractions)
          /\ FromFailure(result, cases, TurnHistory)
      BY <1>1, AtTurnEnd
    <3>2. KnownTouched = {o \in TouchedCaseIds(TurnHistory) : Known(cases[o])}
      BY DEF KnownTouched, Touched
    <3> QED BY <3>1, <3>2, FailSafeLines DEF ReadText
  <2> HIDE DEF Reviewed
  <2>2. ASSUME NEW o \in Orders, NEW i \in LinesFor(o),
               ReadText.lines[i].statement = "HUMAN_REVIEW"
        PROVE  o \in KnownTouched /\ Reviewed(o)
    BY <2>1, <2>2 DEF LinesFor
  <2>3. ASSUME NEW o \in KnownTouched, Reviewed(o)
        PROVE  \E i \in LinesFor(o) : ReadText.lines[i].statement = "HUMAN_REVIEW"
    BY <2>1, <2>3 DEF LinesFor
  <2> QED BY <2>1, <2>2, <2>3
<1> QED BY <1>1, DInvariance, PTL

\* At most one line has the order, if no two lines have the same one.
LEMMA AtMostOneLine ==
  ASSUME NEW lines, OneCasePerOrder(lines), NEW o
  PROVE  Cardinality({n \in DOMAIN lines : lines[n].order_id = o}) <= 1
<1> DEFINE S == {n \in DOMAIN lines : lines[n].order_id = o}
<1>1. CASE S = {}
  BY <1>1, FS_EmptySet
<1>2. CASE S # {}
  <2>1. PICK n \in S : TRUE
    BY <1>2
  <2>2. S = {n}
    BY <2>1 DEF OneCasePerOrder
  <2>3. Cardinality(S) = 1
    BY <2>2, FS_Singleton
  <2> QED BY <2>3
<1> QED BY <1>1, <1>2

\* In a clarification or fail-safe text every known order of the turn has exactly
\* one line or is asked about, never both, and a question is about open orders.
THEOREM OrdersAnswered == Spec => []EveryOrderAnswered
<1>1. ASSUME IInv, DInv PROVE EveryOrderAnswered
  <2> SUFFICES ASSUME TurnEnded, result.customer_response \in {"CLARIFICATION", "FAIL_SAFE"}
               PROVE  /\ \A o \in Touched : Known(cases[o]) =>
                           (o \in ReadText.about) = (LinesFor(o) = {})
                      /\ OneCasePerOrder(ReadText.lines)
                      /\ \A o \in ReadText.about : ~Resolved(cases[o])
                      /\ ReadText.question = "ORDER_NUMBER" =>
                           /\ mentioned = {}
                           /\ \A o \in Touched : Known(cases[o]) => Resolved(cases[o])
    BY AtMostOneLine DEF EveryOrderAnswered, LinesFor
  <2>0. /\ cases \in [Orders -> CaseStates] /\ TurnHistory \in Seq(ToolInteractions)
        /\ Touched \in SUBSET Orders /\ IsFiniteSet(Touched)
    BY <1>1, AtTurnEnd
  <2>1. CASE FromFailure(result, cases, TurnHistory)
    <3>1. /\ ReadText.about = {} /\ ReadText.question = None
          /\ \A o \in Touched : Known(cases[o]) =>
               \E n \in DOMAIN ReadText.lines : ReadText.lines[n].order_id = o
          /\ OneCasePerOrder(ReadText.lines)
      BY <2>0, <2>1, FailSafeLines DEF ReadText, Touched
    <3> QED BY <3>1, TextAssumption DEF LinesFor, Questions
  <2>2. CASE FromDraft(result, cases, TurnHistory)
    <3>1. result.status = "NEEDS_CLARIFICATION" /\ result.customer_response = "CLARIFICATION"
      BY <2>2, DraftWording DEF Rendered
    <3>2. /\ ReadText.about = OpenOrders(result, cases, mentioned)
          /\ ReadText.question = ClarificationQuestion(ReadText.about, mentioned)
          /\ \A n \in DOMAIN ReadText.lines : \E i \in DOMAIN result.cases :
               /\ Resolved(cases[result.cases[i].order_id])
               /\ ReadText.lines[n] = RenderCase(result.cases[i])
          /\ \A i \in DOMAIN result.cases : Resolved(cases[result.cases[i].order_id]) =>
               \E n \in DOMAIN ReadText.lines : ReadText.lines[n] = RenderCase(result.cases[i])
          /\ OneCasePerOrder(ReadText.lines)
      BY <2>0, <2>2, <3>1, ToldCases DEF ReadText
    <3>3. \A c : RenderCase(c).order_id = c.order_id
      BY DEF RenderCase, Line
    \* A clarification keeps every touched order, settled or not.
    <3>4. \A o \in Touched : \E i \in DOMAIN result.cases : result.cases[i].order_id = o
      <4>1. PICK draft \in Drafts : result = ProjectResultFromState(draft, cases, TurnHistory)
        BY <2>2 DEF FromDraft
      <4>2. /\ draft \in AgentResults /\ draft.status = "NEEDS_CLARIFICATION"
            /\ result.cases = ProjectedCases(draft, cases, Touched)
        BY <3>1, <4>1, AgentAssumption DEF ProjectResultFromState, Touched
      <4>3. KeptOrders(draft, cases, Touched) = Touched
        BY <4>2 DEF KeptOrders
      <4> SUFFICES ASSUME NEW o \in Touched
                   PROVE  \E i \in DOMAIN result.cases : result.cases[i].order_id = o
        OBVIOUS
      <4>4. PICK i \in DOMAIN result.cases : result.cases[i] = ProjectedCase(draft, o, cases[o])
        BY <2>0, <4>2, <4>3, ProjectedList
      <4>5. ProjectedCase(draft, o, cases[o]).order_id = o
        BY <2>0, <4>2, <4>3, ProjectedCaseTyped
      <4> QED BY <4>4, <4>5
    <3>5. ASSUME NEW o \in Touched, Known(cases[o])
          PROVE  /\ o \in ReadText.about <=> ~Resolved(cases[o])
                 /\ LinesFor(o) = {} <=> ~Resolved(cases[o])
      <4>1. PICK i \in DOMAIN result.cases : result.cases[i].order_id = o
        BY <3>4
      <4>2. o \in ReadText.about <=> ~Resolved(cases[o])
        BY <3>2, <3>5, <4>1 DEF OpenOrders, Reported
      <4>3. ASSUME Resolved(cases[o]) PROVE LinesFor(o) # {}
        BY <3>2, <3>3, <4>1, <4>3 DEF LinesFor
      <4>4. ASSUME ~Resolved(cases[o]), NEW n \in LinesFor(o) PROVE FALSE
        BY <3>2, <3>3, <4>4 DEF LinesFor
      <4> QED BY <4>2, <4>3, <4>4
    <3>6. \A o \in ReadText.about : ~Resolved(cases[o])
      BY <3>2 DEF OpenOrders
    <3>7. ReadText.question = "ORDER_NUMBER" => mentioned = {} /\ ReadText.about = {}
      BY <3>2 DEF ClarificationQuestion
    <3> QED BY <3>2, <3>5, <3>6, <3>7
  <2> QED BY <1>1, <2>1, <2>2, AtTurnEnd
<1> QED BY <1>1, DInvariance, PTL
=============================================================================

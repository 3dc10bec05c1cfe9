----------------------------- MODULE MCAgentTurn -----------------------------
(***************************************************************************)
(* AgentTurn on the small catalogue: the calls, batches and drafts its     *)
(* runs let the model choose from.                                         *)
(***************************************************************************)
EXTENDS EvalScoring, Catalogue

RealDetails == Call("get_order_details", real, None)
GhostDetails == Call("get_order_details", ghost, None)
Profile == Call("get_user_profile", None, "u1")
Policy(reason) == Call("check_return_policy", real, reason)
Refund(amount) == Call("process_refund", real, amount)

Singles(S) == {<<c>> : c \in S}

Draft(status, caseList, wording) ==
  [status |-> status, tools_called |-> {}, cases |-> caseList,
   customer_response |-> wording]

ClaimRefund == [Bare(real, "AUTO_REFUND_APPROVED") EXCEPT !.refund = "RF_small"]
ClaimRejection == [Bare(real, "REJECTED") EXCEPT !.escalation_reasons = {"DRAFTED"}]
ClaimReview == [Bare(real, "HUMAN_ESCALATION") EXCEPT !.escalation_reasons = {"DRAFTED"}]
ClaimMissing == [Bare(ghost, "NO_ACTION") EXCEPT !.error_code = "ORDER_NOT_FOUND"]

\* What a model may draft: honest, empty, fabricated, duplicated and blank.
WideDrafts ==
  { Draft("COMPLETED", <<>>, "MODEL"), Draft("COMPLETED", <<>>, "BLANK"),
    Draft("COMPLETED", <<ClaimRefund>>, "MODEL"),
    Draft("COMPLETED", <<ClaimRejection, ClaimMissing>>, "MODEL"),
    Draft("COMPLETED", <<ClaimMissing, ClaimMissing>>, "MODEL"),
    Draft("NEEDS_CLARIFICATION", <<>>, "MODEL"),
    Draft("NEEDS_CLARIFICATION", <<ClaimRejection>>, "MODEL"),
    Draft("NEEDS_CLARIFICATION", <<Bare(real, "NO_ACTION")>>, "BLANK"),
    Draft("FAILED_SAFE", <<ClaimReview>>, "MODEL"),
    Draft("FAILED_SAFE", <<ClaimRefund>>, "MODEL") }

FewDrafts ==
  { Draft("COMPLETED", <<>>, "MODEL"), Draft("COMPLETED", <<ClaimRefund>>, "MODEL"),
    Draft("NEEDS_CLARIFICATION", <<ClaimRejection>>, "MODEL") }

\* One turn: calls alone or in pairs, every evidence a case can
\* reach in that many steps.
WideCalls ==
  {RealDetails, GhostDetails, Profile, Policy("damaged"), Policy("remorse"), Policy("typo"),
   Refund("small"), Refund("large"), Refund("risky"), Refund("odd"),
   Call("unknown_tool", None, None)}

WideBatches ==
  Singles(WideCalls)
    \cup {<<Policy("damaged"), Refund("small")>>, <<Policy("damaged"), Refund("risky")>>,
          <<Policy("damaged"), Refund("large")>>, <<Policy("damaged"), Refund("odd")>>,
          <<RealDetails, GhostDetails>>}

\* The scenarios of the catalogue, one of each kind: approval, escalation of a
\* pinned request, rejection by policy, an order that does not exist; and one
\* of two orders that, unlike them, does not say what became of a refund.
Expected(o, d) ==
  [order_id |-> o, decision |-> d, policy_verdict |-> None, error_code |-> None,
   refund_status |-> None, refund_must_not_execute |-> FALSE, request |-> None]

Scenario(e, terminal) ==
  [expected_status |-> "COMPLETED", cases |-> {e}, terminal_error_case |-> terminal]

MCScenarios ==
  { Scenario([Expected(real, "AUTO_REFUND_APPROVED") EXCEPT
                !.policy_verdict = "ELIGIBLE", !.refund_status = "APPROVED"], FALSE),
    Scenario([Expected(real, "HUMAN_ESCALATION") EXCEPT
                !.policy_verdict = "ELIGIBLE", !.refund_status = "ESCALATION_REQUIRED",
                !.request = "risky"], FALSE),
    Scenario([Expected(real, "REJECTED") EXCEPT
                !.policy_verdict = "OUTSIDE_RETURN_WINDOW",
                !.refund_must_not_execute = TRUE], FALSE),
    Scenario([Expected(ghost, "NO_ACTION") EXCEPT
                !.error_code = "ORDER_NOT_FOUND", !.refund_must_not_execute = TRUE], TRUE),
    [Scenario(Expected(real, "REJECTED"), FALSE) EXCEPT
       !.cases = @ \cup {Expected(ghost, "NO_ACTION")}] }

\* A session of two turns.
SessionCalls ==
  {GhostDetails, Policy("damaged"), Policy("remorse"), Refund("small"), Refund("risky"),
   Refund("odd")}

SessionBatches ==
  Singles(SessionCalls) \cup {<<Policy("damaged"), Refund("small")>>}

\* What a customer message names.
MaybeReal == {{}, {real}}
AlwaysReal == {{real}}

\* Tool exchanges: batches of one to three calls, a failing tool anywhere, ids
\* missing or repeated.
ExchangeCalls == {GhostDetails, Policy("damaged"), Refund("small")}

ExchangeBatches ==
  Singles({GhostDetails})
    \cup {<<Policy("damaged"), Refund("small")>>,
          <<GhostDetails, Policy("damaged"), Refund("small")>>}

\* No step limit: the model may repeat itself for ever.
EndlessCalls == {GhostDetails, RealDetails, Policy("damaged")}
EndlessBatches == Singles(EndlessCalls)

OneDraft == {Draft("COMPLETED", <<>>, "MODEL")}

\* The calls of the runs that refute a documented claim.
RefundCalls == {Policy("damaged"), Refund("small"), Refund("large")}
TypoCalls == {Policy("typo")}
DetailCalls == {RealDetails}

RefundBatches == Singles(RefundCalls)
TypoBatches == Singles(TypoCalls)
DetailBatches == Singles(DetailCalls)

AskDrafts == {Draft("NEEDS_CLARIFICATION", <<>>, "MODEL")}
GuessDrafts == OneDraft \cup {Draft("FAILED_SAFE", <<ClaimRejection>>, "MODEL")}
=============================================================================

------------------------------ MODULE Catalogue ------------------------------
(***************************************************************************)
(* A small instance of the external tool layer for the model-checking      *)
(* modules: one real order with an eligible and an ineligible return       *)
(* reason and one refund request per status, one order that does not       *)
(* exist, two users.                                                       *)
(***************************************************************************)
EXTENDS Evidence

CONSTANTS real, ghost

MCOrders == {real, ghost}
MCUsers == {"u1", "u2"}
MCDetails == MCUsers \cup {"damaged", "remorse", "typo", "small", "large", "risky", "odd"}
MCVerdicts == {"ELIGIBLE", "OUTSIDE_RETURN_WINDOW"}
MCRefunds == {"RF_small"}

Answer(error) ==
  [error |-> error, user_id |-> None, eligible |-> FALSE, verdict |-> None,
   status |-> None, refund |-> None]

PolicyFor(reason) ==
  CASE reason = "damaged" -> [Answer(None) EXCEPT !.eligible = TRUE, !.verdict = "ELIGIBLE"]
    [] reason = "remorse" -> [Answer(None) EXCEPT !.verdict = "OUTSIDE_RETURN_WINDOW"]
    [] OTHER -> Answer("INVALID_REASON")

RefundFor(amount) ==
  CASE amount = "small" -> [Answer(None) EXCEPT !.status = "APPROVED", !.refund = "RF_small"]
    [] amount = "large" -> [Answer(None) EXCEPT !.status = "REJECTED"]
    [] amount = "risky" -> [Answer(None) EXCEPT !.status = "ESCALATION_REQUIRED"]
    [] amount = "odd" -> [Answer(None) EXCEPT !.status = "UNRECOGNISED"]
    [] OTHER -> Answer("INVALID_AMOUNT")

\* The supplied catalogue: `real' belongs to u1, `ghost' does not exist.
MCService ==
  [k \in Keys |->
     IF k.name = "get_user_profile"
       THEN IF k.detail \in MCUsers THEN [Answer(None) EXCEPT !.user_id = k.detail]
                                    ELSE Answer("USER_NOT_FOUND")
     ELSE IF k.order # real THEN Answer("ORDER_NOT_FOUND")
     ELSE IF k.name = "get_order_details" THEN [Answer(None) EXCEPT !.user_id = "u1"]
     ELSE IF k.name = "check_return_policy" THEN PolicyFor(k.detail)
     ELSE RefundFor(k.detail)]

Call(name, order, detail) ==
  [key |-> [name |-> name, order |-> order, detail |-> detail, schema_ok |-> TRUE],
   raw |-> FALSE]

Malformed(name, order, raw) ==
  [key |-> [name |-> name, order |-> order, detail |-> None, schema_ok |-> FALSE],
   raw |-> raw]
=============================================================================

--------------------------- MODULE RefundAuthority ---------------------------
(***************************************************************************)
(* What the runtime promises about the irreversible tool, process_refund   *)
(* (docs/GUARDRAILS.md sections 3, 9 and 10), whatever the model asks for: *)
(* an order is licensed while its last policy verdict is an eligible one   *)
(* and the order is not closed by a terminal error; a refund request       *)
(* reaches the tool only for a licensed order; and no identical request    *)
(* reaches it twice.                                                       *)
(***************************************************************************)
CONSTANTS
  Orders,    \* order ids
  Requests,  \* refund requests: an order and the other arguments
  OrderOf    \* the order of every request

VARIABLES
  licensed,  \* orders a refund may be processed for now
  processed  \* requests process_refund has answered

Init == licensed = {} /\ processed = {}

License(o) ==
  /\ licensed' = licensed \cup {o}
  /\ UNCHANGED processed

Revoke(o) ==
  /\ licensed' = licensed \ {o}
  /\ UNCHANGED processed

\* The answer may itself close the order.
Process(req) ==
  /\ OrderOf[req] \in licensed
  /\ req \notin processed
  /\ processed' = processed \cup {req}
  /\ licensed' \in {licensed, licensed \ {OrderOf[req]}}

Next ==
  \/ \E o \in Orders : License(o) \/ Revoke(o)
  \/ \E req \in Requests : Process(req)

Spec == Init /\ [][Next]_<<licensed, processed>>
=============================================================================

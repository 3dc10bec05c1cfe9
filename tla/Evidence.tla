------------------------------ MODULE Evidence ------------------------------
(***************************************************************************)
(* The vocabulary of the resolver: tool calls, tool results, the trusted   *)
(* evidence kept per order (app/state.py, CaseState) and the records of    *)
(* tool_history (ToolInteraction).  The supplied tool layer                *)
(* (mock_services) is external to the repository: it is the constant       *)
(* function Service, of which only what app/ relies on is assumed.         *)
(*                                                                         *)
(* Abstractions: `detail' stands for every argument of a call except       *)
(* order_id (return reason; amount and reason of a refund; user id), and   *)
(* `refund' for the pair (approved_amount, refund_id) of an approval.      *)
(***************************************************************************)
EXTENDS Naturals, Sequences, FiniteSets

CONSTANTS
  Orders,    \* order ids, real or not
  Details,   \* values of the other arguments of a call
  Users,     \* user ids
  Verdicts,  \* the `verdict' codes of check_return_policy
  Refunds,   \* (approved_amount, refund_id) pairs
  None,      \* Python's None: an absent field or result
  Service    \* the tool registry: the result of every well-formed key

ToolNames ==
  {"get_order_details", "get_user_profile", "check_return_policy", "process_refund"}

\* Tools whose terminal error stops the case (ORDER_SCOPED_TOOLS).
OrderScoped == ToolNames \ {"get_user_profile"}

\* Business errors the supplied tools return as data.
TerminalErrors == {"ORDER_NOT_FOUND"}
ErrorCodes ==
  TerminalErrors \cup {"USER_NOT_FOUND", "INVALID_REASON", "INVALID_AMOUNT"}

\* The statuses app/ gives a meaning to; "UNRECOGNISED" is any other one.
RefundStatuses == {"APPROVED", "ESCALATION_REQUIRED", "REJECTED"}

ToolResults ==
  [error    : ErrorCodes \cup {None},      \* None: no "error" key
   user_id  : Users \cup {None},
   eligible : BOOLEAN,
   verdict  : Verdicts \cup {None},
   status   : RefundStatuses \cup {"UNRECOGNISED", None},
   refund   : Refunds \cup {None}]

(***************************************************************************)
(* The identity of a call, (tool_name, normalize_args(arguments)): both    *)
(* the cache and the duplicate detection use it.  `order' is None when     *)
(* order_id is absent or not a string, and `schema_ok' says whether the    *)
(* argument names are exactly those of the supplied schema.                *)
(***************************************************************************)
Keys == [name : ToolNames \cup {"unknown_tool"},
         order : Orders \cup {None}, detail : Details \cup {None},
         schema_ok : BOOLEAN]

\* A model-requested call: a key, and whether raw_arguments is present (the
\* arguments did not parse as a JSON object, so they are {}).
ToolCallRequests ==
  {call \in [key : Keys, raw : BOOLEAN] :
     call.raw => /\ call.key.order = None /\ call.key.detail = None
                 /\ ~call.key.schema_ok}

(***************************************************************************)
(* Trusted evidence for one order.  CaseState objects are created by       *)
(* setdefault immediately before one of their fields is set, so an order   *)
(* absent from state.cases is the record whose fields are all None.  The   *)
(* field `decision', which no tool reads, is a variable of AgentTurn.      *)
(***************************************************************************)
CaseStates ==
  [reason         : Details \cup {None},
   verified_order : ToolResults \cup {None},
   verified_user  : ToolResults \cup {None},
   policy_result  : ToolResults \cup {None},
   refund_result  : ToolResults \cup {None},
   terminal_error : TerminalErrors \cup {None}]

EmptyCase ==
  [reason |-> None, verified_order |-> None, verified_user |-> None,
   policy_result |-> None, refund_result |-> None, terminal_error |-> None]

\* `order_id in state.cases'
Known(case) == case # EmptyCase

Outcomes == {"EXECUTED", "CACHED", "BLOCKED", "BUSINESS_ERROR",
             "INVALID_ARGUMENTS", "UNKNOWN_TOOL", "SYSTEM_FAILURE"}

\* Outcomes that carry a trusted result (_FACTUAL_OUTCOMES, _EXECUTED_OUTCOMES,
\* _CACHEABLE_OUTCOMES: three copies of one tuple in the code).
Factual == {"EXECUTED", "CACHED", "BUSINESS_ERROR"}

\* Outcomes of a call that reached the supplied tool and returned.
Fresh == {"EXECUTED", "BUSINESS_ERROR"}

Reasons == {"CASE_TERMINAL_ERROR", "MISSING_ELIGIBLE_POLICY_PRECONDITION"}
           \cup ErrorCodes

ToolInteractions ==
  [key : Keys, outcome : Outcomes, result : ToolResults \cup {None},
   reason_code : Reasons \cup {None}]

(***************************************************************************)
(* What the runtime relies on about the tool layer.                        *)
(***************************************************************************)
ASSUME NoneAssumption ==
  /\ None \notin Orders \cup Details \cup Users \cup Verdicts \cup Refunds
  /\ None \notin ToolResults \cup ErrorCodes \cup RefundStatuses \cup {"UNRECOGNISED"}

\* The well-formed get_order_details calls for an order.
DetailsKeys(o) ==
  {k \in Keys : k.name = "get_order_details" /\ k.order = o /\ k.schema_ok}

\* Every tool is a deterministic function of its arguments (the premise of
\* app/tool_cache.py), answers without an error only for real orders, and
\* get_order_details has no argument but the order.
ASSUME ServiceAssumption ==
  /\ Service \in [Keys -> ToolResults]
  /\ \A k \in Keys : k.name \in OrderScoped /\ k.order = None
                        => Service[k].error # None
  /\ \A o \in Orders : \A k, l \in DetailsKeys(o) : Service[k] = Service[l]

\* Whether an order exists depends on the order alone: one that some tool does
\* not find, no order-scoped tool answers without an error.
ASSUME NotFoundAssumption ==
  \A k, l \in Keys :
    /\ k.name \in OrderScoped /\ l.name \in OrderScoped /\ k.order = l.order
    /\ Service[k].error \in TerminalErrors
    => Service[l].error # None

(***************************************************************************)
(* ToolExecutor._apply_trusted_result: the one path that stores trusted    *)
(* facts, for executed and cached results alike.                           *)
(***************************************************************************)

\* Mutation of StoreOnCase: every business error closes the case.
StoreOnCaseAnyError(key, r, case) ==
  IF r.error # None THEN [case EXCEPT !.terminal_error = r.error]
  ELSE IF key.name = "get_order_details" THEN [case EXCEPT !.verified_order = r]
  ELSE IF key.name = "check_return_policy"
       THEN [case EXCEPT !.policy_result = r, !.reason = key.detail]
  ELSE [case EXCEPT !.refund_result = r]

\* Mutation of StoreOnCase: a new verdict starts the case anew.
StoreOnCaseAnew(key, r, case) ==
  IF r.error \in TerminalErrors THEN [case EXCEPT !.terminal_error = r.error]
  ELSE IF r.error # None THEN case
  ELSE IF key.name = "get_order_details" THEN [case EXCEPT !.verified_order = r]
  ELSE IF key.name = "check_return_policy"
       THEN [EmptyCase EXCEPT !.policy_result = r, !.reason = key.detail]
  ELSE [case EXCEPT !.refund_result = r]

StoreOnCase(key, r, case) ==
  IF r.error \in TerminalErrors THEN [case EXCEPT !.terminal_error = r.error]
  ELSE IF r.error # None THEN case
  ELSE IF key.name = "get_order_details" THEN [case EXCEPT !.verified_order = r]
  ELSE IF key.name = "check_return_policy"
       THEN [case EXCEPT !.policy_result = r, !.reason = key.detail]
  ELSE [case EXCEPT !.refund_result = r]

\* Mutation of OwnedBy: any verified order takes any profile.
OwnedByAnyone(case, user) == case.verified_order # None

OwnedBy(case, user) ==
  case.verified_order # None /\ case.verified_order.user_id = user

ApplyTrustedResult(cs, key, r) ==
  [o \in Orders |->
     IF key.name \in OrderScoped /\ key.order = o THEN StoreOnCase(key, r, cs[o])
     ELSE IF key.name = "get_user_profile" /\ r.error = None /\ OwnedBy(cs[o], r.user_id)
          THEN [cs[o] EXCEPT !.verified_user = r]
     ELSE cs[o]]

\* touched_case_ids and factual_tools_called over a slice of tool_history.
TouchedCaseIds(slice) ==
  {o \in Orders : \E i \in DOMAIN slice : /\ slice[i].outcome \in Factual
                                          /\ slice[i].key.order = o}

FactualToolsCalled(slice) ==
  {n \in ToolNames : \E i \in DOMAIN slice : /\ slice[i].outcome \in Factual
                                             /\ slice[i].key.name = n}
=============================================================================

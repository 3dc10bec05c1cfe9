----------------------------- MODULE ToolExecutor -----------------------------
(***************************************************************************)
(* app/tool_executor.py: the guarded, cached dispatcher over the supplied  *)
(* tools, with app/guardrail.py and app/tool_cache.py.  The model may      *)
(* request any call of Calls at any time; every request is answered by     *)
(* exactly one of the branches of ToolExecutor.execute, in the order the   *)
(* code tests them.  A new customer turn rebuilds the cache from the       *)
(* session's tool_history (OperationsResolverAgent._reseed_cache).         *)
(***************************************************************************)
EXTENDS Evidence

CONSTANT Calls   \* the calls the model may request

ASSUME CallsAssumption == Calls \subseteq ToolCallRequests

\* The keys such calls have.
CallKeys == {call.key : call \in Calls}

VARIABLES
  cases,         \* state.cases: the evidence of every order
  tool_history,  \* state.tool_history: one record per requested call
  cache          \* ToolCache: the stored result of every requested key, or None

executorVars == <<cases, tool_history, cache>>

ExecutorInit ==
  /\ cases = [o \in Orders |-> EmptyCase]
  /\ tool_history = <<>>
  /\ cache = [k \in CallKeys |-> None]

-----------------------------------------------------------------------------
(* The conditions of ToolExecutor.execute, in the order they are tested.   *)

ToolExists(call) == call.key.name \in ToolNames

\* Mutation of CaseTerminal: only refunds are stopped.
CaseTerminalRefundOnly(key) ==
  /\ key.name = "process_refund"
  /\ key.order \in Orders
  /\ cases[key.order].terminal_error # None

\* _terminal_case_block
CaseTerminal(key) ==
  /\ key.name \in OrderScoped
  /\ key.order \in Orders
  /\ cases[key.order].terminal_error # None

\* Mutation of RefundPermitted: any verdict licenses a refund.
RefundPermittedAnyVerdict(key) ==
  /\ key.order \in Orders
  /\ cases[key.order].policy_result # None

\* Mutation of RefundPermitted: an eligible verdict licenses refunds for ever.
RefundPermittedForever(key) ==
  \E i \in DOMAIN tool_history :
    /\ tool_history[i].outcome \in Factual
    /\ tool_history[i].key.name = "check_return_policy"
    /\ tool_history[i].key.order = key.order
    /\ tool_history[i].result.eligible

\* check_refund_precondition
RefundPermitted(key) ==
  /\ key.order \in Orders
  /\ LET policy == cases[key.order].policy_result IN
       policy # None /\ policy.error = None /\ policy.eligible

\* The call has passed every check in front of the cache.
Admitted(call) ==
  /\ ToolExists(call)
  /\ ~call.raw
  /\ ~CaseTerminal(call.key)
  /\ call.key.schema_ok
  /\ call.key.name = "process_refund" => RefundPermitted(call.key)

Record(key, outcome, result, reason) ==
  tool_history' = Append(tool_history,
    [key |-> key, outcome |-> outcome, result |-> result, reason_code |-> reason])

Refuse(call, outcome, reason) ==
  /\ Record(call.key, outcome, None, reason)
  /\ UNCHANGED <<cases, cache>>

-----------------------------------------------------------------------------
(* The branches of ToolExecutor.execute.                                   *)

RejectUnknownTool(call) ==
  /\ ~ToolExists(call)
  /\ Refuse(call, "UNKNOWN_TOOL", None)

RejectUnparsed(call) ==
  /\ ToolExists(call) /\ call.raw
  /\ Refuse(call, "INVALID_ARGUMENTS", None)

BlockTerminalCase(call) ==
  /\ ToolExists(call) /\ ~call.raw /\ CaseTerminal(call.key)
  /\ Refuse(call, "BLOCKED", "CASE_TERMINAL_ERROR")

RejectStructure(call) ==
  /\ ToolExists(call) /\ ~call.raw /\ ~CaseTerminal(call.key)
  /\ ~call.key.schema_ok
  /\ Refuse(call, "INVALID_ARGUMENTS", None)

BlockRefund(call) ==
  /\ ToolExists(call) /\ ~call.raw /\ ~CaseTerminal(call.key)
  /\ call.key.schema_ok
  /\ call.key.name = "process_refund" /\ ~RefundPermitted(call.key)
  /\ Refuse(call, "BLOCKED", "MISSING_ELIGIBLE_POLICY_PRECONDITION")

\* Mutation of ServeCached: a cached answer is not stored in the case.
ServeCachedUnapplied(call) ==
  /\ Admitted(call)
  /\ cache[call.key] # None
  /\ Record(call.key, "CACHED", cache[call.key], None)
  /\ UNCHANGED <<cases, cache>>

ServeCached(call) ==
  /\ Admitted(call)
  /\ cache[call.key] # None
  /\ Record(call.key, "CACHED", cache[call.key], None)
  /\ cases' = ApplyTrustedResult(cases, call.key, cache[call.key])
  /\ UNCHANGED cache

ExecuteTool(call) ==
  /\ Admitted(call)
  /\ cache[call.key] = None
  /\ LET result == Service[call.key] IN
       /\ IF result.error # None
            THEN Record(call.key, "BUSINESS_ERROR", result, result.error)
            ELSE Record(call.key, "EXECUTED", result, None)
       /\ cache' = [cache EXCEPT ![call.key] = result]
       /\ cases' = ApplyTrustedResult(cases, call.key, result)

\* kit.call raises: recorded, nothing stored, ToolSystemFailure is raised.
FailTool(call) ==
  /\ Admitted(call)
  /\ cache[call.key] = None
  /\ Refuse(call, "SYSTEM_FAILURE", None)

\* The branches that return an observation.
Observe(call) ==
  \/ RejectUnknownTool(call)
  \/ RejectUnparsed(call)
  \/ BlockTerminalCase(call)
  \/ RejectStructure(call)
  \/ BlockRefund(call)
  \/ ServeCached(call)
  \/ ExecuteTool(call)

Execute(call) == Observe(call) \/ FailTool(call)

-----------------------------------------------------------------------------
(* Between two executions the agent may start a new customer turn.         *)

\* Mutation of Replayed: business errors are not replayed.
ReplayedExecuted(key) ==
  {i \in DOMAIN tool_history : /\ tool_history[i].outcome = "EXECUTED"
                               /\ tool_history[i].key = key}

\* tool_history entries _reseed_cache replays for one key, and the last one.
Replayed(key) ==
  {i \in DOMAIN tool_history : /\ tool_history[i].outcome \in Factual
                               /\ tool_history[i].result # None
                               /\ tool_history[i].key = key}

LastIndex(indices) == CHOOSE i \in indices : \A j \in indices : j <= i

ReseedCache ==
  cache' = [k \in CallKeys |->
              IF Replayed(k) = {} THEN None ELSE tool_history[LastIndex(Replayed(k))].result]

NewTurn ==
  /\ ReseedCache
  /\ UNCHANGED <<cases, tool_history>>

ExecutorNext ==
  \/ \E call \in Calls : Execute(call)
  \/ NewTurn

ExecutorSpec == ExecutorInit /\ [][ExecutorNext]_executorVars
-----------------------------------------------------------------------------
(* Properties.                                                             *)

FactualAt(i) == tool_history[i].outcome \in Factual

TypeOK ==
  /\ cases \in [Orders -> CaseStates]
  /\ tool_history \in Seq(ToolInteractions)
  /\ cache \in [CallKeys -> ToolResults \cup {None}]

\* A factual check_return_policy answer for order o, without an error.
PolicyAnswer(i, o) ==
  /\ FactualAt(i)
  /\ tool_history[i].key.name = "check_return_policy"
  /\ tool_history[i].key.order = o
  /\ tool_history[i].result.error = None

\* check_refund_precondition: whenever process_refund reached the tool or the
\* cache, the LAST policy answer for that order before it was an eligible one;
\* an answer for another order, or an earlier eligible one that a later
\* ineligible answer replaced, does not license it.
RefundPrecondition ==
  \A i \in DOMAIN tool_history :
    FactualAt(i) /\ tool_history[i].key.name = "process_refund" =>
      \E j \in 1 .. (i - 1) :
        /\ PolicyAnswer(j, tool_history[i].key.order)
        /\ tool_history[j].result.eligible
        /\ \A k \in (j + 1) .. (i - 1) : ~PolicyAnswer(k, tool_history[i].key.order)

\* ToolCache and _reseed_cache: no call that the supplied tool already answered
\* is executed again, in the same customer turn or in a later one.
NoReexecution ==
  \A i, j \in DOMAIN tool_history :
    /\ i # j
    /\ tool_history[i].outcome \in Fresh /\ tool_history[j].outcome \in Fresh
    => tool_history[i].key # tool_history[j].key

\* _terminal_case_block: after a trusted terminal error for an order, no
\* order-scoped call for that order reaches the tool or the cache again.
TerminalCaseStopped ==
  \A i, j \in DOMAIN tool_history :
    /\ i < j
    /\ FactualAt(i)
    /\ tool_history[i].key.name \in OrderScoped
    /\ tool_history[i].key.order \in Orders
    /\ tool_history[i].result.error \in TerminalErrors
    /\ tool_history[j].key.name \in OrderScoped
    /\ tool_history[j].key.order = tool_history[i].key.order
    => tool_history[j].outcome \notin Factual \cup {"SYSTEM_FAILURE"}

\* Entry i is the last factual, error-free answer of tool `name' for order o.
LastAnswer(i, name, o) ==
  /\ FactualAt(i) /\ tool_history[i].result.error = None
  /\ tool_history[i].key.name = name /\ tool_history[i].key.order = o
  /\ \A j \in (i + 1) .. Len(tool_history) :
       ~( /\ FactualAt(j) /\ tool_history[j].result.error = None
          /\ tool_history[j].key.name = name /\ tool_history[j].key.order = o )

\* What a case holds as the answer of `name' is exactly the last answer the
\* model was shown: executed and cache-served calls update it alike.
FieldIsLastAnswer(name, o, field) ==
  IF field = None THEN \A i \in DOMAIN tool_history : ~LastAnswer(i, name, o)
  ELSE \E i \in DOMAIN tool_history :
         LastAnswer(i, name, o) /\ tool_history[i].result = field

\* _apply_trusted_result: no result shown to the model is missing from the
\* evidence, and no evidence is there that the tools did not return.
EvidenceIsLastAnswer ==
  \A o \in Orders :
    /\ FieldIsLastAnswer("get_order_details", o, cases[o].verified_order)
    /\ FieldIsLastAnswer("check_return_policy", o, cases[o].policy_result)
    /\ FieldIsLastAnswer("process_refund", o, cases[o].refund_result)

\* get_user_profile is attached only to cases of the same user: a profile
\* never leaks to another customer's order.
ProfileMatchesOwner ==
  \A o \in Orders :
    cases[o].verified_user # None =>
      /\ cases[o].verified_order # None
      /\ cases[o].verified_order.user_id = cases[o].verified_user.user_id

\* No step forgets what the session learned from the tools, also when a new
\* turn begins; after a terminal error only a profile may still be added.
NothingForgotten ==
  /\ \A o \in Orders :
       /\ cases[o].verified_order # None => cases'[o].verified_order # None
       /\ cases[o].policy_result # None => cases'[o].policy_result # None
       /\ cases[o].refund_result # None => cases'[o].refund_result # None
       /\ cases[o].terminal_error # None =>
            cases'[o] = [cases[o] EXCEPT !.verified_user = cases'[o].verified_user]
  /\ \A k \in CallKeys : cache[k] # None => cache'[k] = cache[k]

\* _prepare_state and _reseed_cache: the state handed from turn to turn is never
\* reset, and an answer once cached is never lost or replaced.
EvidenceKept == [][NothingForgotten]_executorVars

-----------------------------------------------------------------------------
(* What the executor promises about refunds: it implements RefundAuthority *)
(* under this mapping.                                                     *)

LicensedOrders ==
  {o \in Orders : /\ cases[o].terminal_error = None
                  /\ cases[o].policy_result # None
                  /\ cases[o].policy_result.eligible}

RefundKeys == {k \in CallKeys : k.name = "process_refund"}

ProcessedKeys ==
  {k \in RefundKeys : \E i \in DOMAIN tool_history :
                        tool_history[i].outcome \in Fresh /\ tool_history[i].key = k}

Authority ==
  INSTANCE RefundAuthority WITH
    Requests <- RefundKeys, OrderOf <- [k \in RefundKeys |-> k.order],
    licensed <- LicensedOrders, processed <- ProcessedKeys

\* A refund reaches the tool only for an order licensed at that moment, and no
\* identical request reaches it twice, over all turns of the session.
ImplementsRefundAuthority == Authority!Spec
=============================================================================

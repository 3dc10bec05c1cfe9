------------------------------ MODULE AgentTurn ------------------------------
(***************************************************************************)
(* app/agent.py, OperationsResolverAgent.handle_customer_message: one      *)
(* customer turn after another over one session state, with the LLM retry  *)
(* (app/llm/retry.py), the tool executor, finalization with at most one    *)
(* repair (app/repair.py) and the fail-safe path.                          *)
(*                                                                         *)
(* The program is a single thread; what is not determined by it is the     *)
(* LLM: how an attempt ends, which calls it requests, what it drafts.      *)
(***************************************************************************)
EXTENDS ToolExecutor, CustomerText

CONSTANTS
  Batches,     \* the non-empty sequences of Calls a response may request
  RawIds,      \* tool-call ids the provider may send; None: no id
  Drafts,      \* the final outputs that parse as an AgentResult
  Mentions,    \* sets of orders a customer message may name
  MaxSteps,    \* settings.agent_max_steps; None: no limit
  MaxRetries,  \* settings.llm_max_retries
  MaxTurns     \* bound: customer messages per session

FailureReasons ==
  {"MAX_STEPS_EXCEEDED", "LLM_FAILURE", "TOOL_SYSTEM_FAILURE", "NO_PROGRESS",
   "OUTPUT_REPAIR_FAILED", "VALIDATION_FAILED_AFTER_REPAIR"}

ASSUME AgentAssumption ==
  /\ Batches \subseteq Seq(Calls) \ {<<>>}
  /\ Drafts \subseteq AgentResults
  /\ \A draft \in Drafts : draft.customer_response \in {"MODEL", "BLANK"}
  /\ Mentions \subseteq SUBSET Orders
  /\ MaxSteps \in (Nat \ {0}) \cup {None}
  /\ MaxRetries \in Nat /\ MaxTurns \in Nat
  /\ None \notin FailureReasons

NoProgressLimit == 3   \* NO_PROGRESS_LIMIT

Phases == {"idle", "loop", "model", "tools", "repair", "closing"}

VARIABLES
  phase,               \* where the turn is; "idle": between two customer messages
  turns,               \* customer messages received so far
  messages,            \* state.messages: role and tool-call ids of each
  mentioned,           \* the orders the latest customer message names
  step_count,          \* state.step_count
  attempt,             \* attempt number of the current generate_with_retry
  calls,               \* tool calls of the response being processed, with ids
  executed,            \* how many of them have been executed
  duplicate_step,      \* _all_calls_duplicate of that response
  no_progress_steps,   \* consecutive duplicate steps
  turn_start_history,  \* len(tool_history) when the turn began
  model_calls,         \* the kinds of the recorded model calls of the turn
  answered,            \* responses the provider returned in the turn
  failure_reason,      \* failure_reason, then state.failure_reason
  result,              \* the accepted result, then state.final_result
  decision             \* case.decision of every order

loopVars == <<step_count, attempt, calls, executed, duplicate_step, no_progress_steps>>
outcomeVars == <<failure_reason, result, decision>>
traceVars == <<model_calls, answered>>
sessionVars == <<turns, turn_start_history, mentioned>>
vars == <<executorVars, phase, messages, loopVars, outcomeVars, traceVars, sessionVars>>

Message(role, ids) == [role |-> role, ids |-> ids]

Init ==
  /\ ExecutorInit
  /\ phase = "idle" /\ turns = 0 /\ turn_start_history = 0
  /\ messages = <<Message("system", <<>>)>> /\ mentioned = {}
  /\ step_count = 0 /\ attempt = 0 /\ no_progress_steps = 0
  /\ calls = <<>> /\ executed = 0 /\ duplicate_step = FALSE
  /\ model_calls = <<>> /\ answered = 0
  /\ failure_reason = None /\ result = None
  /\ decision = [o \in Orders |-> None]

\* The tool_history entries of the current turn.
TurnHistory == SubSeq(tool_history, turn_start_history + 1, Len(tool_history))

-----------------------------------------------------------------------------
(* The turn begins: _prepare_state, then the customer's message.           *)

\* Mutation of PrepareState: the evidence of earlier turns is dropped.
PrepareStateAfresh ==
  /\ cases' = [o \in Orders |-> EmptyCase]
  /\ ReseedCache
  /\ UNCHANGED tool_history
  /\ step_count' = 0 /\ failure_reason' = None /\ result' = None

PrepareState ==
  /\ NewTurn
  /\ step_count' = 0 /\ failure_reason' = None /\ result' = None

StartTurn ==
  /\ phase = "idle" /\ turns < MaxTurns
  /\ PrepareState
  /\ turns' = turns + 1
  /\ turn_start_history' = Len(tool_history)
  /\ messages' = Append(messages, Message("user", <<>>))
  /\ mentioned' \in Mentions
  /\ no_progress_steps' = 0
  /\ model_calls' = <<>> /\ answered' = 0
  /\ phase' = "loop"
  /\ UNCHANGED <<attempt, calls, executed, duplicate_step, decision>>

Fail(reason) ==
  /\ failure_reason' = reason
  /\ phase' = "closing"
  /\ UNCHANGED <<result, decision>>

\* Without a limit the loop is stopped by NO_PROGRESS alone.
StepLimitReached == MaxSteps # None /\ step_count >= MaxSteps

StopAtMaxSteps ==
  /\ phase = "loop" /\ StepLimitReached
  /\ Fail("MAX_STEPS_EXCEEDED")
  /\ UNCHANGED <<executorVars, messages, loopVars, traceVars, sessionVars>>

\* Mutation of CallModel: one step too many.
CallModelOnceMore ==
  /\ phase = "loop" /\ (StepLimitReached => step_count = MaxSteps)
  /\ step_count' = step_count + 1
  /\ attempt' = 1
  /\ phase' = "model"
  /\ UNCHANGED <<executorVars, messages, calls, executed, duplicate_step,
                 no_progress_steps, outcomeVars, traceVars, sessionVars>>

CallModel ==
  /\ phase = "loop" /\ ~StepLimitReached
  /\ step_count' = step_count + 1
  /\ attempt' = 1
  /\ phase' = "model"
  /\ UNCHANGED <<executorVars, messages, calls, executed, duplicate_step,
                 no_progress_steps, outcomeVars, traceVars, sessionVars>>

-----------------------------------------------------------------------------
(* generate_with_retry, for the main call and for the repair call.         *)

AwaitingModel == phase \in {"model", "repair"}

CallFailed ==
  Fail(IF phase = "model" THEN "LLM_FAILURE" ELSE "OUTPUT_REPAIR_FAILED")

\* Mutation of RetryTransient: the attempts start over instead of running out.
RetryTransientForever ==
  /\ AwaitingModel
  /\ attempt' = IF attempt < MaxRetries + 1 THEN attempt + 1 ELSE 1
  /\ UNCHANGED <<executorVars, phase, messages, step_count, calls, executed,
                 duplicate_step, no_progress_steps, outcomeVars, traceVars, sessionVars>>

RetryTransient ==
  /\ AwaitingModel /\ attempt < MaxRetries + 1
  /\ attempt' = attempt + 1
  /\ UNCHANGED <<executorVars, phase, messages, step_count, calls, executed,
                 duplicate_step, no_progress_steps, outcomeVars, traceVars, sessionVars>>

\* The last allowed attempt failed transiently.
ExhaustRetries ==
  /\ AwaitingModel /\ attempt >= MaxRetries + 1
  /\ CallFailed
  /\ UNCHANGED <<executorVars, messages, loopVars, traceVars, sessionVars>>

\* Any other provider exception propagates at once, whatever the attempt.
FailProvider ==
  /\ AwaitingModel
  /\ CallFailed
  /\ UNCHANGED <<executorVars, messages, loopVars, traceVars, sessionVars>>

RecordModelCall(kind) ==
  /\ model_calls' = Append(model_calls, kind)
  /\ answered' = answered + 1

-----------------------------------------------------------------------------
(* A response with tool calls.                                             *)

\* ensure_unique_tool_call_ids: an empty id, or one already seen in the
\* response, is replaced by a fresh one.
UniqueIds(raw) ==
  [i \in DOMAIN raw |->
     IF raw[i] # None /\ \A j \in 1 .. (i - 1) : raw[j] # raw[i]
       THEN <<"provider", raw[i]>> ELSE <<"fresh", i>>]

\* to_wire_messages raises for a stored message that lacks a tool-call id.
WireAccepts(message) == \A i \in DOMAIN message.ids : message.ids[i] # <<"provider", None>>

AllCallsDuplicate(batch) ==
  \A i \in DOMAIN batch :
    \E j \in DOMAIN tool_history : tool_history[j].key = batch[i].key

RequestTools(batch, raw) ==
  /\ phase = "model"
  /\ RecordModelCall("tool_call")
  /\ duplicate_step' = AllCallsDuplicate(batch)
  /\ calls' = [i \in DOMAIN batch |-> [call |-> batch[i], id |-> UniqueIds(raw)[i]]]
  /\ executed' = 0
  /\ messages' = Append(messages, Message("calls", UniqueIds(raw)))
  /\ phase' = "tools"
  /\ UNCHANGED <<executorVars, step_count, attempt, no_progress_steps, outcomeVars,
                 sessionVars>>

ExecuteNextCall ==
  /\ phase = "tools" /\ executed < Len(calls)
  /\ LET next == calls[executed + 1] IN
       /\ Observe(next.call)
       /\ messages' = Append(messages, Message("tool", <<next.id>>))
  /\ executed' = executed + 1
  /\ UNCHANGED <<phase, step_count, attempt, calls, duplicate_step, no_progress_steps,
                 outcomeVars, traceVars, sessionVars>>

\* Mutation of CloseOutstandingCalls: only the failing call is closed.
CloseFailedCall(outstanding) ==
  messages' = Append(messages, Message("tool", <<outstanding[1].id>>))

\* _close_outstanding_calls: a cancellation observation for every open id.
CloseOutstandingCalls(outstanding) ==
  messages' = messages \o [i \in DOMAIN outstanding |->
                             Message("tool", <<outstanding[i].id>>)]

\* Mutation of FailNextCall: the loop continues after a tool failure.
FailNextCallAndContinue ==
  /\ phase = "tools" /\ executed < Len(calls)
  /\ FailTool(calls[executed + 1].call)
  /\ CloseOutstandingCalls(SubSeq(calls, executed + 1, Len(calls)))
  /\ phase' = "loop"
  /\ UNCHANGED <<outcomeVars, loopVars, traceVars, sessionVars>>

\* ToolSystemFailure: the failing call and the ones after it are closed, none
\* of them runs, and the turn fails.
FailNextCall ==
  /\ phase = "tools" /\ executed < Len(calls)
  /\ FailTool(calls[executed + 1].call)
  /\ CloseOutstandingCalls(SubSeq(calls, executed + 1, Len(calls)))
  /\ Fail("TOOL_SYSTEM_FAILURE")
  /\ UNCHANGED <<loopVars, traceVars, sessionVars>>

\* Mutation of FinishBatch: repetitions must fill a whole run of the limit.
FinishBatchPatient ==
  /\ phase = "tools" /\ executed = Len(calls)
  /\ no_progress_steps' = IF duplicate_step THEN no_progress_steps + 1 ELSE 0
  /\ IF no_progress_steps' > 2 * NoProgressLimit
       THEN Fail("NO_PROGRESS")
       ELSE phase' = "loop" /\ UNCHANGED outcomeVars
  /\ UNCHANGED <<executorVars, messages, step_count, attempt, calls, executed,
                 duplicate_step, traceVars, sessionVars>>

FinishBatch ==
  /\ phase = "tools" /\ executed = Len(calls)
  /\ no_progress_steps' = IF duplicate_step THEN no_progress_steps + 1 ELSE 0
  /\ IF no_progress_steps' >= NoProgressLimit
       THEN Fail("NO_PROGRESS")
       ELSE phase' = "loop" /\ UNCHANGED outcomeVars
  /\ UNCHANGED <<executorVars, messages, step_count, attempt, calls, executed,
                 duplicate_step, traceVars, sessionVars>>

-----------------------------------------------------------------------------
(* A response without tool calls: _finalize_from_content.                  *)

Projected(draft) == ProjectResultFromState(draft, cases, TurnHistory)

Acceptable(draft) == Valid(Projected(draft), cases, TurnHistory)

Accept(draft) ==
  /\ result' = Projected(draft)
  /\ phase' = "closing"
  /\ UNCHANGED <<failure_reason, decision>>

FinalizeDraft(draft) ==
  /\ phase = "model" /\ Acceptable(draft)
  /\ RecordModelCall("final")
  /\ Accept(draft)
  /\ UNCHANGED <<executorVars, messages, loopVars, sessionVars>>

\* The content does not parse, or its projection has validation issues: one
\* repair call on an ephemeral copy of the conversation, without tools.
AskRepair ==
  /\ RecordModelCall("final")
  /\ attempt' = 1
  /\ phase' = "repair"
  /\ UNCHANGED <<executorVars, messages, step_count, calls, executed, duplicate_step,
                 no_progress_steps, outcomeVars, sessionVars>>

RejectMalformed == phase = "model" /\ AskRepair

RejectDraft(draft) == phase = "model" /\ ~Acceptable(draft) /\ AskRepair

\* The repair response requests tools or does not parse: RepairFailed, raised
\* before the repair call is recorded.
FailRepair ==
  /\ phase = "repair"
  /\ answered' = answered + 1
  /\ Fail("OUTPUT_REPAIR_FAILED")
  /\ UNCHANGED <<executorVars, messages, loopVars, model_calls, sessionVars>>

\* Mutation of AcceptRepair: the repair is used but not recorded.
AcceptRepairUnrecorded(draft) ==
  /\ phase = "repair" /\ Acceptable(draft)
  /\ answered' = answered + 1
  /\ Accept(draft)
  /\ UNCHANGED <<executorVars, messages, loopVars, model_calls, sessionVars>>

AcceptRepair(draft) ==
  /\ phase = "repair" /\ Acceptable(draft)
  /\ RecordModelCall("repair")
  /\ Accept(draft)
  /\ UNCHANGED <<executorVars, messages, loopVars, sessionVars>>

\* Mutation of RejectRepair: an invalid repair is repaired again.
RejectRepairAgain(draft) ==
  /\ phase = "repair" /\ ~Acceptable(draft)
  /\ Len(model_calls) <= 5
  /\ RecordModelCall("repair")
  /\ UNCHANGED <<executorVars, phase, messages, loopVars, outcomeVars, sessionVars>>

RejectRepair(draft) ==
  /\ phase = "repair" /\ ~Acceptable(draft)
  /\ RecordModelCall("repair")
  /\ Fail("VALIDATION_FAILED_AFTER_REPAIR")
  /\ UNCHANGED <<executorVars, messages, loopVars, sessionVars>>

-----------------------------------------------------------------------------
(* The turn ends: the fail-safe result if none was accepted, decisions     *)
(* mirrored into the known cases, the delivered text appended.             *)

Delivered ==
  IF result # None THEN result ELSE BuildFailSafeResult(cases, TurnHistory)

\* Mutation of MirroredDecision: the first decision is kept.
MirroredDecisionOnce(o) ==
  LET naming == {i \in DOMAIN Delivered.cases : Delivered.cases[i].order_id = o} IN
  IF Known(cases[o]) /\ naming # {} /\ decision[o] = None
    THEN Delivered.cases[LastIndex(naming)].decision ELSE decision[o]

\* The last case of the delivered list that names the order decides.
MirroredDecision(o) ==
  LET naming == {i \in DOMAIN Delivered.cases : Delivered.cases[i].order_id = o} IN
  IF Known(cases[o]) /\ naming # {} THEN Delivered.cases[LastIndex(naming)].decision
                                    ELSE decision[o]

CloseTurn ==
  /\ phase = "closing"
  /\ result' = Delivered
  /\ decision' = [o \in Orders |-> MirroredDecision(o)]
  /\ messages' = Append(messages, Message("assistant", <<>>))
  /\ phase' = "idle"
  /\ UNCHANGED <<executorVars, loopVars, failure_reason, traceVars, sessionVars>>

-----------------------------------------------------------------------------
ModelReplies ==
  \/ RetryTransient
  \/ ExhaustRetries
  \/ FailProvider
  \/ \E batch \in Batches : \E raw \in [DOMAIN batch -> RawIds] : RequestTools(batch, raw)
  \/ RejectMalformed
  \/ FailRepair
  \/ \E draft \in Drafts :
       \/ FinalizeDraft(draft)
       \/ RejectDraft(draft)
       \/ AcceptRepair(draft)
       \/ RejectRepair(draft)

TurnStep ==
  \/ StopAtMaxSteps
  \/ CallModel
  \/ ModelReplies
  \/ ExecuteNextCall
  \/ FailNextCall
  \/ FinishBatch
  \/ CloseTurn

Next == StartTurn \/ TurnStep

Spec == Init /\ [][Next]_vars

\* The thread that runs handle_customer_message keeps running, and every model
\* call ends: it returns, raises, or is cut off by llm_timeout_seconds.
FairSpec == Spec /\ WF_vars(TurnStep)

-----------------------------------------------------------------------------
(* Properties.                                                             *)

AgentTypeOK ==
  /\ TypeOK
  /\ phase \in Phases /\ turns \in 0 .. MaxTurns
  /\ mentioned \in Mentions \cup {{}}
  /\ step_count \in Nat /\ (MaxSteps # None => step_count <= MaxSteps)
  /\ attempt \in 0 .. (MaxRetries + 1)
  /\ executed \in 0 .. Len(calls) /\ duplicate_step \in BOOLEAN
  /\ no_progress_steps \in 0 .. NoProgressLimit
  /\ turn_start_history \in 0 .. Len(tool_history)
  /\ failure_reason \in FailureReasons \cup {None}
  /\ result \in AgentResults \cup {None}
  /\ decision \in [Orders -> Decisions \cup {None}]

\* The stored conversation is one the provider accepts: between the request of
\* a tool exchange and the next message of another kind, every requested id is
\* answered exactly once, in order, and nothing else is answered; also when a
\* tool failed half-way through a batch and the session continues.  Nor does
\* the conversion of the conversation to the wire raise: every id is there.
ExchangeClosed(i) ==
  LET ids == messages[i].ids IN
  /\ \A m, n \in DOMAIN ids : m # n => ids[m] # ids[n]
  /\ i + Len(ids) <= Len(messages)
  /\ \A n \in DOMAIN ids : messages[i + n] = Message("tool", <<ids[n]>>)
  /\ i + Len(ids) < Len(messages) => messages[i + Len(ids) + 1].role # "tool"

ConversationWellFormed ==
  phase # "tools" =>
    /\ \A i \in DOMAIN messages : WireAccepts(messages[i])
    /\ \A i \in DOMAIN messages : messages[i].role = "calls" => ExchangeClosed(i)
    /\ \A i \in DOMAIN messages : messages[i].role = "tool"
         => i > 1 /\ messages[i - 1].role \in {"calls", "tool"}

TurnEnded == phase = "idle" /\ turns > 0

\* The orders with factual evidence in the turn that has just ended.
Touched == TouchedCaseIds(TurnHistory)

DeliveredFor(o) ==
  {i \in DOMAIN result.cases : result.cases[i].order_id = o}

\* The projector, the validator and the fail-safe builder agree: however the
\* turn ended, every order resolved by this turn's evidence is delivered
\* exactly once, as the canonical outcome of that evidence.
ResolvedOutcomesDelivered ==
  TurnEnded =>
    \A o \in Touched :
      ProjectCaseResult(o, cases[o]) # None =>
        \E i \in DeliveredFor(o) :
          /\ DeliveredFor(o) = {i}
          /\ result.cases[i] = ProjectCaseResult(o, cases[o])

\* No turn, however it ended, reports a refund the tool did not approve: an
\* approval and its amount and id come from an APPROVED process_refund answer
\* in the session's history for that very order.
NoInventedRefund ==
  TurnEnded =>
    \A i \in DOMAIN result.cases :
      LET c == result.cases[i] IN
      c.decision = "AUTO_REFUND_APPROVED" \/ c.refund # None =>
        \E j \in DOMAIN tool_history :
          /\ FactualAt(j) /\ tool_history[j].key.name = "process_refund"
          /\ tool_history[j].key.order = c.order_id
          /\ tool_history[j].result.status = "APPROVED"
          /\ tool_history[j].result.refund = c.refund

\* A turn that completed or asked for clarification claims an outcome only for
\* orders whose evidence is terminal, and in wording the runtime rendered
\* whenever it reports a case.
OutcomesGrounded ==
  TurnEnded /\ result.status # "FAILED_SAFE" =>
    \A i \in DOMAIN result.cases :
      LET c == result.cases[i] IN
      /\ result.customer_response \in {"TERMINAL", "CLARIFICATION"}
      /\ Resolved(cases[c.order_id])
           \/ (result.status = "NEEDS_CLARIFICATION" /\ CarriesNoOutcome(c))

\* The fail-safe result is never validated by the code; it would pass.
FailSafeResultValid ==
  TurnEnded /\ failure_reason # None => Valid(result, cases, TurnHistory)

\* Across turns: the decision kept with a resolved order is the one its
\* evidence supports now, not the one an earlier turn delivered.
DecisionFollowsEvidence ==
  TurnEnded =>
    \A o \in Orders :
      LET canonical == ProjectCaseResult(o, cases[o]) IN
      canonical # None => decision[o] = canonical.decision

\* What the customer reads about the turn that has just ended.
ReadText == DeliveredText(result, cases, mentioned)

LinesFor(o) == {i \in DOMAIN ReadText.lines : ReadText.lines[i].order_id = o}

\* What the evidence of an order lets a text say of it.  A refund answer whose
\* status the runtime does not know leaves any statement but an approval.
Supported(case, handoff) ==
  CASE TrustedStatus(case) = "APPROVED" -> {"REFUND_APPROVED"}
    [] TrustedStatus(case) = "ESCALATION_REQUIRED" -> {"REVIEW_REQUIRED", "HUMAN_REVIEW"}
    [] TrustedStatus(case) = "REJECTED" -> {"REJECTED"}
    [] case.refund_result # None /\ TrustedStatus(case) \notin RefundStatuses ->
         Statements \ {"REFUND_APPROVED"}
    [] case.refund_result = None /\ case.terminal_error # None -> {"NOT_VERIFIED"}
    [] case.refund_result = None /\ case.terminal_error = None /\ Ineligible(case) ->
         {"REJECTED"}
    [] OTHER -> IF handoff THEN {"HUMAN_REVIEW"} ELSE {}

\* Every line of a text the runtime wrote says what the evidence of its order
\* supports, with the refund and the policy verdict of that evidence, whichever
\* of the two renderers wrote it and in whichever turn the evidence was found.
TextFollowsEvidence ==
  TurnEnded /\ Rendered(result) =>
    \A i \in DOMAIN ReadText.lines :
      LET line == ReadText.lines[i]
          case == cases[line.order_id]
      IN /\ line.statement \in Supported(case, ReadText.handoff)
         /\ line.statement = "REFUND_APPROVED" => line.refund = case.refund_result.refund
         /\ line.verdict # None => line.verdict = TrustedVerdict(case)

\* In a clarification or fail-safe text every order of the turn that has a case
\* gets exactly one line or is asked about, never both; a question is never
\* about a settled order, and the order number is only asked for when neither
\* the message nor the turn's evidence left an order open.
EveryOrderAnswered ==
  TurnEnded /\ result.customer_response \in {"CLARIFICATION", "FAIL_SAFE"} =>
    /\ \A o \in Touched : Known(cases[o]) =>
         (o \in ReadText.about) = (LinesFor(o) = {})
    /\ \A o \in Orders : Cardinality(LinesFor(o)) <= 1
    /\ \A o \in ReadText.about : ~Resolved(cases[o])
    /\ ReadText.question = "ORDER_NUMBER" =>
         /\ mentioned = {}
         /\ \A o \in Touched : Known(cases[o]) => Resolved(cases[o])

\* The orders of the turn the fail-safe result reports.
KnownTouched == {o \in Touched : Known(cases[o])}

\* What a failed turn says of human agents follows the evidence: the request is
\* handed over exactly when an order was left open or there is none to report,
\* and of an order the customer reads that a human agent reviews it exactly when
\* it was left open or the tool's last refund answer escalated it.
HumanReviewFollowsEvidence ==
  TurnEnded /\ failure_reason # None =>
    /\ ReadText.handoff =
         (KnownTouched = {} \/ \E o \in KnownTouched : ~Resolved(cases[o]))
    /\ \A o \in Orders :
         (\E i \in LinesFor(o) : ReadText.lines[i].statement = "HUMAN_REVIEW")
           <=> /\ o \in KnownTouched
               /\ ~Resolved(cases[o]) \/ TrustedStatus(cases[o]) = "ESCALATION_REQUIRED"

\* Once every order of the turn is resolved, no wording or claim of the draft
\* about those orders can cost a repair or a failure: the projection of any
\* draft that reports no other order is accepted.
ProjectionAccepted ==
  phase \in {"model", "repair"} /\ Touched # {}
    /\ (\A o \in Touched : ProjectCaseResult(o, cases[o]) # None)
  => \A draft \in Drafts : Reported(draft) \subseteq Touched => Acceptable(draft)

\* A turn makes at most MaxSteps model calls and one repair call; a repair
\* follows a rejected final output immediately, and nothing follows it.
ModelCallsBounded ==
  /\ MaxSteps # None => Len(model_calls) <= MaxSteps + 1
  /\ \A i \in DOMAIN model_calls :
       /\ model_calls[i] = "final" => i >= Len(model_calls) - 1
       /\ model_calls[i] = "repair" => i = Len(model_calls) /\ model_calls[i - 1] = "final"
       /\ model_calls[i] = "final" /\ i < Len(model_calls) => model_calls[i + 1] = "repair"

\* Every response the provider answered in a turn is in its recorded model
\* calls, and so in the totals, except one: a repair response that could not be
\* used.  That turn then ends in OUTPUT_REPAIR_FAILED after its final output.
ResponsesAccounted ==
  TurnEnded /\ answered # Len(model_calls) =>
    /\ answered = Len(model_calls) + 1
    /\ failure_reason = "OUTPUT_REPAIR_FAILED"
    /\ model_calls # <<>> /\ Last(model_calls) = "final"

\* Whatever the step limit, a turn takes at most three steps for every distinct
\* call, and one more: only a model that keeps inventing arguments goes on.
StepsBoundedByCalls ==
  step_count <= NoProgressLimit * Cardinality({call.key : call \in Calls}) + 1

\* A tool system failure ends the turn: nothing is requested or executed after
\* it until the next customer message, and its result is the fail-safe one.
SystemFailureEndsTurn ==
  \A i \in DOMAIN TurnHistory :
    TurnHistory[i].outcome = "SYSTEM_FAILURE" =>
      /\ i = Len(TurnHistory)
      /\ phase \in {"closing", "idle"}
      /\ failure_reason = "TOOL_SYSTEM_FAILURE"

\* The turn loop uses the executor only as the executor allows.
ImplementsExecutor == ExecutorSpec

\* Every customer message is answered.
TurnTerminates == phase # "idle" ~> phase = "idle"

-----------------------------------------------------------------------------
(* What the repository says of the program and the code does not keep:     *)
(* each of these is checked by a run that finds a counterexample.          *)

\* docs/GUARDRAILS.md:51, `process_refund: APPROVED' is delivered as
\* AUTO_REFUND_APPROVED.  A second process_refund for the order, with another
\* amount, overwrites refund_result.
ApprovedRefundReported ==
  TurnEnded =>
    \A j \in DOMAIN TurnHistory :
      /\ TurnHistory[j].outcome \in Factual
      /\ TurnHistory[j].key.name = "process_refund"
      /\ TurnHistory[j].result.status = "APPROVED"
      => \E i \in DeliveredFor(TurnHistory[j].key.order) :
           result.cases[i].decision = "AUTO_REFUND_APPROVED"

\* docs/GUARDRAILS.md:90, a touched but unresolved order of a clarification is
\* canonicalized to NO_ACTION (and so a bare clarification is deliverable).
\* The validator rejects that projection when the order has no case.
ClarificationAccepted ==
  phase = "model" =>
    \A draft \in Drafts :
      draft.status = "NEEDS_CLARIFICATION" /\ draft.cases = <<>> => Acceptable(draft)

\* docs/GUARDRAILS.md:61, customer-facing business claims are rendered from
\* canonical outcomes.  A COMPLETED draft that lists no case is delivered in
\* the model's own words, whatever order the turn worked on.
CompletedWordingRendered ==
  TurnEnded /\ result.status = "COMPLETED" /\ Touched # {}
    => result.customer_response = "TERMINAL"

\* docs/GUARDRAILS.md:47, terminal decisions are projected from evidence, not
\* accepted from the model.  A draft that calls itself FAILED_SAFE carries any
\* rejection of an unresolved order through projector and validator.
RejectionsGrounded ==
  TurnEnded =>
    \A i \in DOMAIN result.cases :
      result.cases[i].decision = "REJECTED" => Resolved(cases[result.cases[i].order_id])

\* app/agent.py:51 and :209, NO_PROGRESS is raised for repeated identical calls
\* that made no progress.  A refund blocked before its policy check counts as
\* the earlier identical call of the one that later executes.
NoProgressMadeNone ==
  TurnEnded /\ failure_reason = "NO_PROGRESS" =>
    \A i \in (Len(tool_history) - Len(calls) + 1) .. Len(tool_history) :
      tool_history[i].outcome \notin Fresh
=============================================================================

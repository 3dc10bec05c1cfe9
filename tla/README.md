# GlobalCart Operations Resolver — TLA+ verification

The repository is a customer-operations agent: an LLM requests tools, drafts a
structured result, and a deterministic runtime around it decides what may run and
what may be said. Nothing is assumed of the LLM: these modules state what the
runtime guarantees **whatever the model requests or drafts**, check it with TLC on
small instances, and prove with TLAPS, for every instance, the guarantees about
refunds, about what is delivered and said to the customer, about the loop and the
conversation. The output parser, the scorer and the evaluation runner, which decide
what a model said and whether it may be released, are modelled and proved about in
the same way.

Paths below are relative to the repository root (`app/agent.py` is
`src/app/agent.py`).

## 1. Inventory

### Components

| Component | State it keeps | Operations |
|---|---|---|
| `run_agent.py` (CLI) | the previous `AgentRun` | one message (`--message`) or a REPL that hands each run to the next turn |
| `app/agent.py` `OperationsResolverAgent` | per turn: failure reason, result, no-progress count, start of the turn's slice | `handle_customer_message`, `_prepare_state`, `_reseed_cache`, `_all_calls_duplicate`, `_finalize_from_content`, `_build_fail_safe_result`, `_close_outstanding_calls` |
| `app/state.py` | `AgentState` (messages, cases, tool_history, step count, final result), `CaseState` per order | plain data |
| `app/llm/retry.py` | attempt number | `generate_with_retry` |
| `app/llm/base.py` | – | `ensure_unique_tool_call_ids` |
| `app/tool_executor.py` | – (writes `AgentState`) | `execute`: unknown tool, unparsed arguments, terminal-case block, structure, refund guardrail, cache, tool; `_apply_trusted_result` |
| `app/guardrail.py` | – | `check_refund_precondition` |
| `app/tool_cache.py` | results by normalized call | `get`, `put` |
| `app/outcome_projector.py` | – | evidence → canonical case results |
| `app/customer_response.py` | – | renders the customer's text from the result |
| `app/validator.py` | – | compares a result with the evidence |
| `app/repair.py` | – | one repair call without tools |
| `app/output_parser.py`, `app/schemas.py`, `app/messages.py` | – | the output contract and canonical messages |
| `app/tools_adapter.py` | the imported tool module | registry, schemas, `call` |
| `app/llm/*_provider.py`, `openai_compat.py`, `factory.py`, `config.py` | HTTP client, settings | network I/O, wire format, configuration |
| `run_evals.py` | records and probe records of one evaluation | argument and configuration checks, the loops over candidates, scenarios and repetitions, tool probes, exit status |
| `app/evals/scoring.py`, `reporting.py` | the report and its four files | scoring of a run, exception records, summary, gate, ranking, writing |
| `app/evals/scenarios.py`, `models.py` | – | the catalogue of scenarios, the list of candidates |

### How they interact

Everything is one thread; each arrow is a synchronous call.

    customer -> run_agent -> handle_customer_message(text, previous run)
        _prepare_state: same AgentState as the previous run, cache rebuilt from tool_history
        loop, at most agent_max_steps times:
          generate_with_retry -> provider            (transient failures retried)
          response with tool calls:
            for each call: ToolExecutor.execute -> guardrail / cache / ToolKit
                           -> CaseState, tool_history; observation -> messages
          response without tool calls: parse -> project -> render -> validate
            on failure: repair_final_output -> generate_with_retry -> project, validate once more
        no result: fail-safe result from the evidence
        decisions mirrored into CaseState; delivered text appended to messages

    run_evals: configuration -> starter kit -> for each candidate, scenario, repetition:
        handle_customer_message -> score_agent_run      (any exception: record_exception)
      tool probes -> build_report (summaries, ranking) -> write_report (4 files) -> exit status

The shared state is `AgentState`; it lives as long as the session and is mutated
in place by every turn. The cache is per turn and derived from `tool_history`.

### What is hard here

There are no threads, locks or persistence in the runtime, so there is no
interleaving and no crash recovery; the evaluation runner writes files, and may be
interrupted or fail between any two steps. The hard part of the runtime is the
**order of calls**: the LLM may request anything, in any order, in one batch or over
several turns; a tool may raise in the middle of a batch; a provider may fail, return
malformed calls, reused ids or a fabricated result at any step. The same facts are
kept four times (conversation, `tool_history`, cache, `cases`) and the mapping from facts to
outcome is written twice (projector, fail-safe builder), the notion of "resolved"
three times (projector, renderer, validator). Correctness is that these copies
never disagree on any sequence of calls. What the customer reads is rendered by two
functions with their own rules again (`customer_response.py` for completed and
clarifying turns, `agent.py` for failed ones). The hazards are listed one by one,
with their lines, in `PROJECT.json`.

### What makes each part correct

* **Executor, guardrail, cache**: a refund is processed only under a current
  eligible verdict of its own order; nothing is executed twice in a session; a
  terminal error stops its order; what the evidence holds is what the model was
  last shown; a profile never reaches another customer's order.
* **Projector, renderer, validator, fail-safe**: an order the turn resolved is
  delivered exactly once with the outcome of its evidence, however the turn ended;
  no draft makes the runtime report a refund no tool approved; a correct
  projection is never rejected; the fail-safe result, which the code never
  validates, is valid.
* **Customer text**: no line says more of an order than its evidence; no order of the
  turn is left without a line or a question; a failed turn hands the request to a
  human agent exactly when it leaves an order open or has none to report, and names one
  in the line of an order exactly when that order is open or was escalated by the tool.
* **Output parser**: the final object is found whatever its strings hold and whatever
  prose surrounds it, as far as the scanner promises.
* **Turn loop, retry, repair**: every turn ends, within a bounded number of model
  calls; a tool failure ends the turn and still leaves a conversation the provider
  accepts; a later turn inherits all evidence and replaces stale decisions.
* **Evaluation**: the scorer accuses no correct run and passes none its evidence does
  not support; no check of the matrix is lost or judged twice; exit status 0 means
  that every check was judged and none failed; `latest.json` is never the only copy.

## 2. Modules

    Evidence <- ToolExecutor <- MCToolExecutor (+ Catalogue)
                             <- ToolExecutorProofs
                ToolExecutor -> RefundAuthority (INSTANCE, refinement mapping)
    Evidence <- Outcome <- CustomerText
    ToolExecutor, CustomerText <- AgentTurn <- EvalScoring <- MCAgentTurn (+ Catalogue)
    ToolExecutorProofs, CustomerText <- OutcomeProofs
    AgentTurn, OutcomeProofs <- DeliveryProofs <- TextProofs
                                DeliveryProofs <- LoopProofs
    EvalScoring, DeliveryProofs <- ScoringProofs

    EvalRunner -> ReleaseGate (INSTANCE, refinement mapping)
    EvalRunner <- MCEvalRunner
    EvalRunner <- EvalRunnerProofs

    OutputParser <- MCOutputParser
    OutputParser <- ParserProofs

| Module | Models |
|---|---|
| `Evidence` | `state.py` records, tool results, `_apply_trusted_result`, `touched_case_ids`, `factual_tools_called` |
| `ToolExecutor` | `tool_executor.py`, `guardrail.py`, `tool_cache.py`, `_reseed_cache`: one action per branch of `execute`, and `NewTurn` |
| `RefundAuthority` | abstract specification: what is promised about `process_refund` |
| `Outcome` | projector, wording ownership, validator, fail-safe result, as operators over evidence and the turn's slice |
| `CustomerText` | `customer_response.py` and the text of the fail-safe result: which line says what of which order, which question is asked about which orders, when the request as a whole is handed to a human agent, and which lines name one |
| `AgentTurn` | `handle_customer_message` with retry, repair, finalization, fail-safe and continuation; extends `ToolExecutor` and `CustomerText` |
| `EvalScoring` | `evals/scoring.py`: the release scorer, applied to the runs `AgentTurn` produces |
| `EvalRunner` | `run_evals.py` and `evals/reporting.py`: a whole evaluation, from its arguments to its exit status |
| `ReleaseGate` | abstract specification: every check judged at most once, passed only when all were judged and none failed |
| `OutputParser` | `output_parser.py`: the candidates, the scanner, the choice among them |
| `Catalogue` | a small tool layer for TLC |
| `MCToolExecutor`, `MCAgentTurn`, `MCEvalRunner`, `MCOutputParser` | the instances TLC checks |
| `*Proofs` | the theorems (section 4) |

### Correspondence with the code

* `cases`, `tool_history`, `messages`, `step_count`, `failure_reason` are the
  fields of `AgentState`; `result` is `state.final_result`; `decision[o]` is
  `case.decision`; `cache` is the turn's `ToolCache`; `model_calls` is the trace.
  `mentioned` is what the order pattern finds in the customer's message (read by the
  clarification renderer), and `answered` counts the responses the provider gave in
  the turn, recorded or not: an observer's counter that no action reads. The program
  counter of `handle_customer_message` is `phase`: `idle` (between messages), `loop`
  (top of the while), `model` (in `generate_with_retry`), `tools` (the `for` over the
  calls), `repair` (in `repair_final_output`), `closing` (after the while).
* One call of `execute` is one action, chosen by the guards in the order the code
  tests them: `RejectUnknownTool`, `RejectUnparsed`, `BlockTerminalCase`,
  `RejectStructure`, `BlockRefund`, `ServeCached`, `ExecuteTool`, `FailTool` (the
  tool raises). The executor reads no state that another step could change in
  between: the program has one thread.
* `PrepareState` is `_prepare_state`, whose cache part is `NewTurn`. Finalization
  is one action per outcome: `FinalizeDraft`, `RejectMalformed`, `RejectDraft`,
  `AcceptRepair`, `RejectRepair`, `FailRepair`. `CloseTurn` is everything after
  the loop.
* `ExhaustRetries` and `FailProvider` have the same effect but different guards:
  the first needs the last attempt, the second is any other exception at any
  attempt.
* `EvalRunner`: `stage` is where `main` stands (`configuration`, `candidate`, `built`,
  `unbuilt`, `probes`, `writing`), `cursor` the indices of its three nested loops,
  `records`, `probe_records` and `report` its lists, `files` the four files
  `write_report` writes, `status` the exit status. One run of the agent and its scoring is one step
  with a free outcome (any classification, or an exception): `AgentTurn` and
  `EvalScoring` say what such a run can be. A write is two steps, so it may break off
  in the middle.
* `OutputParser`: a text is a sequence of marks. `Scanned` is one iteration of the
  scanner's loop and `Scan` the scanner after each character; `Consumed` and
  `FenceMatches` are the matches of the fence pattern that `findall` goes through,
  none inside another; `StringEnd` and `ObjectEnds` are what `json.loads` accepts.
* Operators commented "Mutation of X" are variants of X with a plausible bug.
  No specification uses them; each has been substituted for X to see that the
  corresponding property fails (table in `PROJECT.json`, "mutants").

### Abstractions

* **Keys.** A call's identity is `(tool_name, normalize_args(arguments))`. In the
  model it is a record: the tool, the order id, one `detail` for all other
  arguments, and whether the argument names are those of the schema. JSON spelling
  (35 or 35.0) is not modelled; two keys are equal or not.
* **Tools.** The supplied tool layer is outside the code under study. It is the
  constant function `Service`, which assumes what `tool_cache.py` assumes: tools
  are deterministic. Three more facts are assumed of it (section 4), and evaluated
  on the instances. A tool may raise at any call.
* **Results.** `refund` stands for the pair (approved amount, refund id),
  `verdict` for the policy code; the fields no branch reads are gone. An absent
  dictionary key or Python `None` is the constant `None`.
* **Cases.** `CaseState` objects are created by `setdefault` immediately before a
  field is set, so an order without one is the case with all fields `None`
  (`Known` is `order_id in state.cases`).
* **Model output.** Responses are chosen freely from sets of batches (`Batches`)
  and drafts (`Drafts`).
* **Text.** In a result, a text is its author (`Wordings`). What the customer reads
  is a record: a sequence of lines, each a statement about one order with the refund
  and verdict it quotes; a question and the orders it is about; whether the request as
  a whole is handed to a human agent. The two renderers word an escalation differently,
  and so it is two statements: `REVIEW_REQUIRED` ("additional review is required") in a
  completed or clarifying turn, `HUMAN_REVIEW` ("additional review by a human agent") in
  a failed one. The words themselves, the two languages and amount formatting are not
  modelled.
* **Ids.** `UniqueIds` maps the provider's ids of one response to distinct ids; the
  random suffix of a fresh id is its position in the response.
* **Marks.** The parser's text has one mark for any character it does not tell
  apart, one for a code fence with its optional tag, and objects with at most one
  member: neither scanner nor property looks at commas.
* **Measures.** A run's metrics are its model latency and its cost, the two the
  ranking reads; candidate ids are numbers, ordered as the strings are.
* In `EvalScoring` the expected request amount is a `detail`, as the amount of a
  call is; `round(.., 2)` is not modelled.
* Sentiment, urgency, tokens and logging are left out: no branch reads them.

## 3. Runs

Instance of the runtime (`Catalogue`): a real order with one eligible and one
ineligible return reason and one invalid reason, refund requests answered APPROVED,
REJECTED, ESCALATION_REQUIRED and with an unknown status; an order that does not
exist; two users.

| Run | Bounds | What it shows |
|---|---|---|
| `executor` | 4 requests (`MaxHistory`), new turns anywhere | all sequences of 13 kinds of request: `RefundPrecondition`, `NoReexecution`, `TerminalCaseStopped`, `EvidenceIsLastAnswer`, `ProfileMatchesOwner`, `EvidenceKept`, and refinement of `RefundAuthority` |
| `turn` | one turn, 4 steps, 11 calls and 5 pairs, 10 drafts, the message naming the real order or none | what is delivered follows the evidence (`ResolvedOutcomesDelivered`, `NoInventedRefund`, `OutcomesGrounded`, `FailSafeResultValid`, `ProjectionAccepted`); what the customer reads (`EveryOrderAnswered`, `HumanReviewFollowsEvidence`); `ModelCallsBounded`, `ResponsesAccounted`; the scorer neither accuses the runtime nor passes a run its evidence does not support (`ScorerAgreesWithRuntime`, `PassReflectsEvidence`, `CleanPassExact`) over one scenario of each kind and one with two cases that pins no refund |
| `session` | two turns, 3 steps each, 6 calls and one pair, 3 drafts; refunds approved, escalated and with an unknown status | `NoInventedRefund` also for orders only an earlier turn worked on, `DecisionFollowsEvidence`, `TextFollowsEvidence`, and `ImplementsExecutor`: the loop drives the executor only as `ExecutorSpec` allows |
| `exchange` | two turns, 2 steps, batches of 1–3, one retry, ids missing or repeated | `ConversationWellFormed`, `SystemFailureEndsTurn`, `TurnTerminates` |
| `unbounded` | `MaxSteps = None`, 3 calls, one retry | `StepsBoundedByCalls`, `TurnTerminates`: NO_PROGRESS alone ends the turn |
| `evals` | 11 invocations, matrices of up to 4 cells, 2 probes | `OneRecordPerCell`, `StatusAgreesWithReport`, `LeaderIsBestSurvivor`, `LatestFollowsReport`, `ExitsEventually`, and refinement of `ReleaseGate` |
| `parser` | every text of up to 4 marks; 22 objects between prose of up to 2 marks; pairs of objects, fenced or not | `FirstObjectFound`, `OverlookedBehindBraces`, `FencedObjectFound` |

Why the bounds are enough. The longest scenario a property of the executor needs
is four requests: eligible verdict, refund, new verdict, refund again (a stale
licence), or details of an order, its profile, and a second user's profile. Four
steps are what a turn needs to look up an order, check it, refund it and draft —
with a pair in one step it also fits a second refund; the NO_PROGRESS limit of
three duplicate steps is reached in the fourth. A second turn is the first that
inherits anything; a third inherits in the same way. Batches of three put a
failing call first, in the middle and last. One retry separates "attempts left"
from "attempts exhausted". Without a step limit, three calls allow the longest
turns (every new call after two duplicates) and no state constraint is needed: the
state space is finite because the code's own rule bounds it. Two candidates, two
scenarios and two repetitions, any two of them at once, put every kind of boundary
of the nested loops next to every failure. The parser's objects hold each brace,
quote, backslash and fence inside strings, alone and combined, and the prose each of
them on either side; the pairs put a second answer, or a fence that takes it for one,
behind the first.

`MaxTurns` bounds the customer, not the program: `CHECK_DEADLOCK FALSE` is set in the
`AgentTurn` runs because a session really stops when no further message arrives;
`TurnTerminates` shows that it stops nowhere else. The evaluation runner stops when
it has exited (`ExitsEventually`), the parser when it has returned. `MaxSteps` and
`MaxRetries` are the code's own settings.

No symmetry is used: the orders, users and details of the catalogue have different
answers.

### Fairness

`FairSpec` of `AgentTurn` adds `WF_vars(TurnStep)`: as long as a turn can take a step
it takes one. The runtime is one thread with no blocking operation except the
provider call, which ends because of `llm_timeout_seconds`, and the backoff sleep,
which is capped. Nothing is assumed about *which* step: the model may fail, retry,
request tools or draft nonsense for ever, and `TurnTerminates` holds because of the
counters alone. `StartTurn` is not fair: the customer may leave.

`EvalRunner` has `WF(Proceed)`: each call the runner makes returns or raises, for the
same reasons. `Interrupt` is not fair.

### Where documentation and code disagree

Five runs check one documented claim each and find a counterexample; the quoted
lines are in `PROJECT.json`, "findings".

| Run | Claim | What happens |
|---|---|---|
| `forgotten_refund` | an APPROVED refund is delivered as such | a second refund request for the order, with another amount, that the tool rejects overwrites `refund_result`; the approval is reported nowhere |
| `ungrounded_clarification` | touched, unresolved orders become NO_ACTION in a clarification | an order touched only by `INVALID_REASON` has no case; the projector lists it and the validator rejects the list |
| `empty_completion` | business claims are rendered from canonical outcomes | a COMPLETED draft without cases is delivered in the model's words |
| `drafted_rejection` | terminal decisions come from evidence | a draft with status FAILED_SAFE carries its own REJECTED decision of an unresolved order to the customer |
| `no_progress` | NO_PROGRESS means identical calls made no progress | a refund blocked earlier and executing now counts as a duplicate; the step that refunded ends the turn |

The properties of the passing runs are stated around these: `OutcomesGrounded` for
turns that did not end FAILED_SAFE, `ResolvedOutcomesDelivered` for orders whose
evidence the projector can settle, `EveryOrderAnswered` for texts that are a
clarification or fail-safe text, `PassReflectsEvidence` for scenarios that pin their
outcomes (`PinsOutcomes`: a completed turn is expected, and of each case either a
refund status or no refund at all), as every scenario of the catalogue does.
`FirstObjectFound` speaks of texts with at most one fence after the object: the
parser looks at fenced texts before it looks at bare ones.

Other things met while modelling, without a run of their own (the first three and the
parser are not as a comment or docstring says):

* A repair response that cannot be used is not recorded, so its tokens are in no
  total. `ResponsesAccounted` says that nothing else is lost.
* A refund answer with an unknown status makes the projector settle nothing, but the
  fail-safe mapping delivers the order as REJECTED (`app/agent.py:547`). `Supported`
  in `TextFollowsEvidence` allows it; an approval is never said. The scorer passes such
  a run when the scenario expects REJECTED and no refund status.
* `_build_fail_safe_result` says that "Human-review wording appears only for genuinely
  unresolved cases: when every known case already has a trusted terminal outcome, those
  outcomes are reported directly" (`app/agent.py:378`). That is so of the preamble, the
  handoff of the whole request. But the fail-safe line of any escalated order, the
  tool's own escalation included, "requires additional review by a human agent"
  (`app/agent.py:472`, Hebrew `:484`, chosen at `:581`), so a failed turn of which every
  order is settled may still name one. `HumanReviewFollowsEvidence` states what the code
  does: the handoff for open orders only, the line of an order also for a trusted
  escalation. The renderer of completed turns words that outcome without a human agent.
* The clarification renderer looks for order numbers in the latest message only, and
  asks for the reason of an open order also when a policy check has stored one.
* An order touched without a case (`INVALID_REASON` only) is in neither the fail-safe
  result nor its text; a COMPLETED result may omit a touched order that is still open.
* The parser tries the first pair of braces that balance and nothing after them, so
  prose with braces of its own hides the object that follows
  (`OverlookedBehindBraces` says that nothing else does), although
  `app/output_parser.py:50` says that an object embedded in prose is tolerated.
* Arguments that did not parse are sent back to the provider as `{}`
  (`app/llm/openai_compat.py:63`).
* An interrupt loses every finished record of an evaluation: files are written only
  at the end.

## 4. Proofs

Proved with tlapm (SMT, Zenon and LS4 backends) for every set of orders, details,
users, calls, batches, drafts, scenarios, messages, final contents and invocations,
every limit, and every tool layer the assumptions allow:

| Module | Theorem | States |
|---|---|---|
| `ToolExecutorProofs` | `TypeCorrect` | `TypeOK`: the evidence, history and cache keep their types for every catalogue and every set of calls |
|  | `RefundSafety` | `RefundPrecondition`: every refund that reached the tool or the cache was licensed by the last policy answer for its own order |
|  | `ExecutedOnce` | `NoReexecution`: no call the tools have answered is executed again, over any number of customer turns |
|  | `TerminalStops` | `TerminalCaseStopped`: after a trusted terminal error no order-scoped call for that order gets through |
|  | `EvidenceCurrent` | `EvidenceIsLastAnswer`: what a case holds as a tool's answer is the last answer for its order that the model was shown |
|  | `ProfilesOwned` | `ProfileMatchesOwner`: no customer's profile is ever attached to another customer's order |
|  | `NothingLost` | `EvidenceKept`: no step of any turn drops an answer the evidence or the cache holds |
|  | `RefundsAuthorised` | `ImplementsRefundAuthority`: the executor implements RefundAuthority: refunds are processed only while licensed, and each request at most once |
| `DeliveryProofs` | `TurnsImplementExecutor` | `ImplementsExecutor`: the turn loop, over any number of turns and with any failure, drives the executor only as ExecutorSpec allows |
|  | `RuntimeRefundSafety` | `RefundPrecondition`: the refund guardrail holds of the whole runtime, whatever the model requests or drafts |
|  | `RuntimeRefundsAuthorised` | `ImplementsRefundAuthority`: the whole runtime implements RefundAuthority |
|  | `RefundsReal` | `NoInventedRefund`: no turn, however it ended, reports a refund that no tool approved in the session for that order, whatever the model drafts |
|  | `SettledDelivered` | `ResolvedOutcomesDelivered`: every order the turn's evidence settles is delivered exactly once, as the canonical outcome of that evidence, on every path out of the loop |
|  | `DecisionsFollow` | `DecisionFollowsEvidence`: across any number of turns the decision kept with a settled order is the one its evidence supports now |
|  | `OutcomesFromEvidence` | `OutcomesGrounded`: a completed or clarifying turn claims outcomes only for orders with terminal evidence, in wording of the runtime |
|  | `FailSafeValid` | `FailSafeResultValid`: the fail-safe result, which the code never validates, would pass the validator |
|  | `SettledAccepted` | `ProjectionAccepted`: once every order of the turn is settled, the projection of any draft about those orders is accepted |
| `TextProofs` | `TextFollows` | `TextFollowsEvidence`: every line the runtime writes to the customer says what the evidence of its order supports |
|  | `HumanReviewExact` | `HumanReviewFollowsEvidence`: a failed turn hands the request to a human agent exactly when it leaves an order open or has none to report, and names one in the line of an order exactly when that order is open or was escalated by the tool |
|  | `OrdersAnswered` | `EveryOrderAnswered`: in a clarification or fail-safe text every order of the turn with a case has one line or is asked about, never both |
| `LoopProofs` | `AgentTypeCorrect` | `AgentTypeOK`: the variables of the loop keep their types and the counters their bounds, for every limit |
|  | `CallsBounded` | `ModelCallsBounded`: at most one model call per step and one repair, which follows a rejected final output and is the last |
|  | `ResponsesRecorded` | `ResponsesAccounted`: every response of a turn is recorded, except an unusable repair response that then fails the turn |
|  | `FailureEndsTurn` | `SystemFailureEndsTurn`: after a tool system failure nothing runs until the next customer message |
|  | `StepsBounded` | `StepsBoundedByCalls`: with finitely many calls a turn takes at most three steps for every distinct call and one more, with or without a step limit |
|  | `ConversationsAccepted` | `ConversationWellFormed`: every requested tool call is answered exactly once, in order and under its own id, in any session, with any ids the provider sends and wherever a tool fails |
| `ScoringProofs` | `ScorerAgrees` | `ScorerAgreesWithRuntime`: on every run the runtime can produce, the scorer's own copies of the validator and of the refund precondition find nothing to condemn |
|  | `PassesEarned` | `PassReflectsEvidence`: for every scenario that pins its outcomes, a run that passes worked on the expected orders only and delivered what the tools answered for them |
|  | `CleanPassesClean` | `CleanPassExact`: in a run that passes clean no call was made twice and no refund the scenario forbids was even attempted |
| `ParserProofs` | `ParserAnswers` | what parse_final_output answers is settled by the content alone: the invariant behind the next three |
|  | `FirstObjects` | `FirstObjectFound`: in a text of any length and nesting, an object that no other brace precedes is the one returned, whatever its strings hold, fences aside |
|  | `OverlookedObjects` | `OverlookedBehindBraces`: an object is overlooked only behind braces of the prose that balance on their own |
|  | `FencedObjects` | `FencedObjectFound`: the object in the one fence of a text is found whatever the prose around it holds |
| `EvalRunnerProofs` | `RunnerProgress` | at any moment the recorded cells are exactly those before the cursor of the loops: the invariant behind the next two |
|  | `MatrixRecorded` | `OneRecordPerCell`: no cell of the evaluation matrix is recorded twice, and none is missing when the loops are over, whatever raised |
|  | `LatestIsBacked` | `LatestFollowsReport`: latest.json is touched only once the report it repeats is whole under its own name |
|  | `ReportKept` | a report, once there is one, is the ranked summaries of the records it was built from: the invariant behind the next three |
|  | `RunnerTypes` | `TypeOK`: the variables of an evaluation keep their types, the built report included |
|  | `StatusAgrees` | `StatusAgreesWithReport`: exit status and report, computed apart from the same records, agree for every matrix: status 0 only with a whole report on every candidate's whole matrix and without a critical failure |
|  | `LeaderIsBest` | `LeaderIsBestSurvivor`: the first candidate of a ranking had no critical failure, unless all had one, and no other survivor had more clean runs |
|  | `RunnerImplementsReleaseGate` | `ImplementsReleaseGate`: exit status 0 is only given to a matrix of which every check was judged and none failed |

### Assumptions

| Assumption | Says | Because |
|---|---|---|
| `NoneAssumption`, `ResultAssumption`, `TextAssumption` | `None` is no order, result, case result, question, ... | it stands for Python's `None` |
| `ServiceAssumption` | tools are total and deterministic; order-scoped calls without an order id answer with an error; the order is the only argument of `get_order_details` | `tool_cache.py` and `_terminal_case_block` rely on it |
| `NotFoundAssumption` | when one tool answers that an order does not exist, every tool answers with an error for it | one catalogue of orders behind all tools |
| `CallsAssumption`, `AgentAssumption` | requests have the shape the provider boundary gives them, batches are non-empty, a draft's text is the model's or blank, the limits are numbers (`MaxSteps` possibly `None`) | `base.py`, `agent.py`, `config.py` |
| `ScenariosAssumption` | a scenario expects a final status and at least one case | `scenarios.py` |
| `EvalRunnerAssumption` | an invocation has at least one candidate and a whole number of repetitions, there is a scenario; latencies and costs are numbers; `None` is no report | `argparse`, `models.py`, `scenarios.py`, `scoring.py` |
| `OutputParserAssumption` | contents are texts or missing; `None` is no text, error or answer | it stands for Python's `None` |

The runs evaluate all of them on their instances. `StepsBounded` alone also assumes
that the set of calls is finite; without that it is false, and the loop without a
step limit need not end.

### Arguments

**Executor** (`ToolExecutorProofs`). Its safety properties speak of `tool_history`,
but the code decides by `cases` and the cache, so most of them are not inductive
alone. The invariant `IInv` is their conjunction with what ties the copies together:

* `HistoryAnswered` – every record has a requested key, every factual record a result;
* `CacheCovers` – every factual answer of the history is in the cache (needed by
  `NoReexecution`: a miss means "never answered", also after a new turn);
* `CacheBacked` – nothing else is cached (needed so that rebuilding the cache
  changes nothing: lemma `NewTurnStutters`);
* `EvidenceIsLastAnswer` – itself a property, and what `RefundPrecondition` needs:
  the guardrail reads the policy result of the case, the property speaks of the last
  policy answer in the history. Its step rests on `AppendMirrors`, a lemma about any
  history;
* `TerminalMarked` – a terminal answer has marked its case (needed by
  `TerminalCaseStopped`);
* `CacheTrue`, `DetailsTrue` – cached results and stored order details are the
  tool's own (needed by `ProfileMatchesOwner`: details fetched again cannot change
  an order's owner under a profile already attached).

Lemma `Branches` reduces the eight branches of `execute` to two shapes: *refused*
(a record without result, nothing else changes) and *answered* (every check passed,
recorded, cached, stored). Each part of `IInv` is then proved for a refusal and an
answer; a new turn stutters. `NextInv` collects them. The action property
`EvidenceKept` and the refinement of `RefundAuthority` follow from the invariant: a
step maps to licensing, revoking or processing, or to a stutter.

**Runtime** (`DeliveryProofs`). The only thing the executor's specification asks of
its caller is that it requests calls of `Calls`, one at a time. `BatchTyped` (the
batch in execution holds only such calls) is an invariant of `AgentTurn`; under it
every action of the loop is an executor step (`ExecuteNextCall`, `FailNextCall`,
`StartTurn`) or leaves the executor's variables alone. The executor's theorems then
carry over.

**Delivery** (`OutcomeProofs`, `DeliveryProofs`). `OutcomeProofs` holds the lemmas
about the operators: where evidence settles an order, projector, fail-safe mapping and
validator agree on it (`ProjectionAgrees`, `FailSafeAgrees`, `AcceptedAgrees`), and
their lists hold each order once (`ProjectedList`, `FailSafeList`). What a turn
delivers is then an invariant `DInv`: `ResultJustified` says that a result is the
accepted projection of a draft or the fail-safe result, of exactly the evidence at
hand; `DecisionsCurrent` that a mirrored decision is the canonical one unless its
order was worked on in the running turn; `TerminalBacked` that a terminal error came
from a tool. Lemma `TurnSteps` sorts the actions of the loop into six kinds, so that
each part has six cases. `CasesSettledOneWay` is where `NotFoundAssumption` is needed:
an order has a terminal error or a verdict or refund, never both, and so the order in
which the three functions test them does not matter. `RefundsReal` joins `DInv` to the
executor's `IInv`: an approval in a case is the last answer in the history.

**Text** (`TextProofs`). For each renderer a lemma says that a line it writes follows
from the evidence (`RenderedLine`, `FailSafeLineFollows`; that the fail-safe mapping
escalates exactly the open and the escalated orders is `EscalatedExactly`), and another which orders get
a line (`ToldCases`, `FailSafeLines`); the theorems are these at the end of a turn,
where `ResultJustified` says which renderer wrote.

**Loop** (`LoopProofs`). `LoopTyped` carries the bounds of the counters, `CallsInv`
the shape of the recorded calls in each phase and how many responses they account
for, `FailureLast` that nothing follows a system failure. `StepsPaid` is the argument
for the turn without a limit: a step either asks for a call the session has not seen,
or counts toward NO_PROGRESS, and at most two of the latter can lie between two of the
former.

**Conversation** (`LoopProofs`). The property speaks of finished exchanges,
so the invariant `Conversing` speaks of prefixes: while a batch runs, everything
before its request is well-formed and the request is answered as far as the batch has
run (`OpenExchange`); otherwise the whole conversation is well-formed. A tool failure
is the step that closes all the rest at once (`FailureCloses`); that ids are there and
distinct, whatever the provider sent, is `IdsTyped` and `IdsDistinct`.

**Evaluation** (`EvalRunnerProofs`). `Progress`: the recorded cells are exactly those
before the cursor, in the order of the three loops; `AdvanceSteps` says that the
cursor moves to the next cell in that order. `FilesInOrder` is the same for the four
files. The refinement of `ReleaseGate` follows: each record or probe is a `Judge`,
exit 0 a `Conclude`, any other exit an `Abandon`.

What the report says needs the invariant `RInv`: `Progress`, `FilesInOrder` and
`Reported`, by which a report is the ranking of the summaries of all records and exit
status 0 means that it was written whole. That a ranking exists at all (the model
chooses one) is `RankingExists`: the sort key orders any two summaries strictly
(`RanksFacts`, over fractions compared by cross multiplication), so a summary's place
is one more than the number of summaries before it. `SummaryMeans` ties a summary's
counts to the cells of its candidate. The leader is then a survivor because the first
part of the key is the gate, and the cleanest because, for survivors with matrices of
one size, the next part compares their clean runs.

**Scoring** (`ScoringProofs`). The scorer has its own copies of the guardrail and calls
the validator over the whole history. They agree with the runtime because the scored
turn is the session's only one (`OnlyTurn`: its slice begins at the start of the
history), and because of the theorems on delivery. `PassReflectsEvidence` also needs
`TerminalRecorded`: a case is closed only by an answer of the history, so that an
order outside the scenario cannot be resolved unseen.

**Parser** (`ParserProofs`). The invariant `PInv` only says that the answer is a
function of the content; the rest is about operators. The model's functions recurse
over positions of a text. `Recursion` and `Backwards` show once that a function so
defined exists and satisfies its equation (forward, and from the end); in place of
induction a statement about all positions is proved of the least, or greatest,
position at which it would fail (`Upward`, `Downward`). On these stand:

* `ObjectEndsFacts`, `ObjectFacts`, `StringFacts` – what `json.loads` accepts, as
  equations;
* `ObjectScan`, `ObjectBalanced` – over an object that is accepted the scanner's depth
  returns to where it was at the closing brace and not before, whatever the strings
  hold: the scanner and `json.loads` read strings alike (`StringScan`);
* `ObjectOfText` – whether a stretch of text is an object depends on that stretch
  alone, so an object found in the content is one when it is cut out;
* `ConsumedFacts`, `OpensFacts` – which fence matches `findall` goes through;
* `FirstExtracted`, `FencedExtracted` – the candidate the parser settles on.

## 5. Only model-checked

Every safety and action property of the passing runs is proved. What is left to TLC:

* Liveness under fairness (`TurnTerminates`, `ExitsEventually`) and anything about
  `ENABLED`: the prover has no support for it. (`StepsBounded` proves the bound
  `TurnTerminates` rests on.)
* The counterexamples to the five claims.

## 6. Not modelled

* **Provider clients and wire format** (`groq_provider.py`, `openrouter_provider.py`,
  `openai_compat.py`): network and JSON spelling; only the exception of
  `to_wire_messages` for a missing id is (`WireAccepts`). What they can do to the runtime
  (fail, time out, return malformed calls, missing or repeated ids) is a choice of the
  model. The client library's own retries are invisible to the program.
* **Configuration, factory, candidate file, tool import**: reading the environment and
  files. Their outcomes (a setting, a missing key, an exception) are inputs of
  `AgentTurn` and `EvalRunner`.
* **Command line and printing**: only the session loop of `run_agent.py`.
* **Reusing an older `AgentRun`**: `run_repl` always continues the newest one; an older
  one holds the same live state object.
* **Two spellings of one call** (35 and 35.0): keys are equal or not.
* **Wording, languages, amounts as text, the order pattern**: what a line says is
  modelled, not how.
* **Metrics other than latency and cost, averages that rank nothing, file contents.**
* **Prompts, the catalogue of scenarios**: data.

## 7. Plan

Done, in this order: `Evidence`, `ToolExecutor` with its run, `RefundAuthority`,
`Outcome`, `AgentTurn` with its runs, the claims, `EvalScoring`, the proofs of the
executor; then `CustomerText`, the turn without a step limit, `EvalRunner` and
`ReleaseGate`, `OutputParser`, and the proofs of delivery, text, loop, conversation and
evaluation; then the proofs of the scorer, of the report and its ranking, and of the
parser.

What remains open: normalization of provider responses (`openai_compat.py`) as a
module of its own.

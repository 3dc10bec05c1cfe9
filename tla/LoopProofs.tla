------------------------------ MODULE LoopProofs ------------------------------
(***************************************************************************)
(* Proofs about the loop of a turn, for every limit, every model and every *)
(* sequence of turns: the types of its variables, the model calls it makes *)
(* and records, how a tool failure ends it, and that the conversation it   *)
(* stores is one a provider accepts, for every set of batches and ids the  *)
(* provider may send.                                                      *)
(***************************************************************************)
EXTENDS DeliveryProofs

-----------------------------------------------------------------------------
(* Types.                                                                  *)

\* The bounds of the loop; while the turn works the limit of duplicate steps is
\* not reached, and before the first turn nothing has happened.
LoopTyped ==
  /\ turns \in 0 .. MaxTurns
  /\ turns = 0 => phase = "idle" /\ failure_reason = None /\ result = None
  /\ mentioned \in Mentions \cup {{}}
  /\ step_count \in Nat /\ (MaxSteps # None => step_count <= MaxSteps)
  /\ attempt \in 0 .. (MaxRetries + 1)
  /\ executed \in 0 .. Len(calls) /\ duplicate_step \in BOOLEAN
  /\ no_progress_steps \in 0 .. NoProgressLimit
  /\ phase \in Working => no_progress_steps < NoProgressLimit

LEMMA LoopTypedInit == Init => LoopTyped
<1> SUFFICES ASSUME Init PROVE LoopTyped
  OBVIOUS
<1>1. MaxRetries \in Nat /\ MaxTurns \in Nat /\ MaxSteps \in (Nat \ {0}) \cup {None}
  BY AgentAssumption
<1>2. executed \in 0 .. Len(calls) /\ duplicate_step \in BOOLEAN
  <2>1. executed = 0 /\ calls = <<>>
    BY DEF Init
  <2>2. duplicate_step \in BOOLEAN
    BY Zenon DEF Init
  <2>3. Len(<<>>) = 0
    OBVIOUS
  <2> QED BY <2>1, <2>2, <2>3
<1>3. mentioned \in Mentions \cup {{}}
  <2>1. mentioned = {}
    BY DEF Init
  <2> QED BY <2>1, Zenon
<1>4. /\ turns = 0 /\ step_count = 0 /\ attempt = 0 /\ no_progress_steps = 0
      /\ phase = "idle" /\ failure_reason = None /\ result = None
  BY DEF Init
<1> QED BY <1>1, <1>2, <1>3, <1>4 DEF LoopTyped, NoProgressLimit, Working

LEMMA LoopTypedStep == BatchTyped /\ LoopTyped /\ [Next]_vars => LoopTyped'
<1> SUFFICES ASSUME BatchTyped, LoopTyped, [Next]_vars PROVE LoopTyped'
  OBVIOUS
<1> USE DEF LoopTyped, NoProgressLimit, Working
<1>0. /\ calls \in Seq([call : Calls, id : Ids]) /\ Len(calls) \in Nat
      /\ MaxRetries \in Nat /\ MaxTurns \in Nat /\ MaxSteps \in (Nat \ {0}) \cup {None}
  BY AgentAssumption DEF BatchTyped
<1>1. CASE StartTurn
  BY <1>0, <1>1 DEF StartTurn, PrepareState
<1>2. CASE StopAtMaxSteps
  BY <1>0, <1>2 DEF StopAtMaxSteps, Fail, loopVars, sessionVars
<1>3. CASE CallModel
  BY <1>0, <1>3 DEF CallModel, StepLimitReached, outcomeVars, sessionVars
<1>4. CASE RetryTransient
  BY <1>0, <1>4 DEF RetryTransient, AwaitingModel, outcomeVars, sessionVars
<1>5. CASE ExhaustRetries \/ FailProvider
  BY <1>0, <1>5 DEF ExhaustRetries, FailProvider, AwaitingModel, CallFailed, Fail, loopVars,
                    sessionVars
<1>6. ASSUME NEW batch \in Batches, NEW raw \in [DOMAIN batch -> RawIds],
             RequestTools(batch, raw)
      PROVE  LoopTyped'
  <2>1. calls' \in Seq([call : Calls, id : Ids])
    BY <1>6, BatchStep DEF BatchTyped, Next, TurnStep, ModelReplies
  <2>2. executed' \in 0 .. Len(calls')
    BY <1>6, <2>1 DEF RequestTools
  <2>3. duplicate_step' \in BOOLEAN
    BY <1>6 DEF RequestTools, AllCallsDuplicate
  <2> QED BY <1>0, <1>6, <2>2, <2>3 DEF RequestTools, outcomeVars, sessionVars
<1>7. CASE ExecuteNextCall
  BY <1>0, <1>7 DEF ExecuteNextCall, outcomeVars, sessionVars
<1>8. CASE FailNextCall
  BY <1>0, <1>8 DEF FailNextCall, Fail, loopVars, sessionVars
<1>9. CASE FinishBatch
  <2>1. CASE duplicate_step
    BY <1>0, <1>9, <2>1 DEF FinishBatch, Fail, outcomeVars, sessionVars
  <2>2. CASE ~duplicate_step
    BY <1>0, <1>9, <2>2 DEF FinishBatch, Fail, outcomeVars, sessionVars
  <2> QED BY <2>1, <2>2
<1>10. CASE RejectMalformed
  BY <1>0, <1>10 DEF RejectMalformed, AskRepair, outcomeVars, sessionVars
<1>11. CASE FailRepair
  BY <1>0, <1>11 DEF FailRepair, Fail, loopVars, sessionVars
<1>12. ASSUME NEW draft \in Drafts, FinalizeDraft(draft) \/ AcceptRepair(draft)
       PROVE  LoopTyped'
  BY <1>0, <1>12 DEF FinalizeDraft, AcceptRepair, Accept, loopVars, sessionVars
<1>13. ASSUME NEW draft \in Drafts, RejectDraft(draft)
       PROVE  LoopTyped'
  BY <1>0, <1>13 DEF RejectDraft, AskRepair, outcomeVars, sessionVars
<1>14. ASSUME NEW draft \in Drafts, RejectRepair(draft)
       PROVE  LoopTyped'
  BY <1>0, <1>14 DEF RejectRepair, Fail, loopVars, sessionVars
<1>15. CASE CloseTurn
  BY <1>0, <1>15 DEF CloseTurn, loopVars, sessionVars
<1>16. CASE UNCHANGED vars
  BY <1>0, <1>16 DEF vars, loopVars, outcomeVars, sessionVars
<1> QED
  BY <1>1, <1>2, <1>3, <1>4, <1>5, <1>6, <1>7, <1>8, <1>9, <1>10, <1>11, <1>12, <1>13,
     <1>14, <1>15, <1>16 DEF Next, TurnStep, ModelReplies

\* Every variable of the loop always has its type, and the counters their bounds.
THEOREM AgentTypeCorrect == Spec => []AgentTypeOK
<1>1. ASSUME IInv, DInv, LoopTyped PROVE AgentTypeOK
  <2>1. failure_reason \in FailureReasons \cup {None} /\ result \in AgentResults \cup {None}
    <3>1. CASE TurnEnded
      BY <1>1, <3>1, AtTurnEnd, ResultTyped DEF DInv, ResultJustified
    <3>2. CASE phase = "closing"
      BY <1>1, <3>2, AtTurnEnd, ResultTyped DEF DInv, ResultJustified
    <3>3. CASE phase \in Working
      BY <1>1, <3>3 DEF DInv, ResultJustified
    <3>4. CASE phase = "idle" /\ ~TurnEnded
      BY <1>1, <3>4 DEF LoopTyped, TurnEnded
    <3> QED BY <1>1, <3>1, <3>2, <3>3, <3>4 DEF DInv, TurnTyped, Phases, Working
  <2> QED BY <1>1, <2>1 DEF AgentTypeOK, IInv, DInv, TurnTyped, LoopTyped
<1>2. BatchTyped /\ LoopTyped /\ [Next]_vars => BatchTyped' /\ LoopTyped'
  BY BatchStep, LoopTypedStep
<1> QED BY <1>1, <1>2, BatchInit, LoopTypedInit, DInvariance, PTL DEF Spec

-----------------------------------------------------------------------------
(* The model calls of a turn, and their record.                            *)

CallKinds == {"tool_call", "final", "repair"}

\* One recorded call per step, the last of them perhaps a final output, and
\* after a rejected final output one repair.
CallsShape ==
  /\ model_calls \in Seq(CallKinds)
  /\ Len(model_calls) <= step_count + 1
  /\ \A i \in 1 .. Len(model_calls) :
       /\ i < step_count => model_calls[i] = "tool_call"
       /\ i = step_count => model_calls[i] \in {"tool_call", "final"}
       /\ i = step_count + 1 =>
            model_calls[i] = "repair" /\ step_count >= 1 /\ model_calls[step_count] = "final"

\* How far the record is in each phase.
CallsInPhase ==
  /\ phase \in {"loop", "tools"} =>
       /\ Len(model_calls) = step_count
       /\ \A i \in 1 .. Len(model_calls) : model_calls[i] = "tool_call"
  /\ phase = "model" => step_count >= 1 /\ Len(model_calls) = step_count - 1
  /\ phase = "repair" =>
       /\ step_count >= 1 /\ Len(model_calls) = step_count
       /\ model_calls[step_count] = "final"

\* Only an unusable repair response is answered and not recorded.
Accounted ==
  /\ answered \in Nat
  /\ phase \in Working => answered = Len(model_calls)
  /\ phase \notin Working /\ answered # Len(model_calls) =>
       /\ answered = Len(model_calls) + 1 /\ failure_reason = "OUTPUT_REPAIR_FAILED"
       /\ Len(model_calls) >= 1 /\ model_calls[Len(model_calls)] = "final"

CallsInv == CallsShape /\ CallsInPhase /\ Accounted

LEMMA Recorded ==
  ASSUME NEW h \in Seq(CallKinds), NEW kind \in CallKinds
  PROVE  /\ Append(h, kind) \in Seq(CallKinds)
         /\ Len(h) \in Nat /\ Len(Append(h, kind)) = Len(h) + 1
         /\ \A i \in 1 .. Len(h) : Append(h, kind)[i] = h[i]
         /\ Append(h, kind)[Len(h) + 1] = kind
OBVIOUS

LEMMA CallsInit == Init => CallsInv
BY DEF Init, CallsInv, CallsShape, CallsInPhase, Accounted, CallKinds, Working

LEMMA CallsStep == LoopTyped /\ CallsInv /\ [Next]_vars => CallsInv'
<1> SUFFICES ASSUME LoopTyped, CallsInv, [Next]_vars PROVE CallsInv'
  OBVIOUS
<1> USE DEF CallsInv, CallsShape, CallsInPhase, Accounted, Working
<1>0. step_count \in Nat /\ Len(model_calls) \in Nat /\ model_calls \in Seq(CallKinds)
      /\ answered \in Nat
  BY DEF LoopTyped
<1>1. CASE StartTurn
  <2>1. model_calls' = <<>> /\ step_count' = 0 /\ answered' = 0 /\ phase' = "loop"
    BY <1>1 DEF StartTurn, PrepareState
  <2> QED BY <2>1
<1>2. CASE CallModel
  <2>1. UNCHANGED <<model_calls, answered>> /\ step_count' = step_count + 1
        /\ phase = "loop" /\ phase' = "model"
    BY <1>2 DEF CallModel, traceVars
  <2> QED BY <1>0, <2>1
\* A usable response is recorded.
<1>3. ASSUME NEW kind \in CallKinds, RecordModelCall(kind), UNCHANGED step_count,
             \/ phase = "model" /\ phase' = "tools" /\ kind = "tool_call"
             \/ phase = "model" /\ phase' \in {"closing", "repair"} /\ kind = "final"
             \/ phase = "repair" /\ phase' = "closing" /\ kind = "repair"
      PROVE  CallsInv'
  <2>1. /\ model_calls' \in Seq(CallKinds)
        /\ Len(model_calls') = Len(model_calls) + 1
        /\ \A i \in 1 .. Len(model_calls) : model_calls'[i] = model_calls[i]
        /\ model_calls'[Len(model_calls) + 1] = kind
        /\ answered' = answered + 1
    BY <1>0, <1>3, Recorded DEF RecordModelCall
  <2>2. CASE phase = "model"
    <3>1. step_count >= 1 /\ Len(model_calls) = step_count - 1 /\ answered = step_count - 1
      BY <2>2
    <3>2. /\ Len(model_calls') = step_count /\ model_calls'[step_count] = kind
          /\ \A i \in 1 .. Len(model_calls') :
               i < step_count => model_calls'[i] = "tool_call"
      BY <1>0, <2>1, <3>1
    <3> QED BY <1>0, <1>3, <2>1, <2>2, <3>1, <3>2
  <2>3. CASE phase = "repair"
    <3>1. step_count >= 1 /\ Len(model_calls) = step_count /\ answered = step_count
          /\ model_calls[step_count] = "final"
      BY <2>3
    <3>2. /\ Len(model_calls') = step_count + 1 /\ model_calls'[step_count + 1] = "repair"
          /\ model_calls'[step_count] = "final"
          /\ \A i \in 1 .. Len(model_calls') :
               i < step_count => model_calls'[i] = "tool_call"
      BY <1>0, <1>3, <2>1, <2>3, <3>1
    <3> QED BY <1>0, <1>3, <2>1, <2>3, <3>1, <3>2
  <2> QED BY <1>3, <2>2, <2>3
<1>4. CASE FailRepair
  <2>1. UNCHANGED <<model_calls, step_count>> /\ answered' = answered + 1
        /\ phase = "repair" /\ phase' = "closing" /\ failure_reason' = "OUTPUT_REPAIR_FAILED"
    BY <1>4 DEF FailRepair, Fail, loopVars
  <2> QED BY <1>0, <2>1
\* Every other step leaves the record alone.
<1>5. ASSUME UNCHANGED <<model_calls, answered, step_count>>,
             \/ phase' = phase /\ UNCHANGED failure_reason
             \/ phase \in Working /\ phase' = "closing"
             \/ phase = "tools" /\ phase' = "loop"
             \/ phase = "closing" /\ phase' = "idle" /\ UNCHANGED failure_reason
      PROVE  CallsInv'
  BY <1>0, <1>5
<1>6. CASE StopAtMaxSteps \/ RetryTransient \/ ExhaustRetries \/ FailProvider
  BY <1>5, <1>6 DEF StopAtMaxSteps, RetryTransient, ExhaustRetries, FailProvider, CallFailed,
                    AwaitingModel, Fail, loopVars, traceVars, outcomeVars
<1>7. ASSUME NEW batch \in Batches, NEW raw \in [DOMAIN batch -> RawIds],
             RequestTools(batch, raw)
      PROVE  CallsInv'
  BY <1>3, <1>7 DEF RequestTools, CallKinds
<1>8. CASE ExecuteNextCall \/ FailNextCall \/ FinishBatch \/ CloseTurn
  <2>1. CASE ExecuteNextCall
    BY <1>5, <2>1 DEF ExecuteNextCall, outcomeVars, traceVars
  <2>2. CASE FailNextCall
    BY <1>5, <2>2 DEF FailNextCall, Fail, loopVars, traceVars
  <2>3. CASE FinishBatch
    BY <1>5, <2>3 DEF FinishBatch, Fail, outcomeVars, traceVars
  <2>4. CASE CloseTurn
    BY <1>5, <2>4 DEF CloseTurn, loopVars, traceVars
  <2> QED BY <1>8, <2>1, <2>2, <2>3, <2>4
<1>9. CASE RejectMalformed
  BY <1>3, <1>9 DEF RejectMalformed, AskRepair, CallKinds
<1>10. ASSUME NEW draft \in Drafts,
              FinalizeDraft(draft) \/ RejectDraft(draft) \/ AcceptRepair(draft)
                \/ RejectRepair(draft)
       PROVE  CallsInv'
  <2>1. CASE FinalizeDraft(draft)
    BY <1>3, <2>1 DEF FinalizeDraft, Accept, loopVars, CallKinds
  <2>2. CASE RejectDraft(draft)
    BY <1>3, <2>2 DEF RejectDraft, AskRepair, CallKinds
  <2>3. CASE AcceptRepair(draft)
    BY <1>3, <2>3 DEF AcceptRepair, Accept, loopVars, CallKinds
  <2>4. CASE RejectRepair(draft)
    BY <1>3, <2>4 DEF RejectRepair, Fail, loopVars, CallKinds
  <2> QED BY <1>10, <2>1, <2>2, <2>3, <2>4
<1>11. CASE UNCHANGED vars
  BY <1>5, <1>11 DEF vars, loopVars, traceVars, outcomeVars
<1> QED
  BY <1>1, <1>2, <1>4, <1>6, <1>7, <1>8, <1>9, <1>10, <1>11 DEF Next, TurnStep, ModelReplies

LEMMA CallsInvariance == Spec => [](LoopTyped /\ CallsInv)
<1>1. BatchTyped /\ LoopTyped /\ CallsInv /\ [Next]_vars
        => BatchTyped' /\ LoopTyped' /\ CallsInv'
  BY BatchStep, LoopTypedStep, CallsStep
<1> QED BY <1>1, BatchInit, LoopTypedInit, CallsInit, PTL DEF Spec

\* A turn makes at most MaxSteps model calls and one repair call, which follows
\* a rejected final output immediately and is the last.
THEOREM CallsBounded == Spec => []ModelCallsBounded
<1>1. ASSUME LoopTyped, CallsInv PROVE ModelCallsBounded
  <2>0. /\ step_count \in Nat /\ Len(model_calls) \in Nat
        /\ DOMAIN model_calls = 1 .. Len(model_calls)
        /\ MaxSteps \in Nat \cup {None}
    BY <1>1, AgentAssumption DEF LoopTyped, CallsInv, CallsShape
  <2>1. MaxSteps # None => Len(model_calls) <= MaxSteps + 1
    BY <1>1, <2>0 DEF LoopTyped, CallsInv, CallsShape
  <2>2. ASSUME NEW i \in DOMAIN model_calls
        PROVE  /\ model_calls[i] = "final" => i >= Len(model_calls) - 1
               /\ model_calls[i] = "repair" => i = Len(model_calls) /\ model_calls[i - 1] = "final"
               /\ model_calls[i] = "final" /\ i < Len(model_calls) => model_calls[i + 1] = "repair"
    <3>1. /\ i \in 1 .. Len(model_calls) /\ Len(model_calls) <= step_count + 1
          /\ i < step_count => model_calls[i] = "tool_call"
          /\ i = step_count => model_calls[i] \in {"tool_call", "final"}
          /\ i = step_count + 1 => model_calls[i] = "repair" /\ model_calls[step_count] = "final"
          /\ i + 1 \in 1 .. Len(model_calls) /\ i + 1 = step_count + 1 => model_calls[i + 1] = "repair"
      BY <1>1, <2>0 DEF CallsInv, CallsShape
    <3> QED BY <2>0, <3>1
  <2> QED BY <2>1, <2>2 DEF ModelCallsBounded
<1> QED BY <1>1, CallsInvariance, PTL

\* Every response answered in a turn is recorded, but for an unusable repair
\* response, and that turn says so.
THEOREM ResponsesRecorded == Spec => []ResponsesAccounted
<1>1. ASSUME CallsInv PROVE ResponsesAccounted
  <2> SUFFICES ASSUME phase = "idle", answered # Len(model_calls)
               PROVE  /\ answered = Len(model_calls) + 1
                      /\ failure_reason = "OUTPUT_REPAIR_FAILED"
                      /\ model_calls # <<>> /\ Last(model_calls) = "final"
    BY DEF ResponsesAccounted, TurnEnded
  <2>1. /\ answered = Len(model_calls) + 1 /\ failure_reason = "OUTPUT_REPAIR_FAILED"
        /\ Len(model_calls) >= 1 /\ model_calls[Len(model_calls)] = "final"
    BY <1>1 DEF CallsInv, Accounted, Working
  <2> QED BY <2>1 DEF Last
<1> QED BY <1>1, CallsInvariance, PTL

-----------------------------------------------------------------------------
(* A tool failure ends the turn.                                           *)

\* The entry an observed call appends does not record a failure.
LEMMA ObservedOutcome ==
  ASSUME NEW call, Observe(call)
  PROVE  \E e : tool_history' = Append(tool_history, e) /\ e.outcome # "SYSTEM_FAILURE"
<1>1. ASSUME NEW outcome, NEW r, NEW reason, Record(call.key, outcome, r, reason),
             outcome # "SYSTEM_FAILURE"
      PROVE  \E e : tool_history' = Append(tool_history, e) /\ e.outcome # "SYSTEM_FAILURE"
  <2> DEFINE e == [key |-> call.key, outcome |-> outcome, result |-> r, reason_code |-> reason]
  <2>1. tool_history' = Append(tool_history, e) /\ e.outcome # "SYSTEM_FAILURE"
    BY <1>1 DEF Record
  <2> QED BY <2>1
<1>2. CASE RejectUnknownTool(call) \/ RejectUnparsed(call) \/ BlockTerminalCase(call)
             \/ RejectStructure(call) \/ BlockRefund(call)
  BY <1>1, <1>2 DEF RejectUnknownTool, RejectUnparsed, BlockTerminalCase, RejectStructure,
                    BlockRefund, Refuse
<1>3. CASE ServeCached(call)
  BY <1>1, <1>3 DEF ServeCached
<1>4. CASE ExecuteTool(call)
  BY <1>1, <1>4 DEF ExecuteTool
<1> QED BY <1>2, <1>3, <1>4 DEF Observe

\* SystemFailureEndsTurn over the positions of the session's history.
FailureLast ==
  \A i \in (turn_start_history + 1) .. Len(tool_history) :
    tool_history[i].outcome = "SYSTEM_FAILURE" =>
      /\ i = Len(tool_history)
      /\ phase \in {"closing", "idle"}
      /\ failure_reason = "TOOL_SYSTEM_FAILURE"

LEMMA FailureLastStep == IInv /\ TurnTyped /\ BatchTyped /\ FailureLast /\ [Next]_vars => FailureLast'
<1> SUFFICES ASSUME IInv, TurnTyped, BatchTyped, FailureLast, [Next]_vars PROVE FailureLast'
  OBVIOUS
<1> DEFINE n == Len(tool_history)
<1>0. /\ tool_history \in Seq(ToolInteractions) /\ n \in Nat
      /\ turn_start_history \in 0 .. n
  BY DEF IInv, TypeOK, TurnTyped
<1>1. CASE StartTurn
  <2>1. tool_history' = tool_history /\ turn_start_history' = n
    BY <1>1, NewTurnStutters DEF StartTurn, PrepareState, executorVars
  <2> QED BY <1>0, <2>1 DEF FailureLast
\* While the turn works no entry of it records a failure.
<1>2. ASSUME phase \in Working
      PROVE  \A i \in (turn_start_history + 1) .. n : tool_history[i].outcome # "SYSTEM_FAILURE"
  BY <1>2 DEF FailureLast, Working
<1>3. ASSUME NEW e, tool_history' = Append(tool_history, e), phase \in Working,
             UNCHANGED turn_start_history,
             \/ e.outcome # "SYSTEM_FAILURE"
             \/ phase' = "closing" /\ failure_reason' = "TOOL_SYSTEM_FAILURE"
      PROVE  FailureLast'
  <2>1. /\ Len(tool_history') = n + 1 /\ tool_history'[n + 1] = e
        /\ \A i \in 1 .. n : tool_history'[i] = tool_history[i]
    <3>1. \A S : \A h \in Seq(S) : \A x :
            /\ Len(Append(h, x)) = Len(h) + 1 /\ Append(h, x)[Len(h) + 1] = x
            /\ \A i \in 1 .. Len(h) : Append(h, x)[i] = h[i]
      OBVIOUS
    <3> QED BY <1>0, <1>3, <3>1
  <2> SUFFICES ASSUME NEW i \in (turn_start_history + 1) .. (n + 1),
                      tool_history'[i].outcome = "SYSTEM_FAILURE"
               PROVE  /\ i = n + 1 /\ phase' \in {"closing", "idle"}
                      /\ failure_reason' = "TOOL_SYSTEM_FAILURE"
    BY <1>3, <2>1 DEF FailureLast
  <2>2. i \notin (turn_start_history + 1) .. n
    <3>1. i \in (turn_start_history + 1) .. n => i \in 1 .. n
      BY <1>0
    <3> QED BY <1>2, <1>3, <2>1, <3>1
  <2>3. i = n + 1
    BY <1>0, <2>2
  <2> QED BY <1>3, <2>1, <2>3
<1>4. CASE ExecuteNextCall
  <2>1. PICK e : tool_history' = Append(tool_history, e) /\ e.outcome # "SYSTEM_FAILURE"
    BY <1>4, ObservedOutcome DEF ExecuteNextCall
  <2> QED BY <1>3, <1>4, <2>1 DEF ExecuteNextCall, sessionVars, Working
<1>5. CASE FailNextCall
  <2>1. \E e : tool_history' = Append(tool_history, e)
    BY <1>5 DEF FailNextCall, FailTool, Refuse, Record
  <2> QED BY <1>3, <1>5, <2>1 DEF FailNextCall, Fail, sessionVars, Working
<1>6. ASSUME UNCHANGED <<tool_history, turn_start_history>>,
             \/ phase \in Working
             \/ phase \in {"closing", "idle"} /\ phase' \in {"closing", "idle"}
                /\ UNCHANGED failure_reason
      PROVE  FailureLast'
  <2>1. \A i \in (turn_start_history + 1) .. n :
          tool_history[i].outcome = "SYSTEM_FAILURE" => phase \notin Working
    BY <1>2
  <2> QED BY <1>6, <2>1 DEF FailureLast
<1>7. CASE CloseTurn
  BY <1>6, <1>7 DEF CloseTurn, executorVars, sessionVars
<1>8. CASE UNCHANGED vars
  <2>1. UNCHANGED <<tool_history, turn_start_history, phase, failure_reason>>
    BY <1>8 DEF vars, executorVars, sessionVars, outcomeVars
  <2> QED BY <1>6, <2>1 DEF TurnTyped, Phases, Working
<1>9. CASE StopAtMaxSteps \/ CallModel \/ RetryTransient \/ ExhaustRetries \/ FailProvider
             \/ FinishBatch \/ RejectMalformed \/ FailRepair
  BY <1>6, <1>9 DEF StopAtMaxSteps, CallModel, RetryTransient, ExhaustRetries, FailProvider,
                    AwaitingModel, FinishBatch, RejectMalformed, AskRepair, FailRepair,
                    executorVars, sessionVars, Working
<1>10. ASSUME NEW batch \in Batches, NEW raw \in [DOMAIN batch -> RawIds],
              RequestTools(batch, raw)
       PROVE  FailureLast'
  BY <1>6, <1>10 DEF RequestTools, executorVars, sessionVars, Working
<1>11. ASSUME NEW draft \in Drafts,
              FinalizeDraft(draft) \/ RejectDraft(draft) \/ AcceptRepair(draft)
                \/ RejectRepair(draft)
       PROVE  FailureLast'
  BY <1>6, <1>11 DEF FinalizeDraft, RejectDraft, AskRepair, AcceptRepair, RejectRepair,
                     executorVars, sessionVars, Working
<1> QED
  BY <1>1, <1>4, <1>5, <1>7, <1>8, <1>9, <1>10, <1>11 DEF Next, TurnStep, ModelReplies

\* After a tool system failure nothing is requested or executed until the next
\* customer message, and the turn reports that failure.
THEOREM FailureEndsTurn == Spec => []SystemFailureEndsTurn
<1>1. ASSUME IInv, DInv, FailureLast PROVE SystemFailureEndsTurn
  <2>1. /\ TurnHistory \in Seq(ToolInteractions)
        /\ Len(TurnHistory) = Len(tool_history) - turn_start_history
        /\ \A i \in 1 .. Len(TurnHistory) : TurnHistory[i] = tool_history[turn_start_history + i]
        /\ turn_start_history \in 0 .. Len(tool_history)
        /\ Len(tool_history) \in Nat
    BY <1>1, HistoryTyped DEF IInv, TypeOK, DInv, TurnTyped
  <2> SUFFICES ASSUME NEW i \in 1 .. Len(TurnHistory), TurnHistory[i].outcome = "SYSTEM_FAILURE"
               PROVE  /\ i = Len(TurnHistory) /\ phase \in {"closing", "idle"}
                      /\ failure_reason = "TOOL_SYSTEM_FAILURE"
    BY <2>1 DEF SystemFailureEndsTurn
  <2>2. turn_start_history + i \in (turn_start_history + 1) .. Len(tool_history)
        /\ tool_history[turn_start_history + i].outcome = "SYSTEM_FAILURE"
    BY <2>1
  <2>3. /\ turn_start_history + i = Len(tool_history)
        /\ phase \in {"closing", "idle"} /\ failure_reason = "TOOL_SYSTEM_FAILURE"
    BY <1>1, <2>2 DEF FailureLast
  <2>4. i \in Int
    BY <2>1
  <2>5. i = Len(tool_history) - turn_start_history
    BY ONLY <2>1, <2>3, <2>4
  <2> QED BY <2>1, <2>3, <2>5
<1>2. Init => FailureLast
  BY DEF Init, ExecutorInit, FailureLast
<1>3. IInv /\ DInv /\ FailureLast /\ [Next]_vars => FailureLast'
  BY FailureLastStep DEF DInv
<1> QED BY <1>1, <1>2, <1>3, DInvariance, PTL DEF Spec

-----------------------------------------------------------------------------
(* How many steps a turn can take when nothing but NO_PROGRESS stops it:   *)
(* every step either asks for a call the session has not seen, or counts   *)
(* towards the limit of duplicate steps.                                   *)

HistoryKeys == {tool_history[i].key : i \in DOMAIN tool_history}

\* The number of calls the session has seen.
Seen == Cardinality(HistoryKeys)

\* A call of the response is still to be executed and has not been seen.
Pending == \E j \in (executed + 1) .. Len(calls) : calls[j].call.key \notin HistoryKeys

StepsPaid ==
  /\ phase = "loop" =>
       /\ Seen = 0 => step_count = 0
       /\ Seen > 0 => step_count <= 3 * Seen - 2 + no_progress_steps
  /\ phase = "model" =>
       /\ Seen = 0 => step_count = 1
       /\ Seen > 0 => step_count <= 3 * Seen - 1 + no_progress_steps
  /\ phase = "tools" /\ duplicate_step =>
       Seen > 0 /\ step_count <= 3 * Seen - 1 + no_progress_steps
  /\ phase = "tools" /\ ~duplicate_step =>
       \/ Seen > 0 /\ step_count <= 3 * Seen - 2
       \/ Pending /\ step_count <= 3 * Seen + 1
  /\ step_count <= 3 * Cardinality(CallKeys) + 1

LEMMA SeenBounded ==
  ASSUME IsFiniteSet(Calls), IInv
  PROVE  /\ IsFiniteSet(HistoryKeys) /\ Seen \in Nat
         /\ Cardinality(CallKeys) \in Nat /\ Seen <= Cardinality(CallKeys)
         /\ Seen = 0 <=> HistoryKeys = {}
<1>1. IsFiniteSet(CallKeys)
  <2> DEFINE f == [call \in Calls |-> call.key]
  <2>1. f \in Surjection(Calls, CallKeys)
    BY DEF Surjection, CallKeys
  <2> QED BY <2>1, FS_Surjection
<1>2. HistoryKeys \in SUBSET CallKeys
  BY DEF HistoryKeys, IInv, HistoryAnswered
<1>3. IsFiniteSet(HistoryKeys) /\ Cardinality(HistoryKeys) <= Cardinality(CallKeys)
  BY <1>1, <1>2, FS_Subset
<1>4. Seen \in Nat /\ Cardinality(CallKeys) \in Nat
  BY <1>1, <1>3, FS_CardinalityType DEF Seen
<1>5. Seen = 0 <=> HistoryKeys = {}
  BY <1>3, FS_EmptySet DEF Seen
<1> QED BY <1>3, <1>4, <1>5 DEF Seen

LEMMA StepsStep ==
  ASSUME IsFiniteSet(Calls), IInv, BatchTyped, LoopTyped, StepsPaid, [Next]_vars
  PROVE  StepsPaid'
<1>0. /\ tool_history \in Seq(ToolInteractions) /\ TypeOK
      /\ Seen \in Nat /\ Cardinality(CallKeys) \in Nat /\ Seen <= Cardinality(CallKeys)
      /\ step_count \in Nat /\ no_progress_steps \in 0 .. 3
      /\ phase \in Working => no_progress_steps < 3
      /\ step_count <= 3 * Cardinality(CallKeys) + 1
  BY SeenBounded DEF IInv, TypeOK, LoopTyped, NoProgressLimit, StepsPaid
<1>1. CASE StartTurn
  <2>1. tool_history' = tool_history /\ step_count' = 0 /\ no_progress_steps' = 0
        /\ phase' = "loop"
    BY <1>1, NewTurnStutters DEF StartTurn, PrepareState, executorVars
  <2>2. Seen' = Seen
    BY <2>1 DEF Seen, HistoryKeys
  <2> QED BY <1>0, <2>1, <2>2 DEF StepsPaid
<1>2. CASE CallModel
  <2>1. /\ tool_history' = tool_history /\ no_progress_steps' = no_progress_steps
        /\ step_count' = step_count + 1 /\ phase = "loop" /\ phase' = "model"
    BY <1>2 DEF CallModel, executorVars
  <2>2. Seen' = Seen
    BY <2>1 DEF Seen, HistoryKeys
  <2>3. /\ Seen = 0 => step_count = 0
        /\ Seen > 0 => step_count <= 3 * Seen - 2 + no_progress_steps
        /\ no_progress_steps < 3
    BY <1>0, <2>1 DEF StepsPaid, Working
  <2>4. step_count' <= 3 * Cardinality(CallKeys) + 1
    BY <1>0, <2>1, <2>3
  <2> QED BY <1>0, <2>1, <2>2, <2>3, <2>4 DEF StepsPaid
<1>3. ASSUME NEW batch \in Batches, NEW raw \in [DOMAIN batch -> RawIds],
             RequestTools(batch, raw)
      PROVE  StepsPaid'
  <2>1. /\ tool_history' = tool_history
        /\ UNCHANGED <<step_count, no_progress_steps>> /\ phase = "model" /\ phase' = "tools"
        /\ executed' = 0
        /\ calls' = [i \in DOMAIN batch |-> [call |-> batch[i], id |-> UniqueIds(raw)[i]]]
    BY <1>3 DEF RequestTools, executorVars
  <2>2. Seen' = Seen /\ HistoryKeys' = HistoryKeys
    BY <2>1 DEF Seen, HistoryKeys
  <2>3. batch \in Seq(Calls) /\ batch # <<>>
    BY AgentAssumption
  <2>4. DOMAIN batch = 1 .. Len(batch) /\ Len(batch) \in Nat /\ 1 \in DOMAIN batch
    BY <2>3
  <2>5. Len(calls') = Len(batch) /\ \A i \in DOMAIN batch : calls'[i].call = batch[i]
    BY <2>1, <2>4
  <2>6. duplicate_step' <=> \A i \in DOMAIN batch : batch[i].key \in HistoryKeys
    BY <1>3 DEF RequestTools, AllCallsDuplicate, HistoryKeys
  <2>7. /\ Seen = 0 => step_count = 1
        /\ Seen > 0 => step_count <= 3 * Seen - 1 + no_progress_steps
        /\ no_progress_steps < 3
    BY <1>0, <2>1 DEF StepsPaid, Working
  <2>8. CASE duplicate_step'
    <3>1. Seen > 0
      BY <1>0, <2>4, <2>6, <2>8, SeenBounded
    <3> QED BY <1>0, <2>1, <2>2, <2>7, <2>8, <3>1 DEF StepsPaid
  <2>9. CASE ~duplicate_step'
    <3>1. Pending'
      BY <2>1, <2>2, <2>4, <2>5, <2>6, <2>9 DEF Pending
    <3>2. step_count <= 3 * Seen + 1
      BY <1>0, <2>7
    <3> QED BY <1>0, <2>1, <2>2, <2>9, <3>1, <3>2 DEF StepsPaid
  <2> QED BY <2>8, <2>9
<1>4. CASE ExecuteNextCall
  <2> DEFINE key == calls[executed + 1].call.key
  <2>1. /\ UNCHANGED <<step_count, no_progress_steps, calls, duplicate_step>>
        /\ phase = "tools" /\ phase' = "tools"
        /\ executed' = executed + 1 /\ executed < Len(calls)
        /\ Observe(calls[executed + 1].call)
    BY <1>4 DEF ExecuteNextCall
  <2>2. calls \in Seq([call : Calls, id : Ids]) /\ executed \in Nat /\ Len(calls) \in Nat
    BY DEF BatchTyped
  <2>3. calls[executed + 1].call \in Calls
    <3>1. executed + 1 \in 1 .. Len(calls)
      BY <2>1, <2>2
    <3>2. calls[executed + 1] \in [call : Calls, id : Ids]
      BY <2>2, <3>1, ElementOf
    <3> QED BY <3>2
  <2>4. PICK e \in ToolInteractions : e.key = key /\ tool_history' = Append(tool_history, e)
    BY <1>0, <2>1, <2>3, Branches DEF Execute, Refused, Answered
  <2>5. HistoryKeys' = HistoryKeys \cup {key}
    <3>1. /\ DOMAIN tool_history = 1 .. Len(tool_history) /\ Len(tool_history) \in Nat
          /\ DOMAIN tool_history' = 1 .. (Len(tool_history) + 1)
          /\ \A i \in DOMAIN tool_history : tool_history'[i] = tool_history[i]
          /\ tool_history'[Len(tool_history) + 1] = e
      BY <1>0, <2>4, Grow
    <3> HIDE DEF key
    <3>2. \A i \in DOMAIN tool_history' :
            i \in DOMAIN tool_history \/ i = Len(tool_history) + 1
      BY <3>1
    <3>3. HistoryKeys' \subseteq HistoryKeys \cup {key}
      BY <2>4, <3>1, <3>2 DEF HistoryKeys
    <3>4. HistoryKeys \cup {key} \subseteq HistoryKeys'
      BY <2>4, <3>1 DEF HistoryKeys
    <3> QED BY <3>3, <3>4
  <2> HIDE DEF key
  <2>6. CASE key \notin HistoryKeys
    <3>1. Seen' = Seen + 1
      BY <2>5, <2>6, SeenBounded, FS_AddElement DEF Seen
    <3>2. CASE duplicate_step
      BY <1>0, <2>1, <3>1, <3>2 DEF StepsPaid
    <3>3. CASE ~duplicate_step
      <4>1. step_count <= 3 * Seen + 1
        BY <1>0, <2>1, <3>3 DEF StepsPaid
      <4> QED BY <1>0, <2>1, <3>1, <3>3, <4>1 DEF StepsPaid
    <3> QED BY <3>2, <3>3
  <2>7. CASE key \in HistoryKeys
    <3>1. HistoryKeys' = HistoryKeys /\ Seen' = Seen
      BY <2>5, <2>7 DEF Seen
    <3>2. ASSUME Pending PROVE Pending'
      <4>1. PICK j \in (executed + 1) .. Len(calls) : calls[j].call.key \notin HistoryKeys
        BY <3>2 DEF Pending
      <4>2. j # executed + 1
        BY <2>7, <4>1 DEF key
      <4>3. j \in (executed + 1 + 1) .. Len(calls)
        BY <2>2, <4>1, <4>2
      <4> QED BY <2>1, <3>1, <4>1, <4>3 DEF Pending
    <3> QED BY <1>0, <2>1, <3>1, <3>2 DEF StepsPaid
  <2> QED BY <2>6, <2>7
<1>5. CASE FinishBatch
  <2>1. /\ UNCHANGED <<tool_history, step_count>> /\ phase = "tools"
        /\ phase' \in {"loop", "closing"} /\ executed = Len(calls)
        /\ duplicate_step => no_progress_steps' = no_progress_steps + 1
        /\ ~duplicate_step => no_progress_steps' = 0
    BY <1>5 DEF FinishBatch, Fail, executorVars
  <2>2. Seen' = Seen
    BY <2>1 DEF Seen, HistoryKeys
  <2>3. ~Pending
    <3>1. Len(calls) \in Nat
      BY DEF BatchTyped
    <3> QED BY <2>1, <3>1 DEF Pending
  <2>4. CASE duplicate_step
    <3>1. Seen > 0 /\ step_count <= 3 * Seen - 1 + no_progress_steps
      BY <2>1, <2>4 DEF StepsPaid
    <3> QED BY <1>0, <2>1, <2>2, <2>4, <3>1 DEF StepsPaid
  <2>5. CASE ~duplicate_step
    <3>1. Seen > 0 /\ step_count <= 3 * Seen - 2
      BY <2>1, <2>3, <2>5 DEF StepsPaid
    <3> QED BY <1>0, <2>1, <2>2, <2>5, <3>1 DEF StepsPaid
  <2> QED BY <2>4, <2>5
\* The other steps end the turn, or leave what is counted alone.
<1>6. ASSUME UNCHANGED step_count, phase' \in {"repair", "closing", "idle"}
      PROVE  StepsPaid'
  BY <1>0, <1>6 DEF StepsPaid
<1>7. ASSUME UNCHANGED <<tool_history, step_count, no_progress_steps, phase, duplicate_step,
                         calls, executed>>
      PROVE  StepsPaid'
  <2>1. Seen' = Seen /\ Pending' = Pending
    BY <1>7 DEF Seen, Pending, HistoryKeys
  <2> QED BY <1>7, <2>1 DEF StepsPaid
<1>8. CASE RetryTransient \/ UNCHANGED vars
  <2>1. UNCHANGED <<tool_history, step_count, no_progress_steps, phase, duplicate_step,
                    calls, executed>>
    BY <1>8 DEF RetryTransient, vars, executorVars, loopVars
  <2> QED BY <1>7, <2>1
<1>9. CASE StopAtMaxSteps \/ ExhaustRetries \/ FailProvider \/ FailNextCall \/ RejectMalformed
             \/ FailRepair \/ CloseTurn
  BY <1>6, <1>9 DEF StopAtMaxSteps, ExhaustRetries, FailProvider, CallFailed, FailNextCall,
                    RejectMalformed, AskRepair, FailRepair, CloseTurn, Fail, loopVars
<1>10. ASSUME NEW draft \in Drafts,
              FinalizeDraft(draft) \/ RejectDraft(draft) \/ AcceptRepair(draft)
                \/ RejectRepair(draft)
       PROVE  StepsPaid'
  BY <1>6, <1>10 DEF FinalizeDraft, RejectDraft, AskRepair, AcceptRepair, RejectRepair, Accept,
                     Fail, loopVars
<1> QED
  BY <1>1, <1>2, <1>3, <1>4, <1>5, <1>8, <1>9, <1>10 DEF Next, TurnStep, ModelReplies

\* If a model can request only finitely many calls, a turn without a step limit
\* ends after three steps for each of them, and one more.
THEOREM StepsBounded ==
  ASSUME IsFiniteSet(Calls)
  PROVE  Spec => []StepsBoundedByCalls
<1>1. ASSUME StepsPaid PROVE StepsBoundedByCalls
  BY <1>1 DEF StepsPaid, StepsBoundedByCalls, NoProgressLimit, CallKeys
<1>2. Init => StepsPaid
  <2> SUFFICES ASSUME Init PROVE StepsPaid
    OBVIOUS
  <2>1. phase = "idle" /\ step_count = 0 /\ ExecutorInit
    BY DEF Init
  <2>2. Cardinality(CallKeys) \in Nat
    BY <2>1, InitInv, SeenBounded
  <2> QED BY <2>1, <2>2 DEF StepsPaid
<1>3. /\ IInv /\ DInv /\ LoopTyped /\ CallsInv /\ StepsPaid /\ [Next]_vars => StepsPaid'
  BY StepsStep DEF DInv
<1> QED BY <1>1, <1>2, <1>3, DInvariance, CallsInvariance, PTL DEF Spec

-----------------------------------------------------------------------------
(* The stored conversation.                                                *)

Roles == {"system", "user", "calls", "tool", "assistant"}
Messages == [role : Roles, ids : Seq(Ids)]

Distinct(ids) == \A m, n \in 1 .. Len(ids) : m # n => ids[m] # ids[n]

AnsweredUpTo(ms, p, ids, k) == \A n \in 1 .. k : ms[p + n] = Message("tool", <<ids[n]>>)

\* The exchange that starts at i is complete within the first q messages.
ClosedWithin(ms, q, i) ==
  /\ Distinct(ms[i].ids)
  /\ i + Len(ms[i].ids) <= q
  /\ AnsweredUpTo(ms, i, ms[i].ids, Len(ms[i].ids))
  /\ i + Len(ms[i].ids) < q => ms[i + Len(ms[i].ids) + 1].role # "tool"

\* The first q messages are a conversation on their own.
WellFormedUpTo(ms, q) ==
  /\ \A i \in 1 .. q : ms[i].role = "calls" => ClosedWithin(ms, q, i)
  /\ \A i \in 1 .. q : ms[i].role = "tool" => i > 1 /\ ms[i - 1].role \in {"calls", "tool"}

\* While a batch is executed its request is the last one, answered as far as
\* the batch has run; at any other time no exchange is open.
OpenExchange ==
  LET p == Len(messages) - executed IN
  /\ p >= 1 /\ messages[p].role = "calls"
  /\ Len(messages[p].ids) = Len(calls)
  /\ \A n \in 1 .. Len(calls) : messages[p].ids[n] = calls[n].id
  /\ Distinct(messages[p].ids)
  /\ AnsweredUpTo(messages, p, messages[p].ids, executed)
  /\ WellFormedUpTo(messages, p - 1)

Conversing ==
  /\ messages \in Seq(Messages)
  /\ phase = "tools" => OpenExchange
  /\ phase # "tools" => WellFormedUpTo(messages, Len(messages))

-----------------------------------------------------------------------------
(* Conversations.                                                          *)

LEMMA MessageTyped ==
  ASSUME NEW ms \in Seq(Messages), NEW i \in 1 .. Len(ms)
  PROVE  ms[i] \in Messages /\ Len(ms[i].ids) \in Nat
<1>1. ms[i] \in Messages
  OBVIOUS
<1> HIDE DEF Messages
<1>2. ms[i].ids \in Seq(Ids)
  BY <1>1 DEF Messages
<1> QED BY <1>1, <1>2

\* Whether a prefix is well formed depends on nothing that comes after it.
LEMMA SamePrefix ==
  ASSUME NEW ms \in Seq(Messages), NEW ns \in Seq(Messages), NEW q \in Nat,
         q <= Len(ms), q <= Len(ns),
         \A i \in 1 .. q : ns[i] = ms[i],
         WellFormedUpTo(ms, q)
  PROVE  WellFormedUpTo(ns, q)
<1>1. ASSUME NEW i \in 1 .. q, ns[i].role = "calls"
      PROVE  ClosedWithin(ns, q, i)
  <2>1. ns[i] = ms[i] /\ ms[i] \in Messages /\ i \in Nat
    OBVIOUS
  <2>2. ClosedWithin(ms, q, i)
    BY <1>1, <2>1 DEF WellFormedUpTo
  <2>3. Len(ms[i].ids) \in Nat
    BY MessageTyped
  <2>4. AnsweredUpTo(ns, i, ns[i].ids, Len(ns[i].ids))
    BY <2>1, <2>2, <2>3 DEF ClosedWithin, AnsweredUpTo
  <2>5. i + Len(ns[i].ids) < q => ns[i + Len(ns[i].ids) + 1].role # "tool"
    BY <2>1, <2>2, <2>3 DEF ClosedWithin
  <2> QED BY <2>1, <2>2, <2>4, <2>5 DEF ClosedWithin
<1>2. ASSUME NEW i \in 1 .. q, ns[i].role = "tool"
      PROVE  i > 1 /\ ns[i - 1].role \in {"calls", "tool"}
  <2>1. ms[i].role = "tool"
    BY <1>2
  <2>2. i > 1 /\ ms[i - 1].role \in {"calls", "tool"}
    BY <2>1 DEF WellFormedUpTo
  <2>3. i - 1 \in 1 .. q
    BY <2>2
  <2> QED BY <2>2, <2>3
<1> QED BY <1>1, <1>2 DEF WellFormedUpTo

\* A message that opens and answers nothing may follow any conversation.
LEMMA PlainMessage ==
  ASSUME NEW ms \in Seq(Messages), NEW m \in Messages, m.role \notin {"calls", "tool"},
         WellFormedUpTo(ms, Len(ms))
  PROVE  /\ Append(ms, m) \in Seq(Messages)
         /\ WellFormedUpTo(Append(ms, m), Len(Append(ms, m)))
<1> DEFINE ns == Append(ms, m)
           q == Len(ms)
<1>1. /\ ns \in Seq(Messages) /\ Len(ns) = q + 1 /\ q \in Nat
      /\ ns[q + 1] = m /\ \A i \in 1 .. q : ns[i] = ms[i]
  OBVIOUS
<1> HIDE DEF ns
<1>2. WellFormedUpTo(ns, q)
  <2>1. q <= Len(ms) /\ q <= Len(ns)
    BY <1>1
  <2> QED BY <1>1, <2>1, SamePrefix, Zenon
<1> HIDE DEF q
<1>3. ASSUME NEW i \in 1 .. (q + 1), ns[i].role = "calls"
      PROVE  ClosedWithin(ns, q + 1, i)
  <2>1. i \in 1 .. q
    BY <1>1, <1>3
  <2>2. ClosedWithin(ns, q, i)
    BY <1>2, <1>3, <2>1 DEF WellFormedUpTo
  <2>3. Len(ns[i].ids) \in Nat
    BY <1>1, MessageTyped
  <2>4. i + Len(ns[i].ids) = q => ns[i + Len(ns[i].ids) + 1].role # "tool"
    BY <1>1
  <2> QED BY <1>1, <2>1, <2>2, <2>3, <2>4 DEF ClosedWithin
<1>4. ASSUME NEW i \in 1 .. (q + 1), ns[i].role = "tool"
      PROVE  i > 1 /\ ns[i - 1].role \in {"calls", "tool"}
  <2>1. i \in 1 .. q
    BY <1>1, <1>4
  <2> QED BY <1>2, <1>4, <2>1 DEF WellFormedUpTo
<1>5. WellFormedUpTo(ns, Len(ns))
  BY <1>1, <1>3, <1>4 DEF WellFormedUpTo
<1> QED BY <1>1, <1>5 DEF ns

\* A request followed by one answer for each of its ids closes its exchange.
LEMMA AnsweredExchange ==
  ASSUME NEW ms \in Seq(Messages), NEW p \in 1 .. Len(ms),
         ms[p].role = "calls", Distinct(ms[p].ids),
         p + Len(ms[p].ids) = Len(ms),
         AnsweredUpTo(ms, p, ms[p].ids, Len(ms[p].ids)),
         WellFormedUpTo(ms, p - 1)
  PROVE  WellFormedUpTo(ms, Len(ms))
<1> DEFINE ids == ms[p].ids
           q == Len(ms)
<1>1. q \in Nat /\ \A i \in 1 .. q : Len(ms[i].ids) \in Nat
  BY MessageTyped
<1>2. p \in 1 .. q
  OBVIOUS
<1>3. Len(ids) \in Nat /\ p + Len(ids) = q
  BY <1>1, <1>2
<1>4. \A n \in 1 .. Len(ids) : ms[p + n].role = "tool"
  <2>1. ASSUME NEW n \in 1 .. Len(ids) PROVE ms[p + n].role = "tool"
    <3>1. ms[p + n] = Message("tool", <<ids[n]>>)
      BY DEF AnsweredUpTo
    <3> QED BY ONLY <3>1 DEF Message
  <2> QED BY <2>1
<1> HIDE DEF ids, q
<1>5. ASSUME NEW i \in 1 .. q, ms[i].role = "calls"
      PROVE  ClosedWithin(ms, q, i)
  <2>1. CASE i < p
    <3>1. ClosedWithin(ms, p - 1, i)
      BY <1>2, <1>5, <2>1 DEF WellFormedUpTo
    <3>2. i + Len(ms[i].ids) = p - 1 => ms[i + Len(ms[i].ids) + 1].role # "tool"
      BY <1>1
    <3> QED BY <1>1, <1>2, <3>1, <3>2 DEF ClosedWithin
  <2>2. CASE i = p
    BY <1>1, <1>3, <2>2 DEF ClosedWithin, ids, q
  <2>3. CASE i > p
    <3>1. i - p \in 1 .. Len(ids) /\ p + (i - p) = i
      BY <1>2, <1>3, <2>3
    <3> QED BY <1>4, <1>5, <3>1
  <2> QED BY <1>2, <2>1, <2>2, <2>3
<1>6. ASSUME NEW i \in 1 .. q, ms[i].role = "tool"
      PROVE  i > 1 /\ ms[i - 1].role \in {"calls", "tool"}
  <2>1. CASE i < p
    BY <1>2, <1>6, <2>1 DEF WellFormedUpTo
  <2>2. CASE i = p
    BY <1>6, <2>2
  <2>3. CASE i = p + 1
    <3>1. i > 1 /\ i - 1 = p
      BY <1>2, <2>3
    <3> QED BY <3>1
  <2>4. CASE i > p + 1
    <3>1. (i - 1) - p \in 1 .. Len(ids) /\ p + ((i - 1) - p) = i - 1
      BY <1>2, <1>3, <2>4
    <3>2. ms[i - 1].role = "tool"
      BY ONLY <1>4, <3>1
    <3> QED BY <1>2, <2>4, <3>2
  <2> QED BY <1>2, <2>1, <2>2, <2>3, <2>4
<1> QED BY <1>5, <1>6 DEF WellFormedUpTo, q

-----------------------------------------------------------------------------
(* The steps of the runtime.                                               *)

LEMMA MessagesTyped ==
  /\ Message("system", <<>>) \in Messages /\ Message("user", <<>>) \in Messages
  /\ Message("assistant", <<>>) \in Messages
  /\ \A id \in Ids : Message("tool", <<id>>) \in Messages
  /\ \A ids \in Seq(Ids) : Message("calls", ids) \in Messages
<1> HIDE DEF Ids
<1>1. <<>> \in Seq(Ids) /\ \A id \in Ids : <<id>> \in Seq(Ids)
  OBVIOUS
<1> QED BY <1>1 DEF Message, Messages, Roles

\* The ids of one response are distinct after ensure_unique_tool_call_ids,
\* whatever the provider sent.
LEMMA IdsDistinct ==
  ASSUME NEW batch \in Batches, NEW raw \in [DOMAIN batch -> RawIds]
  PROVE  /\ UniqueIds(raw) \in Seq(Ids) /\ Len(UniqueIds(raw)) = Len(batch)
         /\ Distinct(UniqueIds(raw))
<1>1. batch \in Seq(Calls) /\ UniqueIds(raw) \in [DOMAIN batch -> Ids]
  BY IdsTyped
<1>2. DOMAIN batch = 1 .. Len(batch) /\ Len(batch) \in Nat
  BY <1>1
<1>3. UniqueIds(raw) \in Seq(Ids) /\ Len(UniqueIds(raw)) = Len(batch)
  BY <1>1, <1>2
<1>4. ASSUME NEW m \in 1 .. Len(batch), NEW n \in 1 .. Len(batch), m < n
      PROVE  UniqueIds(raw)[m] # UniqueIds(raw)[n]
  <2>1. DOMAIN raw = 1 .. Len(batch) /\ m \in 1 .. (n - 1)
    BY <1>2, <1>4
  <2>2. /\ UniqueIds(raw)[m] \in {<<"provider", raw[m]>>, <<"fresh", m>>}
        /\ UniqueIds(raw)[n] \in {<<"provider", raw[n]>>, <<"fresh", n>>}
        /\ UniqueIds(raw)[n] = <<"provider", raw[n]>> => raw[m] # raw[n]
    BY <2>1 DEF UniqueIds
  <2> QED BY <1>4, <2>2
<1>5. Distinct(UniqueIds(raw))
  BY <1>2, <1>3, <1>4 DEF Distinct
<1> QED BY <1>3, <1>5

LEMMA ConversingInit == Init => Conversing
<1> SUFFICES ASSUME Init PROVE Conversing
  OBVIOUS
<1>1. messages = <<Message("system", <<>>)>> /\ phase = "idle"
  BY DEF Init
<1>2. messages \in Seq(Messages) /\ Len(messages) = 1
  BY <1>1, MessagesTyped
<1>3. messages[1].role = "system"
  BY <1>1 DEF Message
<1> QED BY <1>1, <1>2, <1>3 DEF Conversing, WellFormedUpTo

\* A batch is requested: its exchange is open and nothing is answered yet.
LEMMA RequestStep ==
  ASSUME Conversing, BatchTyped,
         NEW batch \in Batches, NEW raw \in [DOMAIN batch -> RawIds], RequestTools(batch, raw)
  PROVE  Conversing'
<1> DEFINE ids == UniqueIds(raw)
<1>1. ids \in Seq(Ids) /\ Len(ids) = Len(batch) /\ Distinct(ids)
  BY IdsDistinct
<1>2. /\ messages' = Append(messages, Message("calls", ids)) /\ phase' = "tools"
      /\ executed' = 0
      /\ calls' = [i \in DOMAIN batch |-> [call |-> batch[i], id |-> ids[i]]]
  BY DEF RequestTools
<1>3. messages \in Seq(Messages) /\ WellFormedUpTo(messages, Len(messages))
  BY DEF Conversing, RequestTools
<1>4. batch \in Seq(Calls)
  BY IdsTyped
<1>5. Message("calls", ids) \in Messages
  BY <1>1, MessagesTyped
<1> HIDE DEF ids
<1>6. /\ messages' \in Seq(Messages) /\ Len(messages') = Len(messages) + 1
      /\ Len(messages) \in Nat
      /\ messages'[Len(messages) + 1] = Message("calls", ids)
      /\ \A i \in 1 .. Len(messages) : messages'[i] = messages[i]
  BY ONLY <1>2, <1>3, <1>5
<1>7. Len(calls') = Len(ids) /\ \A n \in 1 .. Len(calls') : calls'[n].id = ids[n]
  BY ONLY <1>1, <1>2, <1>4
<1>8. WellFormedUpTo(messages', Len(messages))
  <2>1. Len(messages) <= Len(messages) /\ Len(messages) <= Len(messages')
    BY ONLY <1>6
  <2> QED BY <1>3, <1>6, <2>1, SamePrefix, Zenon
<1>9. Message("calls", ids).role = "calls" /\ Message("calls", ids).ids = ids
  BY DEF Message
<1>10. Len(messages') - executed' = Len(messages) + 1 /\ Len(messages) + 1 >= 1
       /\ Len(messages) + 1 - 1 = Len(messages) /\ 1 .. executed' = {}
  BY ONLY <1>2, <1>6
<1>11. OpenExchange'
  <2>1. AnsweredUpTo(messages', Len(messages) + 1, ids, executed')
    BY ONLY <1>10 DEF AnsweredUpTo
  <2> QED BY ONLY <1>1, <1>6, <1>7, <1>8, <1>9, <1>10, <2>1 DEF OpenExchange
<1> QED BY <1>2, <1>6, <1>11 DEF Conversing

\* The next call of the batch is answered under its own id.
LEMMA AnswerStep ==
  ASSUME Conversing, BatchTyped, LoopTyped, ExecuteNextCall
  PROVE  Conversing'
<1> DEFINE p == Len(messages) - executed
           m == Message("tool", <<calls[executed + 1].id>>)
<1>1. /\ messages' = Append(messages, m) /\ phase' = "tools" /\ executed' = executed + 1
      /\ calls' = calls /\ executed < Len(calls)
  BY DEF ExecuteNextCall
<1>2. messages \in Seq(Messages) /\ OpenExchange
  BY DEF Conversing, ExecuteNextCall
<1>3. calls \in Seq([call : Calls, id : Ids]) /\ executed \in Nat /\ Len(calls) \in Nat
  BY DEF BatchTyped
<1>4. executed + 1 \in 1 .. Len(calls)
  BY ONLY <1>1, <1>3
<1>5. m \in Messages
  <2>1. calls[executed + 1] \in [call : Calls, id : Ids]
    BY ONLY <1>3, <1>4, ElementOf
  <2> QED BY <2>1, MessagesTyped
<1>6. /\ p >= 1 /\ messages[p].role = "calls"
      /\ Len(messages[p].ids) = Len(calls)
      /\ \A n \in 1 .. Len(calls) : messages[p].ids[n] = calls[n].id
      /\ Distinct(messages[p].ids)
      /\ AnsweredUpTo(messages, p, messages[p].ids, executed)
      /\ WellFormedUpTo(messages, p - 1)
  BY <1>2 DEF OpenExchange
<1> HIDE DEF m
<1>7. /\ messages' \in Seq(Messages) /\ Len(messages') = Len(messages) + 1
      /\ Len(messages) \in Nat
      /\ messages'[Len(messages) + 1] = m
      /\ \A i \in 1 .. Len(messages) : messages'[i] = messages[i]
  BY ONLY <1>1, <1>2, <1>5
<1>8. /\ Len(messages') - executed' = p /\ p \in 1 .. Len(messages)
      /\ p + (executed + 1) = Len(messages) + 1
      /\ \A n \in 1 .. executed : p + n \in 1 .. Len(messages)
      /\ p - 1 \in Nat /\ p - 1 <= Len(messages) /\ p - 1 <= Len(messages')
      /\ \A i \in 1 .. (p - 1) : i \in 1 .. Len(messages)
  <2>1. /\ p = Len(messages) - executed /\ Len(messages) \in Nat /\ executed \in Nat /\ p >= 1
        /\ Len(messages') = Len(messages) + 1 /\ executed' = executed + 1
    BY <1>1, <1>3, <1>6, <1>7
  <2> HIDE DEF p
  <2> QED BY ONLY <2>1
<1> HIDE DEF p
<1>9. messages'[p] = messages[p]
  BY ONLY <1>7, <1>8
<1>10. AnsweredUpTo(messages', p, messages[p].ids, executed + 1)
  <2>1. ASSUME NEW n \in 1 .. executed
        PROVE  messages'[p + n] = Message("tool", <<messages[p].ids[n]>>)
    BY ONLY <1>6, <1>7, <1>8, <2>1 DEF AnsweredUpTo
  <2>2. messages'[p + (executed + 1)] = Message("tool", <<messages[p].ids[executed + 1]>>)
    BY ONLY <1>4, <1>6, <1>7, <1>8 DEF m
  <2> QED BY <1>3, <2>1, <2>2 DEF AnsweredUpTo
<1>11. WellFormedUpTo(messages', p - 1)
  <2>1. \A i \in 1 .. (p - 1) : messages'[i] = messages[i]
    BY ONLY <1>7, <1>8
  <2> QED BY <1>2, <1>6, <1>7, <1>8, <2>1, SamePrefix, Zenon
<1>12. OpenExchange'
  BY ONLY <1>1, <1>6, <1>8, <1>9, <1>10, <1>11 DEF OpenExchange
<1> QED BY <1>1, <1>7, <1>12 DEF Conversing

\* Every call of the batch is answered: the exchange is closed.
LEMMA BatchFinished ==
  ASSUME Conversing, BatchTyped, phase = "tools", executed = Len(calls)
  PROVE  WellFormedUpTo(messages, Len(messages))
<1> DEFINE p == Len(messages) - executed
<1>1. messages \in Seq(Messages) /\ OpenExchange
  BY DEF Conversing
<1>2. executed \in Nat
  BY DEF BatchTyped
<1>3. /\ p >= 1 /\ messages[p].role = "calls"
      /\ Len(messages[p].ids) = executed /\ Distinct(messages[p].ids)
      /\ AnsweredUpTo(messages, p, messages[p].ids, executed)
      /\ WellFormedUpTo(messages, p - 1)
  BY <1>1 DEF OpenExchange
<1>4. p \in 1 .. Len(messages) /\ p + executed = Len(messages)
  <2>1. /\ p = Len(messages) - executed /\ Len(messages) \in Nat /\ executed \in Nat /\ p >= 1
    BY <1>1, <1>2, <1>3
  <2> HIDE DEF p
  <2> QED BY ONLY <2>1
<1> HIDE DEF p
<1> QED BY <1>1, <1>3, <1>4, AnsweredExchange

LEMMA Remainder ==
  ASSUME NEW S, NEW s \in Seq(S), NEW k \in Nat, k < Len(s)
  PROVE  /\ SubSeq(s, k + 1, Len(s)) \in Seq(S)
         /\ Len(SubSeq(s, k + 1, Len(s))) = Len(s) - k
         /\ \A i \in 1 .. Len(SubSeq(s, k + 1, Len(s))) :
              SubSeq(s, k + 1, Len(s))[i] = s[k + i]
OBVIOUS

\* A tool failure answers every call of the batch that is still open.
LEMMA FailureCloses ==
  ASSUME Conversing, BatchTyped, LoopTyped, FailNextCall
  PROVE  messages' \in Seq(Messages) /\ WellFormedUpTo(messages', Len(messages'))
<1> DEFINE p == Len(messages) - executed
           open == SubSeq(calls, executed + 1, Len(calls))
           tail == [i \in DOMAIN open |-> Message("tool", <<open[i].id>>)]
<1>1. messages' = messages \o tail /\ executed < Len(calls)
  BY DEF FailNextCall, CloseOutstandingCalls
<1>2. messages \in Seq(Messages) /\ OpenExchange
  BY DEF Conversing, FailNextCall
<1>3. calls \in Seq([call : Calls, id : Ids]) /\ executed \in Nat /\ Len(calls) \in Nat
  BY DEF BatchTyped
<1>4. /\ open \in Seq([call : Calls, id : Ids]) /\ Len(open) = Len(calls) - executed
      /\ \A i \in 1 .. Len(open) : open[i] = calls[executed + i]
  BY <1>1, <1>3, Remainder
<1> HIDE DEF open
<1>5. tail \in Seq(Messages) /\ Len(tail) = Len(calls) - executed
      /\ \A i \in 1 .. Len(tail) : tail[i] = Message("tool", <<calls[executed + i].id>>)
  <2>1. \A i \in 1 .. Len(open) : open[i].id \in Ids
    <3> TAKE i \in 1 .. Len(open)
    <3>1. open[i] \in [call : Calls, id : Ids]
      BY ONLY <1>4, ElementOf
    <3> QED BY <3>1
  <2>2. \A i \in 1 .. Len(open) : Message("tool", <<open[i].id>>) \in Messages
    BY <2>1, MessagesTyped
  <2>3. DOMAIN open = 1 .. Len(open) /\ Len(open) \in Nat
    BY ONLY <1>4
  <2>4. tail \in [1 .. Len(open) -> Messages]
    BY <2>2, <2>3
  <2>5. tail \in Seq(Messages) /\ Len(tail) = Len(open)
    <3> HIDE DEF tail
    <3> QED BY <2>3, <2>4
  <2>6. \A i \in 1 .. Len(open) : tail[i] = Message("tool", <<open[i].id>>)
    BY <2>3
  <2> HIDE DEF tail
  <2> QED BY <1>4, <2>5, <2>6
<1>6. /\ p >= 1 /\ messages[p].role = "calls"
      /\ Len(messages[p].ids) = Len(calls)
      /\ \A n \in 1 .. Len(calls) : messages[p].ids[n] = calls[n].id
      /\ Distinct(messages[p].ids)
      /\ AnsweredUpTo(messages, p, messages[p].ids, executed)
      /\ WellFormedUpTo(messages, p - 1)
  BY <1>2 DEF OpenExchange
<1> HIDE DEF tail
<1>7. /\ messages' \in Seq(Messages) /\ Len(messages) \in Nat
      /\ Len(messages') = Len(messages) + (Len(calls) - executed)
      /\ \A i \in 1 .. (Len(calls) - executed) :
           messages'[Len(messages) + i] = Message("tool", <<calls[executed + i].id>>)
      /\ \A i \in 1 .. Len(messages) : messages'[i] = messages[i]
  <2>1. /\ messages' \in Seq(Messages) /\ DOMAIN messages' = 1 .. (Len(messages) + Len(tail))
        /\ DOMAIN messages = 1 .. Len(messages) /\ DOMAIN tail = 1 .. Len(tail)
        /\ Len(messages) \in Nat /\ Len(tail) \in Nat
        /\ \A i \in DOMAIN messages : messages'[i] = messages[i]
        /\ \A i \in DOMAIN tail : messages'[Len(messages) + i] = tail[i]
    <3> HIDE DEF Messages
    <3> QED BY ONLY <1>1, <1>2, <1>5, Concatenated
  <2>2. Len(messages') = Len(messages) + Len(tail)
    BY ONLY <2>1
  <2> QED BY ONLY <1>5, <2>1, <2>2
<1>8. /\ p \in 1 .. Len(messages) /\ p \in 1 .. Len(messages')
      /\ p + Len(calls) = Len(messages')
      /\ \A n \in 1 .. executed : p + n \in 1 .. Len(messages)
      /\ p - 1 \in Nat /\ p - 1 <= Len(messages) /\ p - 1 <= Len(messages')
      /\ \A i \in 1 .. (p - 1) : i \in 1 .. Len(messages)
      /\ p + executed = Len(messages)
  <2>1. /\ p = Len(messages) - executed /\ Len(messages) \in Nat /\ executed \in Nat /\ p >= 1
        /\ Len(messages') = Len(messages) + (Len(calls) - executed)
        /\ executed < Len(calls) /\ Len(calls) \in Nat
    BY <1>1, <1>3, <1>6, <1>7
  <2> HIDE DEF p
  <2> QED BY ONLY <2>1
<1> HIDE DEF p
<1>9. messages'[p] = messages[p]
  BY ONLY <1>7, <1>8
<1>10. ASSUME NEW n \in 1 .. Len(calls)
       PROVE  messages'[p + n] = Message("tool", <<messages[p].ids[n]>>)
  <2>1. CASE n <= executed
    <3>1. n \in 1 .. executed
      BY <1>3, <2>1
    <3> QED BY ONLY <1>6, <1>7, <1>8, <3>1 DEF AnsweredUpTo
  <2>2. CASE n > executed
    <3>1. n - executed \in 1 .. (Len(calls) - executed)
          /\ Len(messages) + (n - executed) = p + n /\ executed + (n - executed) = n
      BY <1>3, <1>7, <1>8, <2>2
    <3> QED BY ONLY <1>6, <1>7, <1>10, <3>1
  <2> QED BY <1>3, <2>1, <2>2
<1>11. WellFormedUpTo(messages', p - 1)
  <2>1. \A i \in 1 .. (p - 1) : messages'[i] = messages[i]
    BY ONLY <1>7, <1>8
  <2> QED BY <1>2, <1>6, <1>7, <1>8, <2>1, SamePrefix, Zenon
<1>12. AnsweredUpTo(messages', p, messages'[p].ids, Len(messages'[p].ids))
  BY ONLY <1>6, <1>9, <1>10 DEF AnsweredUpTo
<1>13. WellFormedUpTo(messages', Len(messages'))
  BY <1>6, <1>7, <1>8, <1>9, <1>11, <1>12, AnsweredExchange
<1> QED BY <1>7, <1>13

LEMMA ConversingStep ==
  BatchTyped /\ LoopTyped /\ Conversing /\ [Next]_vars => Conversing'
<1> SUFFICES ASSUME BatchTyped, LoopTyped, Conversing, [Next]_vars PROVE Conversing'
  OBVIOUS
<1>1. messages \in Seq(Messages)
  BY DEF Conversing
<1>2. ASSUME phase # "tools", phase' # "tools", UNCHANGED messages PROVE Conversing'
  BY <1>2 DEF Conversing
<1>3. ASSUME NEW m \in Messages, m.role \notin {"calls", "tool"}, phase # "tools",
             phase' # "tools", messages' = Append(messages, m)
      PROVE  Conversing'
  <2>1. WellFormedUpTo(messages, Len(messages))
    BY <1>3 DEF Conversing
  <2>2. messages' \in Seq(Messages) /\ WellFormedUpTo(messages', Len(messages'))
    BY <1>1, <1>3, <2>1, PlainMessage, Zenon
  <2> QED BY <1>3, <2>2 DEF Conversing
<1>4. CASE StartTurn
  <2>1. Message("user", <<>>).role \notin {"calls", "tool"}
    BY DEF Message
  <2> QED BY <1>3, <1>4, <2>1, MessagesTyped DEF StartTurn
<1>5. CASE CloseTurn
  <2>1. Message("assistant", <<>>).role \notin {"calls", "tool"}
    BY DEF Message
  <2> QED BY <1>3, <1>5, <2>1, MessagesTyped DEF CloseTurn
<1>6. CASE StopAtMaxSteps \/ CallModel \/ RetryTransient \/ RejectMalformed \/ FailRepair
  <2>1. phase # "tools" /\ phase' # "tools" /\ UNCHANGED messages
    BY <1>6 DEF StopAtMaxSteps, CallModel, RetryTransient, RejectMalformed, AskRepair,
                FailRepair, Fail, AwaitingModel
  <2> QED BY <1>2, <2>1
<1>7. CASE ExhaustRetries \/ FailProvider
  <2>1. phase # "tools" /\ phase' # "tools" /\ UNCHANGED messages
    BY <1>7 DEF ExhaustRetries, FailProvider, CallFailed, Fail, AwaitingModel
  <2> QED BY <1>2, <2>1
<1>8. ASSUME NEW draft \in Drafts,
             FinalizeDraft(draft) \/ RejectDraft(draft) \/ AcceptRepair(draft)
               \/ RejectRepair(draft)
      PROVE  Conversing'
  <2>1. phase # "tools" /\ phase' # "tools" /\ UNCHANGED messages
    BY <1>8 DEF FinalizeDraft, RejectDraft, AskRepair, AcceptRepair, RejectRepair, Accept, Fail
  <2> QED BY <1>2, <2>1
<1>9. ASSUME NEW batch \in Batches, NEW raw \in [DOMAIN batch -> RawIds],
             RequestTools(batch, raw)
      PROVE  Conversing'
  BY <1>9, RequestStep
<1>10. CASE ExecuteNextCall
  BY <1>10, AnswerStep
<1>11. CASE FailNextCall
  <2>1. phase' = "closing"
    BY <1>11 DEF FailNextCall, Fail
  <2> QED BY <1>11, <2>1, FailureCloses DEF Conversing
<1>12. CASE FinishBatch
  <2>1. phase = "tools" /\ executed = Len(calls) /\ UNCHANGED messages /\ phase' # "tools"
    BY <1>12 DEF FinishBatch, Fail
  <2> QED BY <1>1, <2>1, BatchFinished DEF Conversing
<1>13. CASE UNCHANGED vars
  <2>1. UNCHANGED <<messages, phase, executed, calls>>
    BY <1>13 DEF vars, loopVars
  <2> QED BY <2>1 DEF Conversing, OpenExchange
<1> QED
  BY <1>4, <1>5, <1>6, <1>7, <1>8, <1>9, <1>10, <1>11, <1>12, <1>13
  DEF Next, TurnStep, ModelReplies

\* Between the batches of any session every requested tool call is answered
\* exactly once, in order and under an id of its own, also after a tool failed in
\* the middle of a batch and with ids the provider left out or repeated.
THEOREM ConversationsAccepted == Spec => []ConversationWellFormed
<1>1. Conversing => ConversationWellFormed
  <2> SUFFICES ASSUME Conversing, phase # "tools" PROVE ConversationWellFormed
    BY DEF ConversationWellFormed
  <2>1. messages \in Seq(Messages) /\ WellFormedUpTo(messages, Len(messages))
    BY DEF Conversing
  <2>2. DOMAIN messages = 1 .. Len(messages)
    BY <2>1
  <2>3. ASSUME NEW i \in DOMAIN messages, messages[i].role = "calls"
        PROVE  ExchangeClosed(i)
    <3>1. ClosedWithin(messages, Len(messages), i)
      BY <2>1, <2>2, <2>3 DEF WellFormedUpTo
    <3>2. messages[i] \in Messages
      BY <2>1
    <3>3. DOMAIN messages[i].ids = 1 .. Len(messages[i].ids)
      BY <3>2 DEF Messages
    <3> QED BY ONLY <3>1, <3>3 DEF ClosedWithin, ExchangeClosed, Distinct, AnsweredUpTo
  <2>4. ASSUME NEW i \in DOMAIN messages PROVE WireAccepts(messages[i])
    <3>1. messages[i] \in Messages
      BY <2>1
    <3>2. messages[i].ids \in Seq(Ids)
      BY <3>1 DEF Messages
    <3>3. <<"provider", None>> \notin Ids
      BY DEF Ids
    <3>4. \A n \in DOMAIN messages[i].ids : messages[i].ids[n] \in Ids
      BY ONLY <3>2
    <3> QED BY ONLY <3>3, <3>4 DEF WireAccepts
  <2> QED BY <2>1, <2>2, <2>3, <2>4 DEF ConversationWellFormed, WellFormedUpTo
<1>2. BatchTyped /\ LoopTyped /\ Conversing /\ [Next]_vars
        => BatchTyped' /\ LoopTyped' /\ Conversing'
  BY BatchStep, LoopTypedStep, ConversingStep
<1> QED BY <1>1, <1>2, BatchInit, LoopTypedInit, ConversingInit, PTL DEF Spec
=============================================================================

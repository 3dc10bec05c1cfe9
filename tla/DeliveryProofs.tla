---------------------------- MODULE DeliveryProofs ----------------------------
(***************************************************************************)
(* Proofs about the turns of a session, for every evidence, every draft    *)
(* and every way a turn can end.  The loop of AgentTurn implements the     *)
(* executor, so every theorem about the executor holds of the whole        *)
(* runtime.  The steps of the loop are then sorted into six kinds (lemma   *)
(* TurnSteps); the inductive invariant says of the result where it came    *)
(* from (ResultJustified) and of the kept decisions that they follow the   *)
(* evidence of every order the turn has left alone (DecisionsCurrent).     *)
(* The lemmas of OutcomeProofs then give the properties of what a turn     *)
(* delivers.                                                               *)
(***************************************************************************)
EXTENDS AgentTurn, OutcomeProofs

-----------------------------------------------------------------------------
(* The loop implements the executor.                                       *)

Ids == ({"provider"} \X (RawIds \ {None})) \cup ({"fresh"} \X Nat)

LEMMA ElementOf ==
  ASSUME NEW S, NEW s \in Seq(S), NEW i \in 1 .. Len(s)
  PROVE  s[i] \in S
OBVIOUS

\* The batch being executed holds only calls the model requested.
BatchTyped ==
  /\ calls \in Seq([call : Calls, id : Ids])
  /\ executed \in Nat

LEMMA IdsTyped ==
  ASSUME NEW batch \in Batches, NEW raw \in [DOMAIN batch -> RawIds]
  PROVE  /\ batch \in Seq(Calls)
         /\ UniqueIds(raw) \in [DOMAIN batch -> Ids]
<1>1. batch \in Seq(Calls)
  BY AgentAssumption
<1>2. DOMAIN batch \subseteq Nat /\ DOMAIN raw = DOMAIN batch
  BY <1>1
<1>3. \A i \in DOMAIN batch :
        /\ raw[i] # None => <<"provider", raw[i]>> \in Ids
        /\ <<"fresh", i>> \in Ids
  BY <1>2 DEF Ids
<1> QED BY <1>1, <1>2, <1>3 DEF UniqueIds

LEMMA BatchInit == Init => BatchTyped
BY DEF Init, BatchTyped

LEMMA BatchStep == BatchTyped /\ [Next]_vars => BatchTyped'
<1> SUFFICES ASSUME BatchTyped, [Next]_vars PROVE BatchTyped'
  OBVIOUS
<1> USE DEF BatchTyped
<1>1. ASSUME NEW batch \in Batches, NEW raw \in [DOMAIN batch -> RawIds],
             RequestTools(batch, raw)
      PROVE  BatchTyped'
  <2>1. batch \in Seq(Calls) /\ UniqueIds(raw) \in [DOMAIN batch -> Ids]
    BY IdsTyped
  <2>2. DOMAIN batch = 1 .. Len(batch) /\ Len(batch) \in Nat
        /\ \A i \in DOMAIN batch : batch[i] \in Calls
    BY <2>1
  <2>3. calls' \in [1 .. Len(batch) -> [call : Calls, id : Ids]]
    BY <1>1, <2>1, <2>2 DEF RequestTools
  <2> QED BY <1>1, <2>2, <2>3 DEF RequestTools
<1>2. CASE ExecuteNextCall
  BY <1>2 DEF ExecuteNextCall
<1>3. CASE StartTurn \/ StopAtMaxSteps \/ CallModel \/ FailNextCall \/ FinishBatch \/ CloseTurn
  <2>1. UNCHANGED <<calls, executed>>
    BY <1>3 DEF StartTurn, StopAtMaxSteps, CallModel, FailNextCall, FinishBatch, CloseTurn,
                loopVars
  <2> QED BY <2>1
<1>4. CASE RetryTransient \/ ExhaustRetries \/ FailProvider \/ RejectMalformed \/ FailRepair
  <2>1. UNCHANGED <<calls, executed>>
    BY <1>4 DEF RetryTransient, ExhaustRetries, FailProvider, RejectMalformed, AskRepair,
                FailRepair, loopVars
  <2> QED BY <2>1
<1>5. ASSUME NEW draft \in Drafts,
             FinalizeDraft(draft) \/ RejectDraft(draft) \/ AcceptRepair(draft)
               \/ RejectRepair(draft)
      PROVE  BatchTyped'
  <2>1. UNCHANGED <<calls, executed>>
    BY <1>5 DEF FinalizeDraft, RejectDraft, AskRepair, AcceptRepair, RejectRepair, loopVars
  <2> QED BY <2>1
<1>6. CASE UNCHANGED vars
  BY <1>6 DEF vars, loopVars
<1> QED
  BY <1>1, <1>2, <1>3, <1>4, <1>5, <1>6 DEF Next, TurnStep, ModelReplies

\* Every step of the loop is a step of the executor or leaves it alone.
LEMMA ExecutorStep == BatchTyped /\ [Next]_vars => [ExecutorNext]_executorVars
<1> SUFFICES ASSUME BatchTyped, [Next]_vars
             PROVE  ExecutorNext \/ UNCHANGED executorVars
  OBVIOUS
<1>1. ASSUME executed < Len(calls) PROVE calls[executed + 1].call \in Calls
  <2>1. calls \in Seq([call : Calls, id : Ids]) /\ Len(calls) \in Nat /\ executed \in Nat
    BY DEF BatchTyped
  <2>2. executed + 1 \in 1 .. Len(calls)
    BY <1>1, <2>1
  <2>3. calls[executed + 1] \in [call : Calls, id : Ids]
    BY <2>1, <2>2, ElementOf
  <2> QED BY <2>3
<1>2. CASE StartTurn
  BY <1>2 DEF StartTurn, PrepareState, ExecutorNext
<1>3. CASE ExecuteNextCall
  BY <1>1, <1>3 DEF ExecuteNextCall, Execute, ExecutorNext
<1>4. CASE FailNextCall
  BY <1>1, <1>4 DEF FailNextCall, Execute, ExecutorNext
<1>5. CASE StopAtMaxSteps \/ CallModel \/ FinishBatch \/ CloseTurn
  BY <1>5 DEF StopAtMaxSteps, CallModel, FinishBatch, CloseTurn
<1>6. CASE RetryTransient \/ ExhaustRetries \/ FailProvider \/ RejectMalformed \/ FailRepair
  BY <1>6 DEF RetryTransient, ExhaustRetries, FailProvider, RejectMalformed, AskRepair,
              FailRepair
<1>7. ASSUME NEW batch \in Batches, NEW raw \in [DOMAIN batch -> RawIds],
             RequestTools(batch, raw)
      PROVE  UNCHANGED executorVars
  BY <1>7 DEF RequestTools
<1>8. ASSUME NEW draft \in Drafts,
             FinalizeDraft(draft) \/ RejectDraft(draft) \/ AcceptRepair(draft)
               \/ RejectRepair(draft)
      PROVE  UNCHANGED executorVars
  BY <1>8 DEF FinalizeDraft, RejectDraft, AskRepair, AcceptRepair, RejectRepair
<1>9. CASE UNCHANGED vars
  BY <1>9 DEF vars
<1> QED
  BY <1>2, <1>3, <1>4, <1>5, <1>6, <1>7, <1>8, <1>9 DEF Next, TurnStep, ModelReplies

\* handle_customer_message, turn after turn, touches evidence, tool history and
\* cache only through ToolExecutor.execute and _prepare_state.
THEOREM TurnsImplementExecutor == Spec => ImplementsExecutor
<1>1. Init => ExecutorInit
  BY DEF Init
<1> QED BY <1>1, BatchInit, BatchStep, ExecutorStep, PTL
        DEF Spec, ImplementsExecutor, ExecutorSpec

\* The refund guardrail holds of the whole runtime.
THEOREM RuntimeRefundSafety == Spec => []RefundPrecondition
BY TurnsImplementExecutor, RefundSafety, PTL DEF ImplementsExecutor

\* Over all the turns of a session, and whatever fails in them, a refund
\* reaches the tool only while its order is licensed and at most once.
THEOREM RuntimeRefundsAuthorised == Spec => ImplementsRefundAuthority
BY TurnsImplementExecutor, RefundsAuthorised, PTL DEF ImplementsExecutor

-----------------------------------------------------------------------------
(* What the steps of the loop do to a turn.                                *)

Working == {"loop", "model", "tools", "repair"}

\* The kinds of steps: a call executed, a failure, an accepted draft, and work
\* that touches neither evidence nor outcome.
ToolStep(call) ==
  /\ Execute(call)
  /\ phase = "tools"
  /\ \/ phase' = "tools" /\ UNCHANGED failure_reason
     \/ phase' = "closing" /\ failure_reason' \in FailureReasons
  /\ UNCHANGED <<sessionVars, decision, result>>

FailStep ==
  /\ phase \in Working /\ phase' = "closing"
  /\ failure_reason' \in FailureReasons
  /\ UNCHANGED <<executorVars, sessionVars, decision, result>>

AcceptStep(draft) ==
  /\ phase \in Working /\ phase' = "closing"
  /\ Acceptable(draft) /\ result' = Projected(draft)
  /\ UNCHANGED <<executorVars, sessionVars, decision, failure_reason>>

WorkStep ==
  /\ phase \in Working /\ phase' \in Working
  /\ UNCHANGED <<executorVars, sessionVars, outcomeVars>>

LEMMA TurnSteps ==
  ASSUME BatchTyped, [Next]_vars
  PROVE  \/ StartTurn
         \/ \E call \in Calls : ToolStep(call)
         \/ FailStep
         \/ \E draft \in Drafts : AcceptStep(draft)
         \/ WorkStep
         \/ CloseTurn
         \/ UNCHANGED vars
<1> USE DEF Working
<1>1. ASSUME executed < Len(calls) PROVE calls[executed + 1].call \in Calls
  <2>1. calls \in Seq([call : Calls, id : Ids]) /\ Len(calls) \in Nat /\ executed \in Nat
    BY DEF BatchTyped
  <2>2. executed + 1 \in 1 .. Len(calls)
    BY <1>1, <2>1
  <2>3. calls[executed + 1] \in [call : Calls, id : Ids]
    BY <2>1, <2>2, ElementOf
  <2> QED BY <2>3
<1>2. CASE ExecuteNextCall
  <2>1. ToolStep(calls[executed + 1].call)
    BY <1>2 DEF ExecuteNextCall, ToolStep, Execute, outcomeVars
  <2> QED BY <1>1, <1>2, <2>1 DEF ExecuteNextCall
<1>3. CASE FailNextCall
  <2>1. ToolStep(calls[executed + 1].call)
    BY <1>3 DEF FailNextCall, ToolStep, Execute, Fail, FailureReasons
  <2> QED BY <1>1, <1>3, <2>1 DEF FailNextCall
<1>4. CASE StopAtMaxSteps \/ ExhaustRetries \/ FailProvider \/ FailRepair
  <2>1. FailStep
    BY <1>4 DEF StopAtMaxSteps, ExhaustRetries, FailProvider, FailRepair, CallFailed,
                AwaitingModel, Fail, FailStep, FailureReasons
  <2> QED BY <2>1
<1>5. CASE CallModel \/ RetryTransient \/ RejectMalformed
  <2>1. WorkStep
    BY <1>5 DEF CallModel, RetryTransient, AwaitingModel, RejectMalformed, AskRepair, WorkStep
  <2> QED BY <2>1
<1>6. CASE FinishBatch
  <2>1. FailStep \/ WorkStep
    BY <1>6 DEF FinishBatch, Fail, FailStep, WorkStep, FailureReasons
  <2> QED BY <2>1
<1>7. ASSUME NEW batch \in Batches, NEW raw \in [DOMAIN batch -> RawIds],
             RequestTools(batch, raw)
      PROVE  WorkStep
  BY <1>7 DEF RequestTools, WorkStep
<1>8. ASSUME NEW draft \in Drafts, FinalizeDraft(draft) \/ AcceptRepair(draft)
      PROVE  AcceptStep(draft)
  BY <1>8 DEF FinalizeDraft, AcceptRepair, Accept, AcceptStep
<1>9. ASSUME NEW draft \in Drafts, RejectDraft(draft)
      PROVE  WorkStep
  BY <1>9 DEF RejectDraft, AskRepair, WorkStep
<1>10. ASSUME NEW draft \in Drafts, RejectRepair(draft)
      PROVE  FailStep
  BY <1>10 DEF RejectRepair, Fail, FailStep, FailureReasons
<1> QED
  BY <1>2, <1>3, <1>4, <1>5, <1>6, <1>7, <1>8, <1>9, <1>10 DEF Next, TurnStep, ModelReplies

-----------------------------------------------------------------------------
(* The two kinds of result a turn can end with, as properties of evidence. *)

FromDraft(r, cs, slice) ==
  \E draft \in Drafts :
    r = ProjectResultFromState(draft, cs, slice) /\ Valid(r, cs, slice)

FromFailure(r, cs, slice) == r = BuildFailSafeResult(cs, slice)

LEMMA ResultTyped ==
  ASSUME NEW cs \in [Orders -> CaseStates], NEW slice \in Seq(ToolInteractions), NEW r,
         FromDraft(r, cs, slice) \/ FromFailure(r, cs, slice)
  PROVE  /\ r \in AgentResults /\ r # None
         /\ r.cases \in Seq(CaseResults)
         /\ \A i \in DOMAIN r.cases : r.cases[i] \in CaseResults /\ r.cases[i].order_id \in Orders
<1>1. r \in AgentResults
  BY ProjectionTyped, FailSafeTyped, AgentAssumption DEF FromDraft, FromFailure
<1>2. r.cases \in Seq(CaseResults)
  BY <1>1 DEF AgentResults
<1>3. \A i \in DOMAIN r.cases : r.cases[i] \in CaseResults
  BY <1>2
<1>4. \A c \in CaseResults : c.order_id \in Orders
  BY DEF CaseResults
<1> QED BY <1>1, <1>2, <1>3, <1>4, ResultAssumption

\* Every reported case agrees with the evidence of its order: a refund is
\* reported only with its approval, and a settled order with its decision.
LEMMA CasesAgree ==
  ASSUME NEW cs \in [Orders -> CaseStates], NEW slice \in Seq(ToolInteractions), NEW r,
         FromDraft(r, cs, slice) \/ FromFailure(r, cs, slice), NEW i \in DOMAIN r.cases
  PROVE  LET c == r.cases[i]
             case == cs[c.order_id]
         IN
         /\ c.decision = "AUTO_REFUND_APPROVED" \/ c.refund # None =>
              TrustedStatus(case) = "APPROVED" /\ c.refund = case.refund_result.refund
         /\ ProjectCaseResult(c.order_id, case) # None =>
              c.decision = ProjectCaseResult(c.order_id, case).decision
<1> DEFINE c == r.cases[i]
           case == cs[c.order_id]
<1>1. c.order_id \in Orders /\ case \in CaseStates
  BY ResultTyped
<1>2. CASE FromDraft(r, cs, slice)
  <2>1. CaseConsistent(c, case)
    BY <1>2 DEF FromDraft, Valid, CaseAccepted
  <2> QED BY <1>1, <2>1, AcceptedAgrees
<1>3. CASE FromFailure(r, cs, slice)
  <2>1. c = CaseResultFromEvidence(c.order_id, case)
    BY <1>3, TouchedFinite, FailSafeList DEF FromFailure, BuildFailSafeResult
  <2>2. ProjectCaseResult(c.order_id, case) # None => c = ProjectCaseResult(c.order_id, case)
    BY <1>1, <2>1, ProjectionAgrees
  <2> QED BY <1>1, <2>1, <2>2, FailSafeAgrees
<1> QED BY <1>2, <1>3

\* Every order the evidence of the turn settles is reported once, canonically.
LEMMA SettledReported ==
  ASSUME NEW cs \in [Orders -> CaseStates], NEW slice \in Seq(ToolInteractions), NEW r,
         FromDraft(r, cs, slice) \/ FromFailure(r, cs, slice),
         NEW o \in TouchedCaseIds(slice), ProjectCaseResult(o, cs[o]) # None
  PROVE  \E i \in DOMAIN r.cases :
           /\ r.cases[i] = ProjectCaseResult(o, cs[o])
           /\ \A j \in DOMAIN r.cases : r.cases[j].order_id = o => j = i
<1> DEFINE touched == TouchedCaseIds(slice)
<1>1. IsFiniteSet(touched) /\ touched \in SUBSET Orders /\ o \in Orders
      /\ cs[o] \in CaseStates
  BY TouchedFinite
<1>2. CASE FromDraft(r, cs, slice)
  <2>1. PICK draft \in Drafts : r = ProjectResultFromState(draft, cs, slice)
    BY <1>2 DEF FromDraft
  <2>2. draft \in AgentResults /\ r.cases = ProjectedCases(draft, cs, touched)
    BY <2>1, AgentAssumption DEF ProjectResultFromState
  <2>3. o \in KeptOrders(draft, cs, touched)
    BY DEF KeptOrders
  <2>4. ProjectedCase(draft, o, cs[o]) = ProjectCaseResult(o, cs[o])
    BY DEF ProjectedCase
  <2> HIDE DEF touched
  <2> QED BY <1>1, <2>2, <2>3, <2>4, ProjectedList
<1>3. CASE FromFailure(r, cs, slice)
  <2>1. r.cases = FailSafeCases(cs, touched)
    BY <1>3 DEF FromFailure, BuildFailSafeResult
  <2>2. Known(cs[o]) /\ CaseResultFromEvidence(o, cs[o]) = ProjectCaseResult(o, cs[o])
    BY <1>1, ProjectionAgrees, ResolvedKnown
  <2> HIDE DEF touched
  <2>3. o \in {x \in touched : Known(cs[x])}
    BY <2>2 DEF touched
  <2> QED BY <1>1, <2>1, <2>2, <2>3, FailSafeList
<1> QED BY <1>2, <1>3

-----------------------------------------------------------------------------
(* The inductive invariant.                                                *)

TurnTyped ==
  /\ phase \in Phases
  /\ turn_start_history \in 0 .. Len(tool_history)
  /\ decision \in [Orders -> Decisions \cup {None}]

\* A terminal error of a case was some order-scoped tool's answer for it.
TerminalBacked ==
  \A o \in Orders :
    cases[o].terminal_error # None =>
      \E k \in Keys : /\ k.name \in OrderScoped /\ k.order = o
                      /\ Service[k].error \in TerminalErrors

ResultJustified ==
  /\ phase \in Working => failure_reason = None /\ result = None
  /\ phase = "closing" =>
       \/ failure_reason = None /\ FromDraft(result, cases, TurnHistory)
       \/ failure_reason \in FailureReasons /\ result = None
  /\ TurnEnded =>
       \/ failure_reason = None /\ FromDraft(result, cases, TurnHistory)
       \/ failure_reason \in FailureReasons /\ FromFailure(result, cases, TurnHistory)

\* The decision kept with an order is canonical unless the turn has answers for
\* the order that it has not delivered yet.
DecisionsCurrent ==
  \A o \in Orders :
    /\ phase = "idle" \/ o \notin Touched
    /\ ProjectCaseResult(o, cases[o]) # None
    => decision[o] = ProjectCaseResult(o, cases[o]).decision

DInv == BatchTyped /\ TurnTyped /\ TerminalBacked /\ ResultJustified /\ DecisionsCurrent

LEMMA EmptyProjection ==
  ASSUME NEW o
  PROVE  ProjectCaseResult(o, EmptyCase) = None
<1>1. /\ EmptyCase.refund_result = None /\ EmptyCase.terminal_error = None
      /\ EmptyCase.policy_result = None
  BY DEF EmptyCase
<1>2. TrustedStatus(EmptyCase) = None /\ ~Ineligible(EmptyCase)
  BY <1>1 DEF TrustedStatus, Ineligible
<1> QED BY <1>1, <1>2, NoneAssumption DEF ProjectCaseResult, RefundStatuses

LEMMA DInit == Init => DInv
<1> SUFFICES ASSUME Init PROVE DInv
  OBVIOUS
<1>1. BatchTyped
  BY BatchInit
<1>2. \A o \in Orders : cases[o] = EmptyCase
  BY DEF Init, ExecutorInit
<1>3. TurnTyped
  BY DEF Init, ExecutorInit, TurnTyped, Phases
<1>4. TerminalBacked
  BY <1>2 DEF TerminalBacked, EmptyCase
<1>5. ResultJustified
  BY DEF Init, ResultJustified, Working, TurnEnded
<1>6. DecisionsCurrent
  BY <1>2, EmptyProjection DEF DecisionsCurrent
<1> QED BY <1>1, <1>3, <1>4, <1>5, <1>6 DEF DInv

LEMMA HistoryTyped ==
  ASSUME tool_history \in Seq(ToolInteractions), turn_start_history \in 0 .. Len(tool_history)
  PROVE  /\ TurnHistory \in Seq(ToolInteractions)
         /\ Len(TurnHistory) = Len(tool_history) - turn_start_history
         /\ \A i \in 1 .. Len(TurnHistory) : TurnHistory[i] = tool_history[turn_start_history + i]
         /\ TouchedCaseIds(TurnHistory) \subseteq Orders
<1>1. turn_start_history + 1 \in Int /\ Len(tool_history) \in Nat
  OBVIOUS
<1>2. /\ TurnHistory \in Seq(ToolInteractions)
      /\ Len(TurnHistory) = Len(tool_history) - turn_start_history
      /\ \A i \in 1 .. Len(TurnHistory) : TurnHistory[i] = tool_history[turn_start_history + i]
  BY <1>1 DEF TurnHistory
<1> QED BY <1>2 DEF TouchedCaseIds

\* What a step that leaves evidence, history and outcome alone keeps.
LEMMA Frame ==
  ASSUME UNCHANGED <<cases, tool_history, turn_start_history>>
  PROVE  /\ TurnHistory' = TurnHistory
         /\ Touched' = Touched
         /\ TerminalBacked => TerminalBacked'
         /\ \A draft \in Drafts : Acceptable(draft) =>
               FromDraft(Projected(draft), cases', TurnHistory')
<1>1. TurnHistory' = TurnHistory
  BY DEF TurnHistory
<1>2. TerminalBacked => TerminalBacked'
  BY DEF TerminalBacked
<1>3. \A draft \in Drafts : Acceptable(draft) => FromDraft(Projected(draft), cases, TurnHistory)
  BY DEF Acceptable, Projected, FromDraft
<1> QED BY <1>1, <1>2, <1>3 DEF Touched

LEMMA Slice ==
  ASSUME NEW S, NEW h \in Seq(S), NEW m \in 0 .. Len(h)
  PROVE  /\ SubSeq(h, m + 1, Len(h)) \in Seq(S)
         /\ Len(SubSeq(h, m + 1, Len(h))) = Len(h) - m
         /\ \A i \in 1 .. (Len(h) - m) : SubSeq(h, m + 1, Len(h))[i] = h[m + i]
OBVIOUS

\* The entry a call adds to the history belongs to the turn.
LEMMA HistoryGrows ==
  ASSUME tool_history \in Seq(ToolInteractions), turn_start_history \in 0 .. Len(tool_history),
         NEW e \in ToolInteractions, tool_history' = Append(tool_history, e),
         UNCHANGED turn_start_history
  PROVE  /\ turn_start_history' \in 0 .. Len(tool_history')
         /\ Touched \subseteq Touched'
         /\ e.outcome \in Factual /\ e.key.order \in Orders => e.key.order \in Touched'
<1> DEFINE n == Len(tool_history)
           m == turn_start_history
<1>1. /\ n \in Nat /\ m \in Nat /\ m <= n
      /\ tool_history' \in Seq(ToolInteractions)
      /\ Len(tool_history') = n + 1
      /\ \A i \in 1 .. n : tool_history'[i] = tool_history[i]
      /\ tool_history'[n + 1] = e
  BY Grow
<1>2. turn_start_history' \in 0 .. Len(tool_history')
  BY <1>1
<1>3. /\ TurnHistory \in Seq(ToolInteractions) /\ Len(TurnHistory) = n - m
      /\ \A i \in 1 .. (n - m) : TurnHistory[i] = tool_history[m + i]
  BY HistoryTyped
<1>4. /\ TurnHistory' \in Seq(ToolInteractions) /\ Len(TurnHistory') = Len(tool_history') - m
      /\ \A i \in 1 .. (Len(tool_history') - m) : TurnHistory'[i] = tool_history'[m + i]
  <2>1. TurnHistory' = SubSeq(tool_history', m + 1, Len(tool_history'))
    BY DEF TurnHistory
  <2>2. m \in 0 .. Len(tool_history')
    BY <1>1
  <2> HIDE DEF m
  <2> QED BY ONLY <1>1, <2>1, <2>2, Slice
<1>5. DOMAIN TurnHistory = 1 .. (n - m) /\ DOMAIN TurnHistory' = 1 .. (n + 1 - m)
  BY <1>1, <1>3, <1>4
<1>6. \A i \in 1 .. (n - m) : i \in 1 .. (n + 1 - m) /\ TurnHistory'[i] = TurnHistory[i]
  <2> SUFFICES ASSUME NEW i \in 1 .. (n - m)
               PROVE  i \in 1 .. (n + 1 - m) /\ TurnHistory'[i] = TurnHistory[i]
    OBVIOUS
  <2>1. i \in 1 .. (n + 1 - m) /\ m + i \in 1 .. n
    BY <1>1
  <2> QED BY <1>1, <1>3, <1>4, <2>1
<1>7. n + 1 - m \in 1 .. (n + 1 - m) /\ TurnHistory'[n + 1 - m] = e
  <2>1. n + 1 - m \in 1 .. (n + 1 - m) /\ m + (n + 1 - m) = n + 1
    BY <1>1
  <2> QED BY <1>1, <1>4, <2>1
<1> HIDE DEF n, m
<1>8. Touched \subseteq Touched'
  BY <1>5, <1>6 DEF Touched, TouchedCaseIds
<1>9. e.outcome \in Factual /\ e.key.order \in Orders => e.key.order \in Touched'
  BY <1>5, <1>7 DEF Touched, TouchedCaseIds
<1> QED BY <1>2, <1>8, <1>9

\* The projection reads three fields of the case.
LEMMA SameFields ==
  ASSUME NEW o, NEW a, NEW b,
         a.refund_result = b.refund_result, a.policy_result = b.policy_result,
         a.terminal_error = b.terminal_error
  PROVE  ProjectCaseResult(o, a) = ProjectCaseResult(o, b)
<1>1. /\ TrustedStatus(a) = TrustedStatus(b) /\ TrustedVerdict(a) = TrustedVerdict(b)
      /\ Ineligible(a) <=> Ineligible(b)
  BY DEF TrustedStatus, TrustedVerdict, Ineligible
<1> QED
  BY <1>1 DEF ProjectCaseResult, RefundOutcome, TerminalOutcome, IneligibleOutcome

LEMMA ToolStepInv ==
  ASSUME IInv, DInv, BatchTyped', NEW call \in Calls, ToolStep(call)
  PROVE  DInv'
<1>0. /\ cases \in [Orders -> CaseStates] /\ tool_history \in Seq(ToolInteractions)
      /\ TypeOK /\ call \in ToolCallRequests
  BY CallsAssumption DEF IInv, TypeOK
<1>1. PICK e \in ToolInteractions : e.key = call.key /\ (Refused(e) \/ Answered(e))
  BY <1>0, Branches DEF ToolStep
<1>2. tool_history' = Append(tool_history, e) /\ e.key \in Keys
  BY <1>1, CallTypes DEF Refused, Answered
<1>3. UNCHANGED <<turn_start_history, decision, result, turns>> /\ phase = "tools"
      /\ \/ phase' = "tools" /\ UNCHANGED failure_reason
         \/ phase' = "closing" /\ failure_reason' \in FailureReasons
  BY DEF ToolStep, sessionVars
<1>4. /\ turn_start_history' \in 0 .. Len(tool_history')
      /\ Touched \subseteq Touched'
      /\ e.outcome \in Factual /\ e.key.order \in Orders => e.key.order \in Touched'
  BY <1>0, <1>2, <1>3, HistoryGrows DEF DInv, TurnTyped
<1>5. TurnTyped'
  BY <1>3, <1>4 DEF DInv, TurnTyped, Phases
<1>6. ResultJustified'
  BY <1>3 DEF DInv, ResultJustified, Working, TurnEnded
<1>7. \A o \in Orders :
        /\ cases'[o].terminal_error # None /\ cases'[o].terminal_error # cases[o].terminal_error =>
             /\ e.key.name \in OrderScoped /\ e.key.order = o
             /\ Service[e.key].error \in TerminalErrors
        /\ o \notin Touched' =>
             /\ cases'[o].refund_result = cases[o].refund_result
             /\ cases'[o].policy_result = cases[o].policy_result
             /\ cases'[o].terminal_error = cases[o].terminal_error
  <2>1. CASE Refused(e)
    BY <2>1 DEF Refused
  <2>2. CASE Answered(e)
    <3>1. cases' = ApplyTrustedResult(cases, e.key, e.result) /\ e.result \in ToolResults
          /\ e.result = Service[e.key] /\ e.outcome \in Factual
      BY <2>2, AnswerTrue DEF Answered
    <3> SUFFICES ASSUME NEW o \in Orders
                 PROVE  /\ cases'[o].terminal_error # None
                           /\ cases'[o].terminal_error # cases[o].terminal_error =>
                             /\ e.key.name \in OrderScoped /\ e.key.order = o
                             /\ Service[e.key].error \in TerminalErrors
                        /\ o \notin Touched' =>
                             /\ cases'[o].refund_result = cases[o].refund_result
                             /\ cases'[o].policy_result = cases[o].policy_result
                             /\ cases'[o].terminal_error = cases[o].terminal_error
      OBVIOUS
    <3>2. /\ cases'[o].policy_result =
               IF e.key.name = "check_return_policy" /\ e.key.order = o /\ e.result.error = None
                 THEN e.result ELSE cases[o].policy_result
          /\ cases'[o].refund_result =
               IF e.key.name = "process_refund" /\ e.key.order = o /\ e.result.error = None
                 THEN e.result ELSE cases[o].refund_result
          /\ cases'[o].terminal_error =
               IF e.key.name \in OrderScoped /\ e.key.order = o /\ e.result.error \in TerminalErrors
                 THEN e.result.error ELSE cases[o].terminal_error
      BY <1>0, <1>2, <3>1, ApplyFields
    <3> QED BY <1>4, <3>1, <3>2
  <2> QED BY <1>1, <2>1, <2>2
<1>8. TerminalBacked'
  BY <1>2, <1>7 DEF DInv, TerminalBacked
<1>9. DecisionsCurrent'
  <2> SUFFICES ASSUME NEW o \in Orders, o \notin Touched',
                      ProjectCaseResult(o, cases'[o]) # None
               PROVE  decision'[o] = ProjectCaseResult(o, cases'[o]).decision
    BY <1>3 DEF DecisionsCurrent
  <2>1. ProjectCaseResult(o, cases'[o]) = ProjectCaseResult(o, cases[o])
    BY <1>7, SameFields
  <2>2. o \notin Touched
    BY <1>4
  <2> QED BY <1>3, <2>1, <2>2 DEF DInv, DecisionsCurrent
<1> QED BY <1>5, <1>6, <1>8, <1>9 DEF DInv

LEMMA StartTurnInv ==
  ASSUME IInv, DInv, BatchTyped', StartTurn
  PROVE  DInv'
<1>1. tool_history \in Seq(ToolInteractions) /\ Len(tool_history) \in Nat
  BY DEF IInv, TypeOK
<1>2. UNCHANGED <<cases, tool_history>>
  BY NewTurnStutters DEF StartTurn, PrepareState, executorVars
<1>3. /\ phase = "idle" /\ phase' = "loop"
      /\ failure_reason' = None /\ result' = None /\ decision' = decision
      /\ turn_start_history' = Len(tool_history)
  BY DEF StartTurn, PrepareState
<1>4. TurnTyped' /\ ResultJustified'
  BY <1>1, <1>2, <1>3 DEF DInv, TurnTyped, Phases, ResultJustified, Working, TurnEnded
<1>5. TerminalBacked'
  BY <1>2 DEF DInv, TerminalBacked
<1>6. DecisionsCurrent'
  BY <1>2, <1>3 DEF DInv, DecisionsCurrent
<1> QED BY <1>4, <1>5, <1>6 DEF DInv

\* Whatever ends the turn, the decisions kept are those the evidence supports.
LEMMA CloseTurnInv ==
  ASSUME IInv, DInv, BatchTyped', CloseTurn
  PROVE  DInv'
<1>1. cases \in [Orders -> CaseStates] /\ TurnHistory \in Seq(ToolInteractions)
  BY HistoryTyped DEF IInv, TypeOK, DInv, TurnTyped
<1>2. /\ UNCHANGED <<cases, tool_history, turn_start_history, failure_reason, turns>>
      /\ phase = "closing" /\ phase' = "idle" /\ result' = Delivered
      /\ decision' = [o \in Orders |-> MirroredDecision(o)]
  BY DEF CloseTurn, executorVars, sessionVars
<1>3. \/ failure_reason = None /\ FromDraft(Delivered, cases, TurnHistory)
      \/ failure_reason \in FailureReasons /\ FromFailure(Delivered, cases, TurnHistory)
  <2>1. CASE failure_reason = None /\ FromDraft(result, cases, TurnHistory)
    BY <1>1, <2>1, ResultTyped DEF Delivered
  <2>2. CASE failure_reason \in FailureReasons /\ result = None
    BY <2>2 DEF Delivered, FromFailure
  <2> QED BY <1>2, <2>1, <2>2 DEF DInv, ResultJustified
<1>4. TurnHistory' = TurnHistory /\ TerminalBacked'
  BY <1>2, Frame DEF DInv
<1>5. ResultJustified'
  BY <1>2, <1>3, <1>4 DEF ResultJustified, Working, TurnEnded
<1>6. ASSUME NEW o \in Orders
      PROVE  /\ decision'[o] \in Decisions \cup {None}
             /\ ProjectCaseResult(o, cases[o]) # None =>
                  decision'[o] = ProjectCaseResult(o, cases[o]).decision
  <2> DEFINE r == Delivered
             naming == {i \in DOMAIN r.cases : r.cases[i].order_id = o}
  <2>1. /\ r.cases \in Seq(CaseResults)
        /\ \A i \in DOMAIN r.cases : r.cases[i] \in CaseResults
    BY <1>1, <1>3, ResultTyped
  <2>2. DOMAIN r.cases = 1 .. Len(r.cases) /\ Len(r.cases) \in Nat
    BY <2>1
  <2>3. cases[o] \in CaseStates /\ decision[o] \in Decisions \cup {None}
    BY <1>1 DEF DInv, TurnTyped
  <2>4. CASE Known(cases[o]) /\ naming # {}
    <3>1. LastIndex(naming) \in naming
      <4>1. naming \in SUBSET (1 .. Len(r.cases))
        BY <2>2
      <4> HIDE DEF naming, r
      <4> QED BY <2>2, <2>4, <4>1, LastIndexExists
    <3>2. PICK i \in DOMAIN r.cases :
            r.cases[i].order_id = o /\ decision'[o] = r.cases[i].decision
      BY <1>2, <2>4, <3>1 DEF MirroredDecision
    <3>3. decision'[o] \in Decisions
      BY <2>1, <3>2 DEF CaseResults
    <3>4. ProjectCaseResult(o, cases[o]) # None =>
            r.cases[i].decision = ProjectCaseResult(o, cases[o]).decision
      BY <1>1, <1>3, <3>2, CasesAgree
    <3> QED BY <3>2, <3>3, <3>4
  <2>5. CASE ~(Known(cases[o]) /\ naming # {})
    <3>1. decision'[o] = decision[o]
      BY <1>2, <2>5 DEF MirroredDecision
    <3>2. ASSUME ProjectCaseResult(o, cases[o]) # None PROVE o \notin Touched
      <4>1. Known(cases[o])
        BY <2>3, <3>2, ProjectionAgrees, ResolvedKnown
      <4>2. ASSUME o \in Touched PROVE FALSE
        <5>1. PICK i \in DOMAIN r.cases : r.cases[i] = ProjectCaseResult(o, cases[o])
          BY <1>1, <1>3, <3>2, <4>2, SettledReported DEF Touched
        <5>2. r.cases[i].order_id = o
          BY <2>3, <3>2, <5>1, ProjectionAgrees
        <5> QED BY <2>5, <4>1, <5>2
      <4> QED BY <4>2
    <3> QED BY <2>3, <3>1, <3>2 DEF DInv, DecisionsCurrent
  <2> QED BY <2>4, <2>5
<1>7. decision' \in [Orders -> Decisions \cup {None}]
  BY <1>2, <1>6
<1>8. TurnTyped'
  BY <1>2, <1>7 DEF DInv, TurnTyped, Phases
<1>9. DecisionsCurrent'
  BY <1>2, <1>6 DEF DecisionsCurrent
<1> QED BY <1>4, <1>5, <1>8, <1>9 DEF DInv

LEMMA DNext == IInv /\ DInv /\ [Next]_vars => DInv'
<1> SUFFICES ASSUME IInv, DInv, [Next]_vars PROVE DInv'
  OBVIOUS
<1>0. BatchTyped /\ BatchTyped'
  BY BatchStep DEF DInv
<1>1. CASE StartTurn
  BY <1>0, <1>1, StartTurnInv
<1>2. ASSUME NEW call \in Calls, ToolStep(call) PROVE DInv'
  BY <1>0, <1>2, ToolStepInv
<1>3. CASE CloseTurn
  BY <1>0, <1>3, CloseTurnInv
<1>4. ASSUME UNCHANGED <<cases, tool_history, turn_start_history, decision, turns>>,
             phase' \in Phases, (phase # "idle" /\ phase' # "idle") \/ phase' = phase,
             ResultJustified'
      PROVE  DInv'
  <2>1. TurnHistory' = TurnHistory /\ Touched' = Touched /\ TerminalBacked'
    BY <1>4, Frame DEF DInv
  <2>2. TurnTyped'
    BY <1>4 DEF DInv, TurnTyped
  <2>3. DecisionsCurrent'
    BY <1>4, <2>1 DEF DInv, DecisionsCurrent
  <2> QED BY <1>0, <1>4, <2>1, <2>2, <2>3 DEF DInv
<1>5. CASE FailStep
  <2>1. ResultJustified'
    BY <1>5 DEF FailStep, DInv, ResultJustified, Working, TurnEnded
  <2> QED
    BY <1>4, <1>5, <2>1 DEF FailStep, executorVars, sessionVars, Working, Phases
<1>6. ASSUME NEW draft \in Drafts, AcceptStep(draft) PROVE DInv'
  <2>1. UNCHANGED <<cases, tool_history, turn_start_history, decision, turns, failure_reason>>
        /\ phase \in Working /\ phase' = "closing" /\ result' = Projected(draft)
        /\ Acceptable(draft)
    BY <1>6 DEF AcceptStep, executorVars, sessionVars
  <2>2. FromDraft(Projected(draft), cases', TurnHistory')
    BY <2>1, Frame
  <2>3. ResultJustified'
    BY <2>1, <2>2 DEF DInv, ResultJustified, Working, TurnEnded
  <2> QED BY <1>4, <2>1, <2>3 DEF Working, Phases
<1>7. CASE WorkStep
  <2>1. ResultJustified'
    BY <1>7 DEF WorkStep, outcomeVars, DInv, ResultJustified, Working, TurnEnded
  <2> QED
    BY <1>4, <1>7, <2>1 DEF WorkStep, executorVars, sessionVars, outcomeVars, Working, Phases
<1>8. CASE UNCHANGED vars
  <2>1. UNCHANGED <<cases, tool_history, turn_start_history, decision, turns, phase, result,
                    failure_reason>>
    BY <1>8 DEF vars, executorVars, sessionVars, outcomeVars
  <2>2. TurnHistory' = TurnHistory
    BY <2>1, Frame
  <2>3. ResultJustified'
    BY <2>1, <2>2 DEF DInv, ResultJustified, TurnEnded
  <2> QED BY <1>4, <2>1, <2>3 DEF DInv, TurnTyped
<1> QED BY <1>0, <1>1, <1>2, <1>3, <1>5, <1>6, <1>7, <1>8, TurnSteps

LEMMA DInvariance == Spec => [](IInv /\ DInv)
<1>1. Spec => []IInv
  BY TurnsImplementExecutor, Invariance, PTL DEF ImplementsExecutor
<1> QED BY <1>1, DInit, DNext, PTL DEF Spec

-----------------------------------------------------------------------------
(* What a turn delivers.                                                   *)

\* What the invariant says of a turn that has ended.
LEMMA AtTurnEnd ==
  ASSUME IInv, DInv
  PROVE  /\ cases \in [Orders -> CaseStates] /\ TurnHistory \in Seq(ToolInteractions)
         /\ Touched \in SUBSET Orders /\ IsFiniteSet(Touched)
         /\ TurnEnded =>
              /\ FromDraft(result, cases, TurnHistory) \/ FromFailure(result, cases, TurnHistory)
              /\ failure_reason # None => FromFailure(result, cases, TurnHistory)
<1>1. cases \in [Orders -> CaseStates] /\ TurnHistory \in Seq(ToolInteractions)
  BY HistoryTyped DEF IInv, TypeOK, DInv, TurnTyped
<1>2. Touched \in SUBSET Orders /\ IsFiniteSet(Touched)
  BY <1>1, TouchedFinite DEF Touched
<1> QED BY <1>1, <1>2 DEF DInv, ResultJustified

\* A field of a case that is the last answer of its tool is that tool's answer
\* for the order.
LEMMA FieldFromService ==
  ASSUME IInv, NEW o \in Orders, NEW name, NEW field,
         FieldIsLastAnswer(name, o, field), field # None
  PROVE  \E i \in DOMAIN tool_history :
           /\ FactualAt(i)
           /\ tool_history[i].key.name = name /\ tool_history[i].key.order = o
           /\ tool_history[i].key \in Keys
           /\ tool_history[i].result = field
           /\ Service[tool_history[i].key].error = None
<1>1. PICK i \in DOMAIN tool_history : LastAnswer(i, name, o) /\ tool_history[i].result = field
  BY DEF FieldIsLastAnswer
<1>2. FactualAt(i) /\ tool_history[i].key.name = name /\ tool_history[i].key.order = o
      /\ tool_history[i].result.error = None
  BY <1>1 DEF LastAnswer
<1>3. tool_history[i].key \in CallKeys /\ tool_history[i].result \in ToolResults
  BY <1>2 DEF IInv, HistoryAnswered
<1>4. tool_history[i].key \in Keys
  BY <1>3, CallTypes DEF CallKeys
<1>5. tool_history[i].result = Service[tool_history[i].key]
  BY <1>2, <1>3, NoneFresh DEF IInv, CacheCovers, CacheTrue
<1> QED BY <1>1, <1>2, <1>4, <1>5

\* An order that was not found has neither a policy verdict nor a refund.
LEMMA CasesSettledOneWay ==
  ASSUME IInv, DInv, NEW o \in Orders
  PROVE  SettledOneWay(cases[o])
<1> SUFFICES ASSUME cases[o].terminal_error # None
             PROVE  cases[o].policy_result = None /\ cases[o].refund_result = None
  BY DEF SettledOneWay
<1>1. PICK k \in Keys : /\ k.name \in OrderScoped /\ k.order = o
                       /\ Service[k].error \in TerminalErrors
  BY DEF DInv, TerminalBacked
<1>2. \A name \in {"check_return_policy", "process_refund"} : name \in OrderScoped
  BY DEF OrderScoped, ToolNames
<1>3. ASSUME NEW name \in {"check_return_policy", "process_refund"}, NEW field,
             FieldIsLastAnswer(name, o, field), field # None
      PROVE  FALSE
  <2>1. PICK i \in DOMAIN tool_history :
          /\ tool_history[i].key.name = name /\ tool_history[i].key.order = o
          /\ tool_history[i].key \in Keys
          /\ Service[tool_history[i].key].error = None
    BY <1>3, FieldFromService
  <2> QED BY <1>1, <1>2, <2>1, NotFoundAssumption
<1> QED BY <1>3 DEF IInv, EvidenceIsLastAnswer

\* No refund, amount or refund id is ever reported, whatever the model drafts
\* and however the turn ends, that process_refund did not approve for that very
\* order.
THEOREM RefundsReal == Spec => []NoInventedRefund
<1>1. ASSUME IInv, DInv PROVE NoInventedRefund
  <2> SUFFICES ASSUME TurnEnded, NEW i \in DOMAIN result.cases,
                      result.cases[i].decision = "AUTO_REFUND_APPROVED"
                        \/ result.cases[i].refund # None
               PROVE  \E j \in DOMAIN tool_history :
                        /\ FactualAt(j) /\ tool_history[j].key.name = "process_refund"
                        /\ tool_history[j].key.order = result.cases[i].order_id
                        /\ tool_history[j].result.status = "APPROVED"
                        /\ tool_history[j].result.refund = result.cases[i].refund
    BY DEF NoInventedRefund
  <2> DEFINE o == result.cases[i].order_id
  <2>1. o \in Orders
    BY <1>1, AtTurnEnd, ResultTyped
  <2>2. TrustedStatus(cases[o]) = "APPROVED"
        /\ result.cases[i].refund = cases[o].refund_result.refund
    BY <1>1, AtTurnEnd, CasesAgree
  <2>3. cases[o].refund_result # None /\ cases[o].refund_result.status = "APPROVED"
    BY <2>2, NoneAssumption DEF TrustedStatus, RefundStatuses
  <2>4. FieldIsLastAnswer("process_refund", o, cases[o].refund_result)
    BY <1>1, <2>1 DEF IInv, EvidenceIsLastAnswer
  <2>5. \E j \in DOMAIN tool_history :
          /\ FactualAt(j) /\ tool_history[j].key.name = "process_refund"
          /\ tool_history[j].key.order = o
          /\ tool_history[j].result = cases[o].refund_result
    BY <1>1, <2>1, <2>3, <2>4, FieldFromService
  <2> QED BY <2>2, <2>3, <2>5
<1> QED BY <1>1, DInvariance, PTL

\* Whatever the draft says and however the turn ends, an order its evidence
\* settles is delivered exactly once, as the canonical outcome.
THEOREM SettledDelivered == Spec => []ResolvedOutcomesDelivered
<1>1. ASSUME IInv, DInv PROVE ResolvedOutcomesDelivered
  <2> SUFFICES ASSUME TurnEnded, NEW o \in Touched, ProjectCaseResult(o, cases[o]) # None
               PROVE  \E i \in DeliveredFor(o) :
                        /\ DeliveredFor(o) = {i}
                        /\ result.cases[i] = ProjectCaseResult(o, cases[o])
    BY DEF ResolvedOutcomesDelivered
  <2>1. o \in Orders /\ cases[o] \in CaseStates
    BY <1>1, AtTurnEnd
  <2>2. PICK i \in DOMAIN result.cases :
          /\ result.cases[i] = ProjectCaseResult(o, cases[o])
          /\ \A j \in DOMAIN result.cases : result.cases[j].order_id = o => j = i
    BY <1>1, AtTurnEnd, SettledReported DEF Touched
  <2>3. result.cases[i].order_id = o
    BY <2>1, <2>2, ProjectionAgrees
  <2> QED BY <2>2, <2>3 DEF DeliveredFor
<1> QED BY <1>1, DInvariance, PTL

\* The decision kept with a settled order is the one its evidence supports now,
\* over any number of turns.
THEOREM DecisionsFollow == Spec => []DecisionFollowsEvidence
<1>1. ASSUME IInv, DInv PROVE DecisionFollowsEvidence
  BY <1>1 DEF DInv, DecisionsCurrent, DecisionFollowsEvidence, TurnEnded
<1> QED BY <1>1, DInvariance, PTL

\* A turn that does not fail claims an outcome only for orders whose evidence
\* is terminal, in wording the runtime rendered.
THEOREM OutcomesFromEvidence == Spec => []OutcomesGrounded
<1>1. ASSUME IInv, DInv PROVE OutcomesGrounded
  <2> SUFFICES ASSUME TurnEnded, result.status # "FAILED_SAFE", NEW i \in DOMAIN result.cases
               PROVE  LET c == result.cases[i] IN
                      /\ result.customer_response \in {"TERMINAL", "CLARIFICATION"}
                      /\ Resolved(cases[c.order_id])
                           \/ (result.status = "NEEDS_CLARIFICATION" /\ CarriesNoOutcome(c))
    BY DEF OutcomesGrounded
  <2>1. FromDraft(result, cases, TurnHistory)
    BY <1>1, AtTurnEnd DEF FromFailure, BuildFailSafeResult
  <2>2. PICK draft \in Drafts :
          result = ProjectResultFromState(draft, cases, TurnHistory)
          /\ Valid(result, cases, TurnHistory)
    BY <2>1 DEF FromDraft
  <2>3. /\ result.status \in {"COMPLETED", "NEEDS_CLARIFICATION"}
        /\ result.cases # <<>>
    BY <1>1, AtTurnEnd, ResultTyped DEF AgentResults, FinalStatuses
  <2>4. result.customer_response
          = RenderedWording(result.status, result.cases, draft.customer_response)
    BY <2>2 DEF ProjectResultFromState
  <2>5. result.customer_response \in {"TERMINAL", "CLARIFICATION"}
    BY <2>3, <2>4 DEF RenderedWording
  <2>6. CaseAccepted(result.cases[i], cases[result.cases[i].order_id], result.status)
    BY <2>2 DEF Valid
  <2> QED BY <2>3, <2>5, <2>6 DEF CaseAccepted
<1> QED BY <1>1, DInvariance, PTL

\* The fail-safe result passes the validator, if no case is settled two ways.
LEMMA FailSafeIsValid ==
  ASSUME NEW cs \in [Orders -> CaseStates], NEW slice \in Seq(ToolInteractions),
         \A o \in Orders : SettledOneWay(cs[o])
  PROVE  Valid(BuildFailSafeResult(cs, slice), cs, slice)
<1> DEFINE r == BuildFailSafeResult(cs, slice)
           touched == TouchedCaseIds(slice)
           known == {o \in touched : Known(cs[o])}
<1>1. IsFiniteSet(touched) /\ touched \in SUBSET Orders
  BY TouchedFinite
<1>2. /\ \A i \in DOMAIN r.cases :
           /\ r.cases[i].order_id \in known
           /\ r.cases[i] = CaseResultFromEvidence(r.cases[i].order_id, cs[r.cases[i].order_id])
      /\ \A o \in known : \E i \in DOMAIN r.cases :
           /\ r.cases[i] = CaseResultFromEvidence(o, cs[o])
           /\ \A j \in DOMAIN r.cases : r.cases[j].order_id = o => j = i
  <2>1. r.cases = FailSafeCases(cs, touched)
    BY DEF BuildFailSafeResult
  <2> HIDE DEF touched, r
  <2> QED BY <1>1, <2>1, FailSafeList
<1>3. /\ r.status = "FAILED_SAFE" /\ r.customer_response = "FAIL_SAFE"
      /\ r.tools_called = FactualToolsCalled(slice)
  BY DEF BuildFailSafeResult
<1> HIDE DEF r
<1>4. \A i, j \in DOMAIN r.cases : i # j => r.cases[i].order_id # r.cases[j].order_id
  BY <1>2
<1>5. \A o \in touched : Resolved(cs[o]) => o \in Reported(r)
  <2> SUFFICES ASSUME NEW o \in touched, Resolved(cs[o])
               PROVE  \E i \in DOMAIN r.cases : r.cases[i].order_id = o
    BY DEF Reported
  <2>1. o \in known
    BY <1>1, ResolvedKnown
  <2>2. PICK i \in DOMAIN r.cases : r.cases[i] = CaseResultFromEvidence(o, cs[o])
    BY <1>2, <2>1
  <2> QED BY <1>1, <2>2, FailSafeAgrees
<1>6. ASSUME NEW i \in DOMAIN r.cases
      PROVE  CaseAccepted(r.cases[i], cs[r.cases[i].order_id], r.status)
  <2> DEFINE o == r.cases[i].order_id
  <2>1. o \in Orders /\ Known(cs[o]) /\ r.cases[i] = CaseResultFromEvidence(o, cs[o])
    BY <1>1, <1>2
  <2>2. CaseConsistent(CaseResultFromEvidence(o, cs[o]), cs[o])
    BY <2>1, FailSafeAgrees
  <2> QED BY <1>3, <2>1, <2>2 DEF CaseAccepted
<1>7. Valid(r, cs, slice)
  BY <1>3, <1>4, <1>5, <1>6 DEF Valid, ToolsCalledExact
<1> QED BY <1>7 DEF r

\* The fail-safe result, which the code never validates, would pass.
THEOREM FailSafeValid == Spec => []FailSafeResultValid
<1>1. ASSUME IInv, DInv PROVE FailSafeResultValid
  <2> SUFFICES ASSUME TurnEnded, failure_reason # None
               PROVE  Valid(result, cases, TurnHistory)
    BY DEF FailSafeResultValid
  <2>1. \A o \in Orders : SettledOneWay(cases[o])
    BY <1>1, CasesSettledOneWay
  <2>2. result = BuildFailSafeResult(cases, TurnHistory)
    BY <1>1, AtTurnEnd DEF FromFailure
  <2> QED BY <1>1, <2>1, <2>2, AtTurnEnd, FailSafeIsValid
<1> QED BY <1>1, DInvariance, PTL

\* When every touched order is settled, the projection of a draft that reports no
\* other order is valid, whatever else the draft says.
LEMMA SettledIsValid ==
  ASSUME NEW cs \in [Orders -> CaseStates], NEW slice \in Seq(ToolInteractions),
         \A o \in Orders : SettledOneWay(cs[o]),
         TouchedCaseIds(slice) # {},
         \A o \in TouchedCaseIds(slice) : ProjectCaseResult(o, cs[o]) # None,
         NEW draft \in AgentResults, Reported(draft) \subseteq TouchedCaseIds(slice)
  PROVE  Valid(ProjectResultFromState(draft, cs, slice), cs, slice)
<1> DEFINE r == ProjectResultFromState(draft, cs, slice)
           touched == TouchedCaseIds(slice)
<1>1. IsFiniteSet(touched) /\ touched \in SUBSET Orders
  BY TouchedFinite
<1>2. KeptOrders(draft, cs, touched) = touched
  BY DEF KeptOrders
<1>3. /\ r.status = "COMPLETED" /\ r.cases = ProjectedCases(draft, cs, touched)
      /\ r.tools_called = FactualToolsCalled(slice)
      /\ r.customer_response = RenderedWording("COMPLETED", r.cases, draft.customer_response)
  BY DEF ProjectResultFromState
<1> HIDE DEF r
<1>4. \A j \in DOMAIN draft.cases : draft.cases[j].order_id \in touched
  BY DEF Reported
<1>5. /\ \A i \in DOMAIN r.cases : \E o \in touched : r.cases[i] = ProjectCaseResult(o, cs[o])
      /\ \A o \in touched : \E i \in DOMAIN r.cases :
           /\ r.cases[i] = ProjectCaseResult(o, cs[o])
           /\ \A j \in DOMAIN r.cases : r.cases[j].order_id = o => j = i
  <2>1. /\ \A i \in DOMAIN r.cases :
             \/ \E o \in touched : r.cases[i] = ProjectedCase(draft, o, cs[o])
             \/ /\ r.cases[i].order_id \notin touched
                /\ \E j \in DOMAIN draft.cases : r.cases[i] = draft.cases[j]
        /\ \A o \in touched : \E i \in DOMAIN r.cases :
             /\ r.cases[i] = ProjectedCase(draft, o, cs[o])
             /\ \A j \in DOMAIN r.cases : r.cases[j].order_id = o => j = i
    <3> HIDE DEF touched
    <3> QED BY <1>1, <1>2, <1>3, ProjectedList
  <2>2. \A o \in touched : ProjectedCase(draft, o, cs[o]) = ProjectCaseResult(o, cs[o])
    BY DEF ProjectedCase
  <2> HIDE DEF touched
  <2> QED BY <1>4, <2>1, <2>2
<1>6. \A o \in touched :
        /\ ProjectCaseResult(o, cs[o]).order_id = o
        /\ Resolved(cs[o]) /\ Known(cs[o])
        /\ CaseConsistent(ProjectCaseResult(o, cs[o]), cs[o])
  BY <1>1, ProjectionAgrees, ResolvedKnown
<1>7. \A i, j \in DOMAIN r.cases : i # j => r.cases[i].order_id # r.cases[j].order_id
  BY <1>5, <1>6
<1>8. \A o \in touched : o \in Reported(r)
  BY <1>5, <1>6 DEF Reported
<1>9. \A i \in DOMAIN r.cases :
        CaseAccepted(r.cases[i], cs[r.cases[i].order_id], r.status)
  BY <1>3, <1>5, <1>6 DEF CaseAccepted
<1>10. r.cases # <<>>
  BY <1>5
<1>11. r.customer_response # "BLANK"
  BY <1>3, <1>10 DEF RenderedWording
<1>12. Valid(r, cs, slice)
  BY <1>3, <1>7, <1>8, <1>9, <1>11 DEF Valid, ToolsCalledExact
<1> QED BY <1>12 DEF r

\* Once the evidence settles every order of the turn, no draft that reports only
\* those orders can cost a repair or a failure.
THEOREM SettledAccepted == Spec => []ProjectionAccepted
<1>1. ASSUME IInv, DInv PROVE ProjectionAccepted
  <2> SUFFICES ASSUME Touched # {}, \A o \in Touched : ProjectCaseResult(o, cases[o]) # None,
                      NEW draft \in Drafts, Reported(draft) \subseteq Touched
               PROVE  Valid(ProjectResultFromState(draft, cases, TurnHistory), cases, TurnHistory)
    BY DEF ProjectionAccepted, Acceptable, Projected
  <2>1. \A o \in Orders : SettledOneWay(cases[o])
    BY <1>1, CasesSettledOneWay
  <2>2. draft \in AgentResults
    BY AgentAssumption
  <2> QED BY <1>1, <2>1, <2>2, AtTurnEnd, SettledIsValid DEF Touched
<1> QED BY <1>1, DInvariance, PTL
=============================================================================

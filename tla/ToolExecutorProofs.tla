-------------------------- MODULE ToolExecutorProofs --------------------------
(***************************************************************************)
(* Proofs about ToolExecutor for every set of orders, details and calls    *)
(* and every deterministic tool layer.  Every branch of execute is first   *)
(* reduced to one of two shapes, a refusal or an answer (lemma Branches);  *)
(* each part of the inductive invariant is then proved for the three       *)
(* kinds of step: a refusal, an answer, a new turn.                        *)
(***************************************************************************)
EXTENDS ToolExecutor, TLAPS, WellFoundedInduction

\* A refusal records an entry without result and changes nothing else; only
\* a call admitted to the tool can fail there.
Refused(e) ==
  /\ e.outcome \notin Factual
  /\ e.outcome = "SYSTEM_FAILURE" => ~CaseTerminal(e.key)
  /\ tool_history' = Append(tool_history, e)
  /\ UNCHANGED <<cases, cache>>

\* An answer, from the tool or from the cache, passed every check, and is
\* recorded, cached and stored.
Answered(e) ==
  /\ e.outcome \in Factual /\ e.result \in ToolResults
  /\ e.key \in CallKeys
  /\ ~CaseTerminal(e.key)
  /\ e.key.schema_ok
  /\ e.key.name = "process_refund" => RefundPermitted(e.key)
  /\ e.outcome \in Fresh => cache[e.key] = None /\ e.result = Service[e.key]
  /\ e.outcome = "CACHED" => cache[e.key] = e.result
  /\ tool_history' = Append(tool_history, e)
  /\ cache' = [cache EXCEPT ![e.key] = e.result]
  /\ cases' = ApplyTrustedResult(cases, e.key, e.result)

LEMMA NoneFresh ==
  /\ None \notin ToolResults /\ None \notin Orders
  /\ None \notin ErrorCodes /\ None \notin TerminalErrors
BY NoneAssumption DEF ErrorCodes

LEMMA CallTypes ==
  ASSUME NEW call \in Calls
  PROVE  /\ call.key \in CallKeys /\ call.key \in Keys
         /\ call.raw \in BOOLEAN
         /\ Service[call.key] \in ToolResults
BY CallsAssumption, ServiceAssumption DEF CallKeys, ToolCallRequests

LEMMA Branches ==
  ASSUME TypeOK, NEW call \in Calls, Execute(call)
  PROVE  \E e \in ToolInteractions : e.key = call.key /\ (Refused(e) \/ Answered(e))
<1> DEFINE Entry(outcome, r, reason) ==
      [key |-> call.key, outcome |-> outcome, result |-> r, reason_code |-> reason]
<1>0. call.key \in CallKeys /\ call.key \in Keys /\ Service[call.key] \in ToolResults
  BY CallTypes
<1>1. ASSUME NEW outcome \in Outcomes \ Factual, NEW reason \in Reasons \cup {None},
             Refuse(call, outcome, reason),
             outcome = "SYSTEM_FAILURE" => ~CaseTerminal(call.key)
      PROVE  \E e \in ToolInteractions : e.key = call.key /\ (Refused(e) \/ Answered(e))
  <2>1. Entry(outcome, None, reason) \in ToolInteractions
    BY <1>0 DEF ToolInteractions
  <2>2. Refused(Entry(outcome, None, reason))
    BY <1>1 DEF Refuse, Record, Refused
  <2> QED BY <2>1, <2>2
<1>2. CASE RejectUnknownTool(call) \/ RejectUnparsed(call) \/ BlockTerminalCase(call)
           \/ RejectStructure(call) \/ BlockRefund(call) \/ FailTool(call)
  <2>1. \E outcome \in Outcomes \ Factual : \E reason \in Reasons \cup {None} :
          /\ Refuse(call, outcome, reason)
          /\ outcome = "SYSTEM_FAILURE" => ~CaseTerminal(call.key)
    <3>1. CASE RejectUnknownTool(call) \/ RejectUnparsed(call) \/ RejectStructure(call)
      BY <3>1 DEF RejectUnknownTool, RejectUnparsed, RejectStructure, Outcomes, Factual
    <3>2. CASE BlockTerminalCase(call) \/ BlockRefund(call)
      BY <3>2 DEF BlockTerminalCase, BlockRefund, Outcomes, Factual, Reasons
    <3>3. CASE FailTool(call)
      BY <3>3 DEF FailTool, Admitted, Outcomes, Factual
    <3> QED BY <1>2, <3>1, <3>2, <3>3
  <2> QED BY <2>1, <1>1
<1>3. CASE ServeCached(call)
  <2> DEFINE e == Entry("CACHED", cache[call.key], None)
  <2>1. cache[call.key] \in ToolResults
    BY <1>0, <1>3 DEF ServeCached, TypeOK
  <2>2. e \in ToolInteractions
    BY <1>0, <2>1 DEF ToolInteractions, Outcomes
  <2>3. cache = [cache EXCEPT ![call.key] = cache[call.key]]
    BY <1>0 DEF TypeOK
  <2>4. Answered(e)
    BY <1>0, <1>3, <2>1, <2>3 DEF ServeCached, Answered, Record, Admitted, Factual, Fresh
  <2> QED BY <2>2, <2>4
<1>4. CASE ExecuteTool(call)
  <2> DEFINE r == Service[call.key]
             e == IF r.error # None THEN Entry("BUSINESS_ERROR", r, r.error)
                                    ELSE Entry("EXECUTED", r, None)
  <2>1. e \in ToolInteractions
    BY <1>0 DEF ToolInteractions, Outcomes, Reasons, ToolResults
  <2>2. Answered(e)
    BY <1>0, <1>4 DEF ExecuteTool, Answered, Record, Admitted, Factual, Fresh
  <2> QED BY <2>1, <2>2
<1> QED
  BY <1>2, <1>3, <1>4 DEF Execute, Observe

-----------------------------------------------------------------------------
(* Appending to the history.                                               *)

LEMMA Grow ==
  ASSUME tool_history \in Seq(ToolInteractions), NEW e \in ToolInteractions,
         tool_history' = Append(tool_history, e)
  PROVE  /\ tool_history' \in Seq(ToolInteractions)
         /\ Len(tool_history) \in Nat
         /\ DOMAIN tool_history = 1 .. Len(tool_history)
         /\ Len(tool_history') = Len(tool_history) + 1
         /\ DOMAIN tool_history' = 1 .. (Len(tool_history) + 1)
         /\ \A i \in DOMAIN tool_history : tool_history'[i] = tool_history[i]
         /\ tool_history'[Len(tool_history) + 1] = e
OBVIOUS

\* Storing a result keeps the type of the evidence.
LEMMA StoreTyped ==
  ASSUME NEW case \in CaseStates, NEW key \in Keys, NEW r \in ToolResults
  PROVE  StoreOnCase(key, r, case) \in CaseStates
<1>1. key.detail \in Details \cup {None}
  BY DEF Keys
<1>2. CASE r.error \in TerminalErrors
  BY <1>2 DEF StoreOnCase, CaseStates
<1>3. CASE r.error \notin TerminalErrors
  BY <1>1, <1>3 DEF StoreOnCase, CaseStates
<1> QED BY <1>2, <1>3

LEMMA ApplyTyped ==
  ASSUME NEW cs \in [Orders -> CaseStates], NEW key \in Keys, NEW r \in ToolResults
  PROVE  ApplyTrustedResult(cs, key, r) \in [Orders -> CaseStates]
<1> SUFFICES ASSUME NEW o \in Orders
             PROVE  ApplyTrustedResult(cs, key, r)[o] \in CaseStates
  BY DEF ApplyTrustedResult
<1>1. StoreOnCase(key, r, cs[o]) \in CaseStates
  BY StoreTyped
<1>2. [cs[o] EXCEPT !.verified_user = r] \in CaseStates
  BY DEF CaseStates
<1> QED BY <1>1, <1>2 DEF ApplyTrustedResult

\* A bounded non-empty set of positions has a last one, so _reseed_cache ends
\* with the latest result of every key.
LEMMA LastIndexExists ==
  ASSUME NEW n \in Nat, NEW S \in SUBSET (1 .. n), S # {}
  PROVE  LastIndex(S) \in S /\ \A j \in S : j <= LastIndex(S)
<1> DEFINE T == {n - i : i \in S}
<1>1. T \subseteq Nat /\ T # {}
  <2>1. \A i \in S : i \in Nat /\ i <= n
    OBVIOUS
  <2>2. \A i \in S : n - i \in Nat
    BY <2>1
  <2> QED BY <2>2
<1>2. PICK x \in T : \A y \in T : ~(<<y, x>> \in OpToRel(<, Nat))
  <2>1. IsWellFoundedOn(OpToRel(<, Nat), Nat)
    BY NatLessThanWellFounded
  <2> QED BY <1>1, <2>1, WFMin
<1>3. PICK i \in S : x = n - i
  OBVIOUS
<1>4. \A j \in S : j <= i
  <2> SUFFICES ASSUME NEW j \in S, j > i PROVE FALSE
    OBVIOUS
  <2>1. <<n - j, x>> \in OpToRel(<, Nat)
    BY <1>3 DEF OpToRel
  <2> QED BY <1>2, <2>1
<1> QED BY <1>4 DEF LastIndex

-----------------------------------------------------------------------------
(* The inductive invariant.  RefundPrecondition speaks of the history,     *)
(* while the guardrail reads cases, and NoReexecution speaks of the        *)
(* history while execute reads the cache: the parts below tie the two.     *)

HistoryAnswered ==
  \A i \in DOMAIN tool_history :
    /\ tool_history[i].key \in CallKeys
    /\ FactualAt(i) => tool_history[i].result \in ToolResults

\* Every answer is in the cache, and the cache holds nothing else.
CacheCovers ==
  \A i \in DOMAIN tool_history :
    FactualAt(i) => cache[tool_history[i].key] = tool_history[i].result

CacheBacked ==
  \A k \in CallKeys :
    cache[k] # None => \E i \in DOMAIN tool_history : FactualAt(i) /\ tool_history[i].key = k

\* Cached results, and the order details a case holds, are those of the tools.
CacheTrue ==
  \A k \in CallKeys : cache[k] # None => cache[k] = Service[k]

DetailsTrue ==
  \A o \in Orders :
    cases[o].verified_order # None =>
      \E k \in DetailsKeys(o) : cases[o].verified_order = Service[k]

TerminalAnswer(i) ==
  /\ FactualAt(i)
  /\ tool_history[i].key.name \in OrderScoped
  /\ tool_history[i].key.order \in Orders
  /\ tool_history[i].result.error \in TerminalErrors

\* A terminal answer marked its case.
TerminalMarked ==
  \A i \in DOMAIN tool_history :
    TerminalAnswer(i) => cases[tool_history[i].key.order].terminal_error # None

IInv ==
  /\ TypeOK
  /\ HistoryAnswered
  /\ CacheCovers
  /\ CacheBacked
  /\ CacheTrue
  /\ DetailsTrue
  /\ EvidenceIsLastAnswer
  /\ ProfileMatchesOwner
  /\ TerminalMarked
  /\ RefundPrecondition
  /\ NoReexecution
  /\ TerminalCaseStopped

LEMMA InitInv == ExecutorInit => IInv
<1> SUFFICES ASSUME ExecutorInit PROVE IInv
  OBVIOUS
<1>1. EmptyCase \in CaseStates
  BY DEF EmptyCase, CaseStates
<1>2. TypeOK
  BY <1>1 DEF ExecutorInit, TypeOK
<1>3. tool_history = <<>> /\ DOMAIN tool_history = {}
  BY DEF ExecutorInit
<1>4. CacheBacked /\ CacheTrue /\ DetailsTrue /\ ProfileMatchesOwner
  BY DEF ExecutorInit, CacheBacked, CacheTrue, DetailsTrue, ProfileMatchesOwner, EmptyCase
<1>5. EvidenceIsLastAnswer
  BY <1>3 DEF ExecutorInit, EmptyCase, EvidenceIsLastAnswer, FieldIsLastAnswer
<1> QED
  BY <1>2, <1>3, <1>4, <1>5 DEF IInv, HistoryAnswered, CacheCovers, TerminalMarked,
       RefundPrecondition, NoReexecution, TerminalCaseStopped

\* Rebuilding the cache from the history gives back the same cache, so a new
\* customer turn is invisible to the executor.
LEMMA NewTurnStutters ==
  ASSUME IInv, NewTurn
  PROVE  UNCHANGED executorVars
<1>1. cache \in [CallKeys -> ToolResults \cup {None}] /\ tool_history \in Seq(ToolInteractions)
  BY DEF IInv, TypeOK
<1>2. ASSUME NEW k \in CallKeys
      PROVE  cache'[k] = cache[k]
  <2>1. Replayed(k) \in SUBSET (1 .. Len(tool_history)) /\ Len(tool_history) \in Nat
    BY <1>1 DEF Replayed
  <2>2. CASE Replayed(k) = {}
    <3>1. \A i \in DOMAIN tool_history : ~(FactualAt(i) /\ tool_history[i].key = k)
      BY <2>2, NoneFresh DEF Replayed, FactualAt, IInv, HistoryAnswered
    <3>2. cache[k] = None
      BY <3>1 DEF IInv, CacheBacked
    <3> QED BY <2>2, <3>2 DEF NewTurn, ReseedCache
  <2>3. CASE Replayed(k) # {}
    <3> DEFINE i == LastIndex(Replayed(k))
    <3>1. i \in Replayed(k)
      BY <2>1, <2>3, LastIndexExists
    <3>2. cache'[k] = tool_history[i].result
      BY <2>3 DEF NewTurn, ReseedCache
    <3>3. cache[k] = tool_history[i].result
      BY <3>1 DEF Replayed, FactualAt, IInv, CacheCovers
    <3> QED BY <3>2, <3>3
  <2> QED BY <2>2, <2>3
<1>3. cache' = cache
  BY <1>1, <1>2 DEF NewTurn, ReseedCache
<1> QED BY <1>3 DEF NewTurn, executorVars

-----------------------------------------------------------------------------
(* Each part is preserved by a refusal and by an answer.                   *)

LEMMA TypeStep ==
  ASSUME TypeOK, NEW e \in ToolInteractions, e.key \in CallKeys, Refused(e) \/ Answered(e)
  PROVE  TypeOK'
<1>1. tool_history' \in Seq(ToolInteractions)
  BY Grow DEF TypeOK, Refused, Answered
<1>2. CASE Refused(e)
  BY <1>1, <1>2 DEF TypeOK, Refused
<1>3. CASE Answered(e)
  <2>1. e.key \in Keys
    BY DEF ToolInteractions
  <2>2. cases' \in [Orders -> CaseStates]
    BY <1>3, <2>1, ApplyTyped DEF TypeOK, Answered
  <2>3. cache' \in [CallKeys -> ToolResults \cup {None}]
    BY <1>3 DEF TypeOK, Answered
  <2> QED BY <1>1, <2>2, <2>3 DEF TypeOK
<1> QED BY <1>2, <1>3

LEMMA HistoryStep ==
  ASSUME IInv, NEW e \in ToolInteractions, e.key \in CallKeys, Refused(e) \/ Answered(e)
  PROVE  HistoryAnswered'
BY Grow DEF IInv, TypeOK, HistoryAnswered, FactualAt, Refused, Answered

LEMMA CacheStep ==
  ASSUME IInv, NEW e \in ToolInteractions, e.key \in CallKeys, Refused(e) \/ Answered(e)
  PROVE  CacheCovers' /\ CacheBacked'
<1> USE DEF FactualAt
<1>1. CASE Refused(e)
  BY <1>1, Grow DEF IInv, TypeOK, Refused, CacheCovers, CacheBacked
<1>2. CASE Answered(e)
  <2> DEFINE n == Len(tool_history) + 1
  <2>1. /\ \A k \in CallKeys : k # e.key => cache'[k] = cache[k]
        /\ cache'[e.key] = e.result
    BY <1>2 DEF IInv, TypeOK, Answered
  <2>2. e.outcome \in Factual
    BY <1>2 DEF Answered
  <2>3. CacheBacked'
    <3> SUFFICES ASSUME NEW k \in CallKeys, cache'[k] # None
                 PROVE  \E i \in DOMAIN tool_history' :
                          tool_history'[i].outcome \in Factual /\ tool_history'[i].key = k
      BY DEF CacheBacked
    <3>1. CASE k = e.key
      BY <1>2, <2>2, <3>1, Grow DEF IInv, TypeOK, Answered
    <3>2. CASE k # e.key
      BY <1>2, <2>1, <3>2, Grow DEF IInv, TypeOK, Answered, CacheBacked
    <3> QED BY <3>1, <3>2
  <2>4. CacheCovers'
    <3> SUFFICES ASSUME NEW i \in DOMAIN tool_history', tool_history'[i].outcome \in Factual
                 PROVE  cache'[tool_history'[i].key] = tool_history'[i].result
      BY DEF CacheCovers
    <3>1. CASE i = Len(tool_history) + 1
      BY <1>2, <2>1, <3>1, Grow DEF IInv, TypeOK, Answered
    <3>2. CASE i \in DOMAIN tool_history
      <4>1. /\ tool_history'[i] = tool_history[i]
            /\ tool_history[i].key \in CallKeys
            /\ cache[tool_history[i].key] = tool_history[i].result
            /\ tool_history[i].result # None
        BY <1>2, <3>2, Grow, NoneFresh DEF IInv, TypeOK, Answered, CacheCovers, HistoryAnswered
      \* An executed call was not cached; a cached answer is the cached result.
      <4>2. tool_history[i].key = e.key => e.outcome = "CACHED"
        BY <1>2, <4>1 DEF Answered, Factual, Fresh
      <4>3. tool_history[i].key = e.key => e.result = cache[e.key]
        BY <1>2, <4>2 DEF Answered
      <4> QED BY <2>1, <4>1, <4>3
    <3> QED BY <1>2, <3>1, <3>2, Grow DEF IInv, TypeOK, Answered
  <2> QED BY <2>3, <2>4
<1> QED BY <1>1, <1>2

LEMMA NoReexecutionStep ==
  ASSUME IInv, NEW e \in ToolInteractions, e.key \in CallKeys, Refused(e) \/ Answered(e)
  PROVE  NoReexecution'
<1>1. CASE Refused(e)
  BY <1>1, Grow DEF IInv, TypeOK, Refused, NoReexecution, Factual, Fresh
<1>2. CASE Answered(e)
  <2>1. \A i \in DOMAIN tool_history :
          tool_history[i].outcome \in Fresh /\ e.outcome \in Fresh => tool_history[i].key # e.key
    BY <1>2, NoneFresh
       DEF IInv, Answered, CacheCovers, HistoryAnswered, FactualAt, Factual, Fresh
  <2> QED BY <1>2, <2>1, Grow DEF IInv, TypeOK, Answered, NoReexecution
<1> QED BY <1>1, <1>2

\* What an answer stores: an error-free answer for the order replaces the field
\* of its tool, a terminal error is kept, which nothing clears, and a profile
\* goes to the cases of its user.
LEMMA ApplyFields ==
  ASSUME cases \in [Orders -> CaseStates], NEW o \in Orders, NEW key \in Keys,
         NEW r \in ToolResults
  PROVE  LET after == ApplyTrustedResult(cases, key, r)[o]
             stored(name, field) ==
               IF key.name = name /\ key.order = o /\ r.error = None THEN r ELSE field
         IN
         /\ after.verified_order = stored("get_order_details", cases[o].verified_order)
         /\ after.policy_result = stored("check_return_policy", cases[o].policy_result)
         /\ after.refund_result = stored("process_refund", cases[o].refund_result)
         /\ after.terminal_error =
              IF key.name \in OrderScoped /\ key.order = o /\ r.error \in TerminalErrors
                THEN r.error ELSE cases[o].terminal_error
         /\ after.verified_user # cases[o].verified_user =>
              after.verified_user = r /\ OwnedBy(cases[o], r.user_id)
<1> DEFINE after == ApplyTrustedResult(cases, key, r)[o]
<1>0. cases[o] \in CaseStates /\ None \notin TerminalErrors
  BY NoneFresh
<1>1. CASE key.name \in OrderScoped /\ key.order = o
  <2>1. after = StoreOnCase(key, r, cases[o])
    BY <1>1 DEF ApplyTrustedResult
  <2> QED BY <1>0, <1>1, <2>1 DEF StoreOnCase, CaseStates, OrderScoped, ToolNames
<1>2. CASE ~(key.name \in OrderScoped /\ key.order = o)
  <2>1. \/ after = cases[o]
        \/ OwnedBy(cases[o], r.user_id) /\ after = [cases[o] EXCEPT !.verified_user = r]
    BY <1>2 DEF ApplyTrustedResult
  <2>2. {"get_order_details", "check_return_policy", "process_refund"} \subseteq OrderScoped
    BY DEF OrderScoped, ToolNames
  <2> QED BY <1>0, <1>2, <2>1, <2>2 DEF CaseStates
<1> QED BY <1>1, <1>2

\* An answer's result is the tool's, from the cache as from the tool itself.
LEMMA AnswerTrue ==
  ASSUME IInv, NEW e \in ToolInteractions, Answered(e)
  PROVE  e.result = Service[e.key] /\ e.result # None
BY NoneFresh DEF IInv, CacheTrue, Answered, Factual, Fresh

LEMMA CacheTrueStep ==
  ASSUME IInv, NEW e \in ToolInteractions, e.key \in CallKeys, Refused(e) \/ Answered(e)
  PROVE  CacheTrue'
<1>1. CASE Refused(e)
  BY <1>1 DEF IInv, CacheTrue, Refused
<1>2. CASE Answered(e)
  BY <1>2, AnswerTrue DEF IInv, TypeOK, CacheTrue, Answered
<1> QED BY <1>1, <1>2

LEMMA DetailsStep ==
  ASSUME IInv, NEW e \in ToolInteractions, e.key \in CallKeys, Refused(e) \/ Answered(e)
  PROVE  DetailsTrue' /\ ProfileMatchesOwner'
<1>0. cases \in [Orders -> CaseStates] /\ e.key \in Keys
  BY DEF IInv, TypeOK, ToolInteractions
<1>1. CASE Refused(e)
  BY <1>1 DEF IInv, DetailsTrue, ProfileMatchesOwner, Refused
<1>2. CASE Answered(e)
  <2> SUFFICES ASSUME NEW o \in Orders
               PROVE  /\ cases'[o].verified_order # None =>
                           \E k \in DetailsKeys(o) : cases'[o].verified_order = Service[k]
                      /\ cases'[o].verified_user # None =>
                           /\ cases'[o].verified_order # None
                           /\ cases'[o].verified_order.user_id = cases'[o].verified_user.user_id
    BY DEF DetailsTrue, ProfileMatchesOwner
  <2> DEFINE details == e.key.name = "get_order_details" /\ e.key.order = o
                        /\ e.result.error = None
  <2>1. /\ cases'[o].verified_order = IF details THEN e.result ELSE cases[o].verified_order
        /\ cases'[o].verified_user # cases[o].verified_user =>
             cases'[o].verified_user = e.result /\ OwnedBy(cases[o], e.result.user_id)
    BY <1>0, <1>2, ApplyFields DEF Answered
  <2>2. /\ cases[o].verified_order # None =>
             \E k \in DetailsKeys(o) : cases[o].verified_order = Service[k]
        /\ cases[o].verified_user # None =>
             /\ cases[o].verified_order # None
             /\ cases[o].verified_order.user_id = cases[o].verified_user.user_id
    BY DEF IInv, DetailsTrue, ProfileMatchesOwner
  <2>3. details => e.key \in DetailsKeys(o) /\ e.result = Service[e.key] /\ e.result # None
    BY <1>0, <1>2, AnswerTrue DEF DetailsKeys, Answered
  \* Known details can only be answered again with the same details.
  <2>4. cases[o].verified_order # None => cases'[o].verified_order = cases[o].verified_order
    BY <2>1, <2>2, <2>3, ServiceAssumption
  <2> QED BY <2>1, <2>2, <2>3, <2>4 DEF OwnedBy
<1> QED BY <1>1, <1>2

-----------------------------------------------------------------------------
(* A field that holds the last answer of a tool, as a property of any      *)
(* history, and what appending an entry does to it.                        *)

Answers(entry, name, o) ==
  /\ entry.outcome \in Factual /\ entry.result.error = None
  /\ entry.key.name = name /\ entry.key.order = o

LastIn(h, i, name, o) ==
  /\ Answers(h[i], name, o)
  /\ \A j \in (i + 1) .. Len(h) : ~Answers(h[j], name, o)

Mirrors(h, name, o, field) ==
  IF field = None THEN \A i \in DOMAIN h : ~LastIn(h, i, name, o)
  ELSE \E i \in DOMAIN h : LastIn(h, i, name, o) /\ h[i].result = field

LEMMA AppendMirrors ==
  ASSUME NEW h \in Seq(ToolInteractions), NEW e \in ToolInteractions,
         NEW name, NEW o, NEW field, Mirrors(h, name, o, field),
         Answers(e, name, o) => e.result # None
  PROVE  Mirrors(Append(h, e), name, o, IF Answers(e, name, o) THEN e.result ELSE field)
<1> DEFINE g == Append(h, e)
<1>n. PICK m \in Nat : m = Len(h)
  OBVIOUS
<1>h. /\ DOMAIN h = 1 .. m /\ DOMAIN g = 1 .. (m + 1) /\ Len(g) = m + 1
      /\ g[m + 1] = e /\ \A i \in 1 .. m : g[i] = h[i]
  BY <1>n
<1> HIDE DEF g
<1>1. CASE Answers(e, name, o)
  <2>1. m + 1 \in 1 .. (m + 1) /\ (m + 1 + 1) .. (m + 1) = {}
    OBVIOUS
  <2>2. LastIn(g, m + 1, name, o) /\ g[m + 1].result = e.result
    BY <1>1, <1>h, <2>1 DEF LastIn
  <2> QED BY <1>1, <1>h, <2>1, <2>2 DEF Mirrors, g
<1>2. CASE ~Answers(e, name, o)
  <2>1. ~LastIn(g, m + 1, name, o)
    BY <1>2, <1>h DEF LastIn
  <2>2. ASSUME NEW i \in 1 .. m PROVE LastIn(g, i, name, o) <=> LastIn(h, i, name, o)
    <3>1. \A j \in (i + 1) .. (m + 1) : j = m + 1 \/ (j \in (i + 1) .. m /\ j \in 1 .. m)
      OBVIOUS
    <3>2. (i + 1) .. m \subseteq (i + 1) .. (m + 1) /\ (i + 1) .. m \subseteq 1 .. m
      OBVIOUS
    <3> QED BY <1>2, <1>n, <1>h, <3>1, <3>2 DEF LastIn
  <2>3. Mirrors(g, name, o, field)
    BY <1>h, <2>1, <2>2 DEF Mirrors
  <2> QED BY <1>2, <2>3 DEF g
<1> QED BY <1>1, <1>2

LEMMA EvidenceStep ==
  ASSUME IInv, NEW e \in ToolInteractions, e.key \in CallKeys, Refused(e) \/ Answered(e)
  PROVE  EvidenceIsLastAnswer'
<1>0. /\ tool_history \in Seq(ToolInteractions) /\ cases \in [Orders -> CaseStates]
      /\ e.key \in Keys
      /\ tool_history' = Append(tool_history, e)
  BY DEF IInv, TypeOK, Refused, Answered, ToolInteractions
<1> SUFFICES ASSUME NEW o \in Orders
             PROVE  /\ Mirrors(tool_history', "get_order_details", o, cases'[o].verified_order)
                    /\ Mirrors(tool_history', "check_return_policy", o, cases'[o].policy_result)
                    /\ Mirrors(tool_history', "process_refund", o, cases'[o].refund_result)
  BY DEF EvidenceIsLastAnswer, FieldIsLastAnswer, LastAnswer, FactualAt, Mirrors, LastIn,
         Answers
<1>1. /\ Mirrors(tool_history, "get_order_details", o, cases[o].verified_order)
      /\ Mirrors(tool_history, "check_return_policy", o, cases[o].policy_result)
      /\ Mirrors(tool_history, "process_refund", o, cases[o].refund_result)
  BY DEF IInv, EvidenceIsLastAnswer, FieldIsLastAnswer, LastAnswer, FactualAt, Mirrors,
         LastIn, Answers
<1>2. e.outcome \in Factual => Answered(e) /\ e.result # None
  BY AnswerTrue DEF Refused
<1>3. /\ cases'[o].verified_order =
           IF Answers(e, "get_order_details", o) THEN e.result ELSE cases[o].verified_order
      /\ cases'[o].policy_result =
           IF Answers(e, "check_return_policy", o) THEN e.result ELSE cases[o].policy_result
      /\ cases'[o].refund_result =
           IF Answers(e, "process_refund", o) THEN e.result ELSE cases[o].refund_result
  <2>1. CASE Refused(e)
    BY <2>1 DEF Refused, Answers
  <2>2. CASE Answered(e)
    BY <1>0, <2>2, ApplyFields DEF Answered, Answers
  <2> QED BY <2>1, <2>2
<1>4. \A name : Answers(e, name, o) => e.result # None
  BY <1>2 DEF Answers
<1> QED BY <1>0, <1>1, <1>3, <1>4, AppendMirrors

LEMMA RefundStep ==
  ASSUME IInv, NEW e \in ToolInteractions, e.key \in CallKeys, Refused(e) \/ Answered(e)
  PROVE  RefundPrecondition'
<1> USE DEF PolicyAnswer, FactualAt
<1> DEFINE n == Len(tool_history) + 1
<1>0. /\ tool_history \in Seq(ToolInteractions) /\ Len(tool_history) \in Nat
      /\ tool_history' = Append(tool_history, e)
  BY DEF IInv, TypeOK, Refused, Answered
<1> SUFFICES ASSUME NEW i \in DOMAIN tool_history', FactualAt(i)',
                    tool_history'[i].key.name = "process_refund"
             PROVE  \E j \in 1 .. (i - 1) :
                      /\ PolicyAnswer(j, tool_history[i].key.order)'
                      /\ tool_history'[j].result.eligible
                      /\ \A k \in (j + 1) .. (i - 1) :
                           ~PolicyAnswer(k, tool_history[i].key.order)'
  BY DEF RefundPrecondition
<1>1. CASE i \in DOMAIN tool_history
  <2>1. tool_history'[i] = tool_history[i] /\ i \in 1 .. Len(tool_history)
    BY <1>0, <1>1, Grow
  <2>2. PICK j \in 1 .. (i - 1) :
          /\ PolicyAnswer(j, tool_history[i].key.order)
          /\ tool_history[j].result.eligible
          /\ \A k \in (j + 1) .. (i - 1) : ~PolicyAnswer(k, tool_history[i].key.order)
    BY <1>1, <2>1 DEF IInv, RefundPrecondition
  <2>3. \A k \in 1 .. (i - 1) : tool_history'[k] = tool_history[k]
    BY <1>0, <2>1, Grow
  <2> QED BY <2>1, <2>2, <2>3
<1>2. CASE i = n
  <2>1. tool_history'[i] = e
    BY <1>0, <1>2, Grow
  <2>2. Answered(e) /\ RefundPermitted(e.key)
    BY <2>1 DEF Refused, Answered
  <2>3. PICK j \in DOMAIN tool_history :
          /\ PolicyAnswer(j, e.key.order)
          /\ tool_history[j].result.eligible
          /\ \A k \in (j + 1) .. Len(tool_history) : ~PolicyAnswer(k, e.key.order)
    BY <2>2 DEF RefundPermitted, IInv, EvidenceIsLastAnswer, FieldIsLastAnswer, LastAnswer
  <2>4. \A k \in 1 .. (i - 1) : tool_history'[k] = tool_history[k]
    BY <1>0, <1>2, Grow
  <2> QED BY <1>0, <1>2, <2>1, <2>3, <2>4
<1> QED BY <1>0, <1>1, <1>2, Grow

LEMMA TerminalStep ==
  ASSUME IInv, NEW e \in ToolInteractions, e.key \in CallKeys, Refused(e) \/ Answered(e)
  PROVE  TerminalMarked'
<1> USE DEF TerminalAnswer, FactualAt
<1> DEFINE Terminal(entry) ==
             /\ entry.outcome \in Factual
             /\ entry.key.name \in OrderScoped /\ entry.key.order \in Orders
             /\ entry.result.error \in TerminalErrors
           h == tool_history'
<1>0. /\ tool_history \in Seq(ToolInteractions) /\ cases \in [Orders -> CaseStates]
      /\ e.key \in Keys
      /\ tool_history' = Append(tool_history, e)
  BY DEF IInv, TypeOK, Refused, Answered, ToolInteractions
<1>1. \A o \in Orders : cases[o].terminal_error # None => cases'[o].terminal_error # None
  BY <1>0, ApplyFields, NoneFresh DEF Refused, Answered
<1> SUFFICES ASSUME NEW i \in DOMAIN h, Terminal(h[i])
             PROVE  cases'[h[i].key.order].terminal_error # None
  BY DEF TerminalMarked
<1>2. CASE i \in DOMAIN tool_history
  <2>1. h[i] = tool_history[i]
    BY <1>0, <1>2, Grow
  <2> QED BY <1>1, <1>2, <2>1 DEF IInv, TerminalMarked
<1>3. CASE h[i] = e
  <2>1. Answered(e)
    BY <1>3 DEF Refused
  <2> QED BY <1>0, <1>3, <2>1, ApplyFields, NoneFresh DEF Answered
<1> QED BY <1>0, <1>2, <1>3, Grow

LEMMA TerminalStopStep ==
  ASSUME IInv, NEW e \in ToolInteractions, e.key \in CallKeys, Refused(e) \/ Answered(e)
  PROVE  TerminalCaseStopped'
<1> DEFINE Terminal(entry) ==
             /\ entry.outcome \in Factual
             /\ entry.key.name \in OrderScoped /\ entry.key.order \in Orders
             /\ entry.result.error \in TerminalErrors
           Stops(first, second) ==
             /\ Terminal(first)
             /\ second.key.name \in OrderScoped /\ second.key.order = first.key.order
             => second.outcome \notin Factual \cup {"SYSTEM_FAILURE"}
           h == tool_history'
<1>0. /\ tool_history \in Seq(ToolInteractions)
      /\ tool_history' = Append(tool_history, e)
  BY DEF IInv, TypeOK, Refused, Answered
<1>n. PICK m \in Nat : m = Len(tool_history)
  BY <1>0
<1>h. /\ DOMAIN tool_history = 1 .. m /\ DOMAIN h = 1 .. (m + 1)
      /\ h[m + 1] = e /\ \A i \in 1 .. m : h[i] = tool_history[i]
  BY <1>0, <1>n, Grow
<1> SUFFICES ASSUME NEW i \in 1 .. (m + 1), NEW j \in 1 .. (m + 1), i < j
             PROVE  Stops(h[i], h[j])
  BY <1>h DEF TerminalCaseStopped, FactualAt
<1>1. CASE j \in 1 .. m
  BY <1>1, <1>h DEF IInv, TerminalCaseStopped, FactualAt
<1>2. CASE j = m + 1
  <2>1. i \in 1 .. m /\ h[i] = tool_history[i] /\ h[j] = e
    BY <1>2, <1>h
  <2>2. Terminal(h[i]) => cases[h[i].key.order].terminal_error # None
    BY <1>h, <2>1 DEF IInv, TerminalMarked, TerminalAnswer, FactualAt
  <2>3. e.outcome \in Factual \cup {"SYSTEM_FAILURE"} => ~CaseTerminal(e.key)
    BY DEF Refused, Answered
  <2> QED BY <2>1, <2>2, <2>3 DEF CaseTerminal
<1> QED BY <1>1, <1>2

-----------------------------------------------------------------------------
(* The theorems.                                                           *)

\* Every branch of execute is a refusal or an answer, and a new turn changes
\* nothing: the invariant is inductive.
LEMMA NextInv == IInv /\ [ExecutorNext]_executorVars => IInv'
<1> SUFFICES ASSUME IInv, [ExecutorNext]_executorVars PROVE IInv'
  OBVIOUS
<1>1. ASSUME NEW call \in Calls, Execute(call) PROVE IInv'
  <2>1. PICK e \in ToolInteractions : e.key = call.key /\ (Refused(e) \/ Answered(e))
    BY <1>1, Branches DEF IInv
  <2>2. e.key \in CallKeys
    BY <2>1, CallTypes
  <2>3. TypeOK' /\ HistoryAnswered'
    BY <2>1, <2>2, TypeStep, HistoryStep DEF IInv
  <2>4. CacheCovers' /\ CacheBacked' /\ NoReexecution'
    BY <2>1, <2>2, CacheStep, NoReexecutionStep
  <2>5. EvidenceIsLastAnswer' /\ RefundPrecondition'
    BY <2>1, <2>2, EvidenceStep, RefundStep
  <2>6. TerminalMarked' /\ TerminalCaseStopped'
    BY <2>1, <2>2, TerminalStep, TerminalStopStep
  <2>7. CacheTrue' /\ DetailsTrue' /\ ProfileMatchesOwner'
    BY <2>1, <2>2, CacheTrueStep, DetailsStep
  <2> QED BY <2>3, <2>4, <2>5, <2>6, <2>7 DEF IInv
<1>2. CASE NewTurn \/ UNCHANGED executorVars
  <2>1. UNCHANGED executorVars
    BY <1>2, NewTurnStutters
  <2> QED BY <2>1
       DEF executorVars, IInv, TypeOK, HistoryAnswered, CacheCovers, CacheBacked,
           CacheTrue, DetailsTrue, EvidenceIsLastAnswer, FieldIsLastAnswer, LastAnswer,
           ProfileMatchesOwner, TerminalMarked, TerminalAnswer, RefundPrecondition,
           NoReexecution, TerminalCaseStopped, PolicyAnswer, FactualAt
<1> QED BY <1>1, <1>2 DEF ExecutorNext

LEMMA Invariance == ExecutorSpec => []IInv
BY InitInv, NextInv, PTL DEF ExecutorSpec

\* The evidence, the history and the cache always have their types.
THEOREM TypeCorrect == ExecutorSpec => []TypeOK
<1>1. IInv => TypeOK
  BY DEF IInv
<1> QED BY <1>1, Invariance, PTL

\* The refund guardrail: every refund that reached the tool or the cache was
\* licensed by the last policy answer for its own order.
THEOREM RefundSafety == ExecutorSpec => []RefundPrecondition
<1>1. IInv => RefundPrecondition
  BY DEF IInv
<1> QED BY <1>1, Invariance, PTL

\* The tool cache: over all the turns of a session no call the tools answered
\* is executed again.
THEOREM ExecutedOnce == ExecutorSpec => []NoReexecution
<1>1. IInv => NoReexecution
  BY DEF IInv
<1> QED BY <1>1, Invariance, PTL

\* The terminal-error guardrail: an order reported not found gets no further
\* order-scoped call through.
THEOREM TerminalStops == ExecutorSpec => []TerminalCaseStopped
<1>1. IInv => TerminalCaseStopped
  BY DEF IInv
<1> QED BY <1>1, Invariance, PTL

\* Conversation and evidence agree: what a case holds as the answer of a tool is
\* the last answer for its order that the model was shown.
THEOREM EvidenceCurrent == ExecutorSpec => []EvidenceIsLastAnswer
<1>1. IInv => EvidenceIsLastAnswer
  BY DEF IInv
<1> QED BY <1>1, Invariance, PTL

\* No customer's profile is attached to another customer's order.
THEOREM ProfilesOwned == ExecutorSpec => []ProfileMatchesOwner
<1>1. IInv => ProfileMatchesOwner
  BY DEF IInv
<1> QED BY <1>1, Invariance, PTL

LEMMA KeepStep == IInv /\ [ExecutorNext]_executorVars => [NothingForgotten]_executorVars
<1> SUFFICES ASSUME IInv, ExecutorNext
             PROVE  NothingForgotten \/ UNCHANGED executorVars
  OBVIOUS
<1>1. ASSUME NEW call \in Calls, Execute(call) PROVE NothingForgotten
  <2>1. PICK e \in ToolInteractions : e.key = call.key /\ (Refused(e) \/ Answered(e))
    BY <1>1, Branches DEF IInv
  <2>2. /\ e.key \in CallKeys /\ e.key \in Keys
        /\ cases \in [Orders -> CaseStates]
        /\ cache \in [CallKeys -> ToolResults \cup {None}]
    BY <2>1, CallTypes DEF IInv, TypeOK
  <2>3. CASE Refused(e)
    <3>1. \A o \in Orders : cases[o] = [cases[o] EXCEPT !.verified_user = cases[o].verified_user]
      BY <2>2 DEF CaseStates
    <3> QED BY <2>3, <3>1 DEF Refused, NothingForgotten
  <2>4. CASE Answered(e)
    <3>1. \A k \in CallKeys : cache[k] # None => cache'[k] = cache[k]
      BY <2>2, <2>4 DEF Answered, Factual, Fresh
    <3>2. ASSUME NEW o \in Orders
          PROVE  /\ cases[o].verified_order # None => cases'[o].verified_order # None
                 /\ cases[o].policy_result # None => cases'[o].policy_result # None
                 /\ cases[o].refund_result # None => cases'[o].refund_result # None
      BY <2>2, <2>4, ApplyFields, NoneFresh DEF Answered
    <3>3. ASSUME NEW o \in Orders, cases[o].terminal_error # None
          PROVE  cases'[o] = [cases[o] EXCEPT !.verified_user = cases'[o].verified_user]
      <4>1. ~(e.key.name \in OrderScoped /\ e.key.order = o)
        BY <2>4, <3>3 DEF Answered, CaseTerminal
      <4>2. cases'[o] \in {cases[o], [cases[o] EXCEPT !.verified_user = e.result]}
        BY <2>4, <4>1 DEF Answered, ApplyTrustedResult
      <4> QED BY <2>2, <4>2 DEF CaseStates
    <3> QED BY <3>1, <3>2, <3>3 DEF NothingForgotten
  <2> QED BY <2>1, <2>3, <2>4
<1>2. CASE NewTurn
  BY <1>2, NewTurnStutters
<1> QED BY <1>1, <1>2 DEF ExecutorNext

\* Nothing the tools answered is forgotten or replaced by an absence, by any step
\* of any turn.
THEOREM NothingLost == ExecutorSpec => EvidenceKept
BY KeepStep, Invariance, PTL DEF ExecutorSpec, EvidenceKept

-----------------------------------------------------------------------------
(* The executor implements RefundAuthority.                                *)

\* An answer can change the licence of no order but its own.
LEMMA LicenceOfOthers ==
  ASSUME IInv, NEW e \in ToolInteractions, Answered(e), NEW o \in Orders, o # e.key.order
  PROVE  o \in LicensedOrders' <=> o \in LicensedOrders
<1>1. e.key \in Keys /\ cases \in [Orders -> CaseStates]
  BY DEF IInv, TypeOK, ToolInteractions
<1>2. /\ cases'[o].policy_result = cases[o].policy_result
      /\ cases'[o].terminal_error = cases[o].terminal_error
  BY <1>1, ApplyFields DEF Answered
<1> QED BY <1>2 DEF LicensedOrders

\* A step that answers no new refund request licenses or revokes one order, or
\* changes nothing the authority speaks of.
LEMMA LicenceStep ==
  ASSUME IInv, NEW e \in ToolInteractions, Answered(e), ProcessedKeys' = ProcessedKeys
  PROVE  \/ \E o \in Orders : Authority!License(o) \/ Authority!Revoke(o)
         \/ UNCHANGED <<LicensedOrders, ProcessedKeys>>
<1> DEFINE o == e.key.order
<1>1. LicensedOrders \subseteq Orders /\ LicensedOrders' \subseteq Orders
  BY DEF LicensedOrders
<1>2. CASE o \in LicensedOrders' /\ o \notin LicensedOrders
  <2>1. LicensedOrders' = LicensedOrders \cup {o}
    BY <1>1, <1>2, LicenceOfOthers
  <2> QED BY <1>1, <1>2, <2>1 DEF Authority!License
<1>3. CASE o \notin LicensedOrders' /\ o \in LicensedOrders
  <2>1. LicensedOrders' = LicensedOrders \ {o}
    BY <1>1, <1>3, LicenceOfOthers
  <2> QED BY <1>1, <1>3, <2>1 DEF Authority!Revoke
<1>4. CASE o \in LicensedOrders' <=> o \in LicensedOrders
  <2>1. LicensedOrders' = LicensedOrders
    BY <1>1, <1>4, LicenceOfOthers
  <2> QED BY <2>1
<1> QED BY <1>2, <1>3, <1>4

\* A refund request that reaches the tool and is answered is new and licensed.
LEMMA ProcessStep ==
  ASSUME IInv, NEW e \in ToolInteractions, Answered(e),
         e.key \in RefundKeys, e.outcome \in Fresh
  PROVE  Authority!Process(e.key)
<1> DEFINE o == e.key.order
<1>0. /\ e.key \in Keys /\ e.key \in CallKeys /\ e.key.name = "process_refund"
      /\ cases \in [Orders -> CaseStates]
      /\ tool_history \in Seq(ToolInteractions)
      /\ tool_history' = Append(tool_history, e)
  BY DEF IInv, TypeOK, Answered, RefundKeys, ToolInteractions
<1>1. RefundPermitted(e.key) /\ ~CaseTerminal(e.key)
  BY <1>0 DEF Answered
<1>2. o \in LicensedOrders
  BY <1>0, <1>1 DEF RefundPermitted, CaseTerminal, LicensedOrders, OrderScoped, ToolNames
<1>3. e.key \notin ProcessedKeys
  <2> SUFFICES ASSUME NEW i \in DOMAIN tool_history, tool_history[i].outcome \in Fresh,
                      tool_history[i].key = e.key
               PROVE  FALSE
    BY DEF ProcessedKeys
  <2>1. cache[e.key] = tool_history[i].result /\ tool_history[i].result # None
    BY NoneFresh DEF IInv, CacheCovers, HistoryAnswered, FactualAt, Factual, Fresh
  <2> QED BY <2>1 DEF Answered
<1>4. ProcessedKeys' = ProcessedKeys \cup {e.key}
  BY <1>0, Grow DEF ProcessedKeys
<1>5. LicensedOrders' \in {LicensedOrders, LicensedOrders \ {o}}
  <2>1. cases'[o].policy_result = cases[o].policy_result
    BY <1>0, <1>2, ApplyFields DEF Answered, LicensedOrders
  <2>2. /\ \A p \in Orders \ {o} : p \in LicensedOrders' <=> p \in LicensedOrders
        /\ LicensedOrders \subseteq Orders /\ LicensedOrders' \subseteq Orders
    BY LicenceOfOthers DEF LicensedOrders
  <2> QED BY <1>2, <2>2
<1> QED BY <1>0, <1>2, <1>3, <1>4, <1>5 DEF Authority!Process

LEMMA AuthorityStep ==
  IInv /\ [ExecutorNext]_executorVars => [Authority!Next]_<<LicensedOrders, ProcessedKeys>>
<1> SUFFICES ASSUME IInv, [ExecutorNext]_executorVars
             PROVE  Authority!Next \/ UNCHANGED <<LicensedOrders, ProcessedKeys>>
  OBVIOUS
<1>1. ASSUME NEW call \in Calls, Execute(call)
      PROVE  Authority!Next \/ UNCHANGED <<LicensedOrders, ProcessedKeys>>
  <2>1. PICK e \in ToolInteractions : e.key = call.key /\ (Refused(e) \/ Answered(e))
    BY <1>1, Branches DEF IInv
  <2>2. /\ tool_history \in Seq(ToolInteractions)
        /\ tool_history' = Append(tool_history, e)
    BY <2>1 DEF IInv, TypeOK, Refused, Answered
  <2>3. ~(e.key \in RefundKeys /\ e.outcome \in Fresh) => ProcessedKeys' = ProcessedKeys
    BY <2>2, Grow DEF ProcessedKeys
  <2>4. CASE Refused(e)
    <3>1. ProcessedKeys' = ProcessedKeys
      BY <2>3, <2>4 DEF Refused, Factual, Fresh
    <3> QED BY <2>4, <3>1 DEF Refused, LicensedOrders
  <2>5. CASE Answered(e) /\ ~(e.key \in RefundKeys /\ e.outcome \in Fresh)
    BY <2>3, <2>5, LicenceStep DEF Authority!Next
  <2>6. CASE Answered(e) /\ e.key \in RefundKeys /\ e.outcome \in Fresh
    BY <2>6, ProcessStep DEF Authority!Next
  <2> QED BY <2>1, <2>4, <2>5, <2>6
<1>2. CASE NewTurn \/ UNCHANGED executorVars
  <2>1. UNCHANGED executorVars
    BY <1>2, NewTurnStutters
  <2> QED BY <2>1 DEF executorVars, LicensedOrders, ProcessedKeys
<1> QED BY <1>1, <1>2 DEF ExecutorNext

\* Whatever the model asks for, a refund request reaches process_refund only
\* for an order licensed at that moment, and at most once.
THEOREM RefundsAuthorised == ExecutorSpec => ImplementsRefundAuthority
<1>1. ExecutorInit => Authority!Init
  BY DEF ExecutorInit, EmptyCase, LicensedOrders, ProcessedKeys, Authority!Init
<1> QED BY <1>1, AuthorityStep, Invariance, PTL
        DEF ExecutorSpec, ImplementsRefundAuthority, Authority!Spec
=============================================================================

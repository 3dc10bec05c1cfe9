----------------------------- MODULE OutcomeProofs -----------------------------
(***************************************************************************)
(* Lemmas about the operators of Outcome, for every evidence and every     *)
(* draft: what the projector, the validator and the fail-safe builder say  *)
(* about one order, and how their three copies of the mapping from         *)
(* evidence to outcome agree.                                              *)
(***************************************************************************)
EXTENDS ToolExecutorProofs, CustomerText, FiniteSetTheorems

-----------------------------------------------------------------------------
(* Listing a finite set.                                                   *)

\* SetToSeq lists every element of a finite set exactly once.
LEMMA SetListed ==
  ASSUME NEW S, IsFiniteSet(S)
  PROVE  /\ Cardinality(S) \in Nat
         /\ SetToSeq(S) \in [1 .. Cardinality(S) -> S]
         /\ \A i, j \in 1 .. Cardinality(S) : SetToSeq(S)[i] = SetToSeq(S)[j] => i = j
         /\ \A x \in S : \E i \in 1 .. Cardinality(S) : SetToSeq(S)[i] = x
<1> DEFINE n == Cardinality(S)
           s == SetToSeq(S)
<1>1. n \in Nat /\ ExistsBijection(1 .. n, S)
  BY FS_CardinalityType
<1>2. \E f \in [1 .. n -> S] : IsInjective(f)
  BY <1>1 DEF ExistsBijection, Bijection, Injection
<1>3. s \in [1 .. n -> S] /\ IsInjective(s)
  BY <1>2 DEF SetToSeq
<1>4. s \in Injection(1 .. n, S)
  BY <1>3 DEF Injection
<1>5. Cardinality(1 .. n) = n
  <2>1. n >= 1 => Cardinality(1 .. n) = n - 1 + 1
    BY <1>1, FS_Interval
  <2>2. n < 1 => Cardinality(1 .. n) = 0 /\ n = 0
    BY <1>1, FS_Interval
  <2> QED BY <1>1, <2>1, <2>2
<1>6. s \in Surjection(1 .. n, S)
  BY <1>4, <1>5, FS_Injection
<1>7. \A i, j \in 1 .. n : s[i] = s[j] => i = j
  BY <1>3 DEF IsInjective
<1>8. \A x \in S : \E i \in 1 .. n : s[i] = x
  BY <1>6 DEF Surjection
<1> QED BY <1>1, <1>3, <1>7, <1>8

\* A turn touches finitely many orders.
LEMMA TouchedFinite ==
  ASSUME NEW slice \in Seq(ToolInteractions)
  PROVE  IsFiniteSet(TouchedCaseIds(slice)) /\ TouchedCaseIds(slice) \subseteq Orders
<1> DEFINE D == 1 .. Len(slice)
           f == [i \in D |-> slice[i].key.order]
           T == {f[i] : i \in D}
<1>1. IsFiniteSet(D)
  BY FS_Interval
<1>2. f \in Surjection(D, T)
  BY DEF Surjection
<1>3. IsFiniteSet(T)
  BY <1>1, <1>2, FS_Surjection
<1>4. TouchedCaseIds(slice) \subseteq T
  BY DEF TouchedCaseIds
<1> QED BY <1>3, <1>4, FS_Subset DEF TouchedCaseIds

-----------------------------------------------------------------------------
(* One order: what its evidence projects to.                               *)

LEMMA CaseFields ==
  ASSUME NEW case \in CaseStates
  PROVE  /\ TrustedVerdict(case) \in Verdicts \cup {None}
         /\ case.terminal_error \in ErrorCodes \cup {None}
         /\ case.refund_result # None =>
              /\ case.refund_result \in ToolResults
              /\ case.refund_result.refund \in Refunds \cup {None}
BY DEF CaseStates, ToolResults, TrustedVerdict, ErrorCodes

LEMMA BareTyped ==
  ASSUME NEW o \in Orders, NEW decision \in Decisions
  PROVE  Bare(o, decision) \in CaseResults /\ Bare(o, decision).order_id = o
BY DEF Bare, CaseResults

LEMMA OutcomesTyped ==
  ASSUME NEW o \in Orders, NEW case \in CaseStates
  PROVE  /\ \A decision \in Decisions, refund \in Refunds \cup {None},
               reasons \in SUBSET ReasonLabels :
              RefundOutcome(o, case, decision, refund, reasons) \in CaseResults
         /\ TerminalOutcome(o, case) \in CaseResults
         /\ IneligibleOutcome(o, case) \in CaseResults
BY CaseFields DEF RefundOutcome, TerminalOutcome, IneligibleOutcome, Bare, CaseResults,
                  Decisions

\* None is no case result.
LEMMA CaseResultNotNone ==
  ASSUME NEW o \in Orders, NEW case \in CaseStates
  PROVE  /\ ProjectCaseResult(o, case) \in CaseResults \cup {None}
         /\ CaseResultFromEvidence(o, case) \in CaseResults
<1>1. CASE TrustedStatus(case) = "APPROVED"
  <2>1. case.refund_result # None /\ case.refund_result.refund \in Refunds \cup {None}
    BY <1>1, CaseFields, NoneAssumption DEF TrustedStatus, RefundStatuses
  <2> QED
    BY <1>1, <2>1, OutcomesTyped
       DEF ProjectCaseResult, CaseResultFromEvidence, Decisions, ReasonLabels
<1>2. CASE TrustedStatus(case) # "APPROVED"
  <2>1. ProjectCaseResult(o, case) \in CaseResults \cup {None}
    BY <1>2, OutcomesTyped DEF ProjectCaseResult, Decisions, ReasonLabels
  <2>2. [Bare(o, "HUMAN_ESCALATION") EXCEPT !.escalation_reasons = {"UNRESOLVED_AT_FAILURE"}]
          \in CaseResults
    BY DEF Bare, CaseResults, Decisions, ReasonLabels
  <2> QED
    BY <1>2, <2>1, <2>2, OutcomesTyped DEF CaseResultFromEvidence, Decisions, ReasonLabels
<1> QED BY <1>1, <1>2

\* A case is settled one way: a terminal error excludes a policy answer and a
\* refund, as NotFoundAssumption makes it.
SettledOneWay(case) ==
  case.terminal_error # None => case.policy_result = None /\ case.refund_result = None

\* The three readings of the evidence agree: what the projector projects is
\* resolved for validator and renderer, is what the fail-safe mapping builds,
\* and passes the validator.
LEMMA ProjectionAgrees ==
  ASSUME NEW o \in Orders, NEW case \in CaseStates, ProjectCaseResult(o, case) # None
  PROVE  LET p == ProjectCaseResult(o, case) IN
         /\ p.order_id = o
         /\ Resolved(case)
         /\ p = CaseResultFromEvidence(o, case)
         /\ SettledOneWay(case) => CaseConsistent(p, case)
<1> DEFINE p == ProjectCaseResult(o, case)
<1>1. CASE TrustedStatus(case) \in RefundStatuses
  <2>1. case.refund_result # None
    BY <1>1, NoneAssumption DEF TrustedStatus, RefundStatuses
  <2>2. p.order_id = o /\ p = CaseResultFromEvidence(o, case)
    BY <1>1, <2>1 DEF ProjectCaseResult, CaseResultFromEvidence, RefundOutcome, Bare,
                      RefundStatuses
  <2>3. ASSUME SettledOneWay(case) PROVE CaseConsistent(p, case)
    BY <1>1, <2>1, <2>3
       DEF ProjectCaseResult, RefundOutcome, Bare, CaseConsistent, SettledOneWay,
           RefundStatuses
  <2> QED BY <2>1, <2>2, <2>3 DEF Resolved
<1>2. CASE case.refund_result = None /\ case.terminal_error # None
  <2>1. TrustedStatus(case) = None /\ TrustedStatus(case) \notin RefundStatuses
    BY <1>2, NoneAssumption DEF TrustedStatus
  <2>2. p = TerminalOutcome(o, case) /\ p = CaseResultFromEvidence(o, case)
    BY <1>2, <2>1 DEF ProjectCaseResult, CaseResultFromEvidence, RefundStatuses
  <2> QED
    BY <1>2, <2>1, <2>2
       DEF TerminalOutcome, Bare, CaseConsistent, Resolved, RefundStatuses, SettledOneWay,
           Ineligible
<1>3. CASE case.refund_result = None /\ case.terminal_error = None /\ Ineligible(case)
  <2>1. TrustedStatus(case) = None /\ TrustedStatus(case) \notin RefundStatuses
    BY <1>3, NoneAssumption DEF TrustedStatus
  <2>2. p = IneligibleOutcome(o, case) /\ p = CaseResultFromEvidence(o, case)
    BY <1>3, <2>1 DEF ProjectCaseResult, CaseResultFromEvidence, RefundStatuses
  <2> QED
    BY <1>3, <2>1, <2>2 DEF IneligibleOutcome, Bare, CaseConsistent, Resolved, RefundStatuses
<1> QED BY <1>1, <1>2, <1>3 DEF ProjectCaseResult, RefundStatuses

\* The fail-safe mapping: it reports a refund only with its approval, marks
\* exactly the unresolved cases for review, and passes the validator.
LEMMA FailSafeAgrees ==
  ASSUME NEW o \in Orders, NEW case \in CaseStates
  PROVE  LET f == CaseResultFromEvidence(o, case) IN
         /\ f.order_id = o
         /\ IsUnresolvedEscalation(f) <=> ~Resolved(case)
         /\ f.decision = "AUTO_REFUND_APPROVED" \/ f.refund # None =>
              TrustedStatus(case) = "APPROVED" /\ f.refund = case.refund_result.refund
         /\ SettledOneWay(case) => CaseConsistent(f, case)
<1> DEFINE f == CaseResultFromEvidence(o, case)
<1> USE DEF Bare
<1>1. CASE case.refund_result # None
  <2>1. CASE TrustedStatus(case) = "APPROVED"
    BY <1>1, <2>1
       DEF CaseResultFromEvidence, RefundOutcome, IsUnresolvedEscalation, Resolved,
           CaseConsistent, SettledOneWay
  <2>2. CASE TrustedStatus(case) = "ESCALATION_REQUIRED"
    BY <1>1, <2>2
       DEF CaseResultFromEvidence, RefundOutcome, IsUnresolvedEscalation, Resolved,
           CaseConsistent, SettledOneWay
  <2>3. CASE TrustedStatus(case) \notin {"APPROVED", "ESCALATION_REQUIRED"}
    <3>1. f = RefundOutcome(o, case, "REJECTED", None, {"TRUSTED"})
      BY <1>1, <2>3 DEF CaseResultFromEvidence
    <3> QED
      BY <1>1, <2>3, <3>1
         DEF RefundOutcome, IsUnresolvedEscalation, Resolved, CaseConsistent, SettledOneWay
  <2> QED BY <2>1, <2>2, <2>3
<1>2. CASE case.refund_result = None
  <2>0. TrustedStatus(case) = None /\ TrustedStatus(case) \notin RefundStatuses
    BY <1>2, NoneAssumption DEF TrustedStatus
  <2>1. CASE case.terminal_error # None
    <3>1. f = TerminalOutcome(o, case)
      BY <1>2, <2>0, <2>1 DEF CaseResultFromEvidence, RefundStatuses
    <3> QED
      BY <1>2, <2>0, <2>1, <3>1
         DEF TerminalOutcome, IsUnresolvedEscalation, Resolved, CaseConsistent,
             RefundStatuses, SettledOneWay, Ineligible
  <2>2. CASE case.terminal_error = None /\ Ineligible(case)
    <3>1. f = IneligibleOutcome(o, case)
      BY <1>2, <2>0, <2>2 DEF CaseResultFromEvidence, RefundStatuses
    <3> QED
      BY <1>2, <2>0, <2>2, <3>1
         DEF IneligibleOutcome, IsUnresolvedEscalation, Resolved, CaseConsistent,
             RefundStatuses
  <2>3. CASE case.terminal_error = None /\ ~Ineligible(case)
    <3>1. f = [Bare(o, "HUMAN_ESCALATION") EXCEPT
                 !.escalation_reasons = {"UNRESOLVED_AT_FAILURE"}]
      BY <1>2, <2>0, <2>3 DEF CaseResultFromEvidence, RefundStatuses
    <3> QED
      BY <1>2, <2>0, <2>3, <3>1
         DEF IsUnresolvedEscalation, Resolved, CaseConsistent, RefundStatuses
  <2> QED BY <2>1, <2>2, <2>3
<1> QED BY <1>1, <1>2

\* An accepted case reports a refund only with its approval, and a settled case
\* with the decision its evidence supports.
LEMMA AcceptedAgrees ==
  ASSUME NEW o \in Orders, NEW case \in CaseStates, NEW c, CaseConsistent(c, case)
  PROVE  /\ c.decision = "AUTO_REFUND_APPROVED" \/ c.refund # None =>
              TrustedStatus(case) = "APPROVED" /\ c.refund = case.refund_result.refund
         /\ ProjectCaseResult(o, case) # None =>
              c.decision = ProjectCaseResult(o, case).decision
<1>1. c.decision = "AUTO_REFUND_APPROVED" \/ c.refund # None =>
        TrustedStatus(case) = "APPROVED" /\ c.refund = case.refund_result.refund
  BY DEF CaseConsistent
<1>2. CASE TrustedStatus(case) \in RefundStatuses
  <2>1. CASE TrustedStatus(case) = "APPROVED"
    BY <2>1, <1>1 DEF CaseConsistent, ProjectCaseResult, RefundOutcome, Bare
  <2>2. CASE TrustedStatus(case) = "ESCALATION_REQUIRED"
    BY <2>2, <1>1 DEF CaseConsistent, ProjectCaseResult, RefundOutcome, Bare
  <2>3. CASE TrustedStatus(case) = "REJECTED"
    <3>1. ProjectCaseResult(o, case) = RefundOutcome(o, case, "REJECTED", None, {"TRUSTED"})
      <4>1. case.refund_result # None
        BY <2>3, NoneAssumption DEF TrustedStatus, RefundStatuses
      <4> QED BY <2>3, <4>1 DEF ProjectCaseResult
    <3>2. c.decision = "REJECTED"
      BY <2>3 DEF CaseConsistent
    <3> QED BY <1>1, <3>1, <3>2 DEF RefundOutcome, Bare
  <2> QED BY <1>2, <2>1, <2>2, <2>3 DEF RefundStatuses
<1>3. CASE TrustedStatus(case) \notin RefundStatuses
  BY <1>1, <1>3 DEF CaseConsistent, ProjectCaseResult, TerminalOutcome, IneligibleOutcome,
                    Bare, RefundStatuses
<1> QED BY <1>1, <1>2, <1>3

\* Every resolved case is known.
LEMMA ResolvedKnown ==
  ASSUME NEW case \in CaseStates, Resolved(case)
  PROVE  Known(case)
BY DEF Resolved, Known, EmptyCase, Ineligible

-----------------------------------------------------------------------------
(* The list of cases a result carries.                                     *)

LEMMA Concatenated ==
  ASSUME NEW S, NEW a \in Seq(S), NEW b \in Seq(S)
  PROVE  /\ a \o b \in Seq(S) /\ Len(a) \in Nat /\ Len(b) \in Nat
         /\ DOMAIN a = 1 .. Len(a) /\ DOMAIN b = 1 .. Len(b)
         /\ DOMAIN (a \o b) = 1 .. (Len(a) + Len(b))
         /\ \A i \in DOMAIN a : (a \o b)[i] = a[i]
         /\ \A i \in DOMAIN b : (a \o b)[Len(a) + i] = b[i]
         /\ \A i \in (Len(a) + 1) .. (Len(a) + Len(b)) :
              i - Len(a) \in DOMAIN b /\ (a \o b)[i] = b[i - Len(a)]
OBVIOUS

\* No two cases of the list are for the same order.
OneCasePerOrder(list) ==
  \A i, j \in DOMAIN list : i # j => list[i].order_id # list[j].order_id

\* CasesAt keeps exactly the cases at the given positions, each once.
LEMMA CasesKept ==
  ASSUME NEW list \in Seq(CaseResults), NEW P \in SUBSET DOMAIN list
  PROVE  /\ CasesAt(list, P) \in Seq(CaseResults)
         /\ \A i \in DOMAIN CasesAt(list, P) : \E j \in P : CasesAt(list, P)[i] = list[j]
         /\ \A j \in P : \E i \in DOMAIN CasesAt(list, P) : CasesAt(list, P)[i] = list[j]
         /\ OneCasePerOrder(list) => OneCasePerOrder(CasesAt(list, P))
<1> DEFINE s == SetToSeq(P)
           n == Cardinality(P)
<1>1. IsFiniteSet(P)
  <2>1. DOMAIN list = 1 .. Len(list) /\ Len(list) \in Nat
    OBVIOUS
  <2>2. IsFiniteSet(1 .. Len(list)) /\ P \in SUBSET (1 .. Len(list))
    BY <2>1, FS_Interval
  <2> QED BY <2>2, FS_Subset
<1>2. /\ n \in Nat /\ s \in [1 .. n -> P]
      /\ \A i, j \in 1 .. n : s[i] = s[j] => i = j
      /\ \A x \in P : \E i \in 1 .. n : s[i] = x
  BY <1>1, SetListed
<1>3. CasesAt(list, P) = [i \in 1 .. n |-> list[s[i]]]
  BY <1>2 DEF CasesAt
<1>4. \A i \in 1 .. n : list[s[i]] \in CaseResults
  BY <1>2
<1>5. CasesAt(list, P) \in Seq(CaseResults) /\ DOMAIN CasesAt(list, P) = 1 .. n
  BY <1>2, <1>3, <1>4
<1>6. \A i \in 1 .. n : s[i] \in P /\ CasesAt(list, P)[i] = list[s[i]]
  BY <1>2, <1>3
<1>7. \A j \in P : \E i \in 1 .. n : CasesAt(list, P)[i] = list[j]
  <2> HIDE DEF s, n
  <2> QED BY <1>2, <1>6
<1>8. ASSUME OneCasePerOrder(list), NEW i \in 1 .. n, NEW j \in 1 .. n, i # j
      PROVE  CasesAt(list, P)[i].order_id # CasesAt(list, P)[j].order_id
  <2> HIDE DEF s, n
  <2>1. s[i] # s[j]
    BY <1>2, <1>8
  <2> QED BY <1>2, <1>6, <1>8, <2>1 DEF OneCasePerOrder
<1> QED BY <1>5, <1>6, <1>7, <1>8 DEF OneCasePerOrder

\* The draft's case for an order it reports.
LEMMA DraftCaseFound ==
  ASSUME NEW draft \in AgentResults, NEW o \in Reported(draft)
  PROVE  DraftCase(draft, o) \in CaseResults /\ DraftCase(draft, o).order_id = o
<1> DEFINE S == {i \in DOMAIN draft.cases : draft.cases[i].order_id = o}
<1>1. draft.cases \in Seq(CaseResults)
  BY DEF AgentResults
<1>2. DOMAIN draft.cases = 1 .. Len(draft.cases) /\ Len(draft.cases) \in Nat
      /\ \A i \in DOMAIN draft.cases : draft.cases[i] \in CaseResults
  BY <1>1
<1>3. S # {} /\ S \subseteq 1 .. Len(draft.cases)
  BY <1>2 DEF Reported
<1>4. LastIndex(S) \in S /\ \A j \in S : j <= LastIndex(S)
  BY <1>2, <1>3, LastIndexExists
<1> DEFINE Q(i) == /\ draft.cases[i].order_id = o
                   /\ \A j \in DOMAIN draft.cases : draft.cases[j].order_id = o => j <= i
<1>5. \E i \in DOMAIN draft.cases : Q(i)
  BY <1>4
<1>6. PICK k \in DOMAIN draft.cases : Q(k) /\ DraftCase(draft, o) = draft.cases[k]
  BY <1>5 DEF DraftCase
<1> QED BY <1>2, <1>6

LEMMA ProjectedCaseTyped ==
  ASSUME NEW draft \in AgentResults, NEW cs \in [Orders -> CaseStates],
         NEW touched \in SUBSET Orders, NEW o \in KeptOrders(draft, cs, touched)
  PROVE  /\ ProjectedCase(draft, o, cs[o]) \in CaseResults
         /\ ProjectedCase(draft, o, cs[o]).order_id = o
<1>1. o \in Orders /\ cs[o] \in CaseStates
  BY DEF KeptOrders
<1>2. CASE ProjectCaseResult(o, cs[o]) # None
  BY <1>1, <1>2, CaseResultNotNone, ProjectionAgrees DEF ProjectedCase
<1>3. CASE ProjectCaseResult(o, cs[o]) = None /\ draft.status = "NEEDS_CLARIFICATION"
  BY <1>1, <1>3, BareTyped DEF ProjectedCase, Decisions
<1>4. CASE ProjectCaseResult(o, cs[o]) = None /\ draft.status # "NEEDS_CLARIFICATION"
  <2>1. o \in Reported(draft)
    BY <1>4 DEF KeptOrders
  <2> QED BY <1>4, <2>1, DraftCaseFound DEF ProjectedCase
<1> QED BY <1>2, <1>3, <1>4

\* The projected list: one case for every kept order, and otherwise only the
\* draft's cases for orders the turn did not touch.
LEMMA ProjectedList ==
  ASSUME NEW draft \in AgentResults, NEW cs \in [Orders -> CaseStates],
         NEW touched \in SUBSET Orders, IsFiniteSet(touched)
  PROVE  LET list == ProjectedCases(draft, cs, touched)
             kept == KeptOrders(draft, cs, touched)
         IN
         /\ list \in Seq(CaseResults)
         /\ \A i \in DOMAIN list :
              \/ \E o \in kept : list[i] = ProjectedCase(draft, o, cs[o])
              \/ /\ list[i].order_id \notin touched
                 /\ \E j \in DOMAIN draft.cases : list[i] = draft.cases[j]
         /\ \A o \in kept : \E i \in DOMAIN list :
              /\ list[i] = ProjectedCase(draft, o, cs[o])
              /\ \A j \in DOMAIN list : list[j].order_id = o => j = i
         /\ \A j \in DOMAIN draft.cases : draft.cases[j].order_id \notin touched =>
              \E i \in DOMAIN list : list[i] = draft.cases[j]
<1> DEFINE kept == KeptOrders(draft, cs, touched)
           s == SetToSeq(kept)
           n == Cardinality(kept)
           mine == [i \in 1 .. n |-> ProjectedCase(draft, s[i], cs[s[i]])]
           P == {i \in DOMAIN draft.cases : draft.cases[i].order_id \notin touched}
           rest == CasesAt(draft.cases, P)
           list == ProjectedCases(draft, cs, touched)
<1>1. IsFiniteSet(kept) /\ kept \subseteq touched
  BY FS_Subset DEF KeptOrders
<1>2. /\ n \in Nat /\ s \in [1 .. n -> kept]
      /\ \A i, j \in 1 .. n : s[i] = s[j] => i = j
      /\ \A o \in kept : \E i \in 1 .. n : s[i] = o
  BY <1>1, SetListed
<1>3. \A i \in 1 .. n : mine[i] \in CaseResults /\ mine[i].order_id = s[i]
  BY <1>2, ProjectedCaseTyped
<1>4. mine \in Seq(CaseResults) /\ Len(mine) = n /\ DOMAIN mine = 1 .. n
  BY <1>2, <1>3
<1>5. draft.cases \in Seq(CaseResults)
  BY DEF AgentResults
<1>6. /\ rest \in Seq(CaseResults)
      /\ \A i \in DOMAIN rest : \E j \in P : rest[i] = draft.cases[j]
      /\ \A j \in P : \E i \in DOMAIN rest : rest[i] = draft.cases[j]
  <2>1. P \in SUBSET DOMAIN draft.cases
    OBVIOUS
  <2> HIDE DEF P
  <2> QED BY <1>5, <2>1, CasesKept
<1> HIDE DEF rest, mine
<1>7. PICK m \in Nat : m = Len(rest) /\ DOMAIN rest = 1 .. m
  BY <1>6
<1>8. list = mine \o rest
  <2>1. DOMAIN s = 1 .. n
    BY <1>2
  <2> QED BY <2>1 DEF ProjectedCases, mine, rest
<1> HIDE DEF list, P, kept, n, s
<1>9. /\ list \in Seq(CaseResults) /\ DOMAIN list = 1 .. (n + m)
      /\ \A i \in 1 .. n : list[i] = mine[i]
      /\ \A i \in 1 .. m : list[n + i] = rest[i]
      /\ \A i \in (n + 1) .. (n + m) : i - n \in 1 .. m /\ list[i] = rest[i - n]
  <2>1. mine \in Seq(CaseResults) /\ rest \in Seq(CaseResults)
    BY <1>4, <1>6
  <2>2. /\ mine \o rest \in Seq(CaseResults)
        /\ DOMAIN (mine \o rest) = 1 .. (n + m)
        /\ \A i \in 1 .. n : (mine \o rest)[i] = mine[i]
        /\ \A i \in 1 .. m : (mine \o rest)[n + i] = rest[i]
        /\ \A i \in (n + 1) .. (n + m) :
             i - n \in 1 .. m /\ (mine \o rest)[i] = rest[i - n]
    <3>1. Len(mine) = n /\ Len(rest) = m /\ DOMAIN mine = 1 .. n /\ DOMAIN rest = 1 .. m
      BY <1>4, <1>7
    <3>2. /\ mine \o rest \in Seq(CaseResults)
          /\ DOMAIN (mine \o rest) = 1 .. (Len(mine) + Len(rest))
          /\ \A i \in DOMAIN mine : (mine \o rest)[i] = mine[i]
          /\ \A i \in DOMAIN rest : (mine \o rest)[Len(mine) + i] = rest[i]
          /\ \A i \in (Len(mine) + 1) .. (Len(mine) + Len(rest)) :
               i - Len(mine) \in DOMAIN rest /\ (mine \o rest)[i] = rest[i - Len(mine)]
      BY ONLY <2>1, Concatenated
    <3> QED BY ONLY <3>1, <3>2
  <2> QED BY <1>8, <2>2
<1>10. \A i \in (n + 1) .. (n + m) :
         /\ list[i].order_id \notin touched
         /\ \E j \in DOMAIN draft.cases : list[i] = draft.cases[j]
  <2> SUFFICES ASSUME NEW i \in (n + 1) .. (n + m)
               PROVE  \E j \in P : list[i] = draft.cases[j]
    BY DEF P
  <2>1. i - n \in DOMAIN rest /\ list[i] = rest[i - n]
    BY <1>7, <1>9
  <2> QED BY <1>6, <2>1
<1>11. \A i \in DOMAIN list :
         \/ \E o \in kept : list[i] = ProjectedCase(draft, o, cs[o])
         \/ /\ list[i].order_id \notin touched
            /\ \E j \in DOMAIN draft.cases : list[i] = draft.cases[j]
  <2> SUFFICES ASSUME NEW i \in DOMAIN list, i \in 1 .. n
               PROVE  \E o \in kept : list[i] = ProjectedCase(draft, o, cs[o])
    BY <1>2, <1>7, <1>9, <1>10
  <2>1. s[i] \in kept /\ list[i] = ProjectedCase(draft, s[i], cs[s[i]])
    BY <1>2, <1>9 DEF mine
  <2> QED BY <2>1
<1>12. ASSUME NEW o \in kept
       PROVE  \E i \in DOMAIN list :
                /\ list[i] = ProjectedCase(draft, o, cs[o])
                /\ \A j \in DOMAIN list : list[j].order_id = o => j = i
  <2>1. PICK i \in 1 .. n : s[i] = o
    BY <1>2
  <2>2. i \in DOMAIN list /\ list[i] = ProjectedCase(draft, o, cs[o])
    BY <1>2, <1>7, <1>9, <2>1 DEF mine
  <2>3. ASSUME NEW j \in DOMAIN list, list[j].order_id = o PROVE j = i
    <3>1. j \in 1 .. n
      BY <1>1, <1>2, <1>7, <1>9, <1>10, <2>3
    <3>2. s[j] = o
      BY <1>3, <1>9, <2>3, <3>1
    <3> QED BY <1>2, <2>1, <3>1, <3>2
  <2> QED BY <2>2, <2>3
<1>13. \A j \in DOMAIN draft.cases : draft.cases[j].order_id \notin touched =>
         \E i \in DOMAIN list : list[i] = draft.cases[j]
  <2> SUFFICES ASSUME NEW j \in P PROVE \E i \in DOMAIN list : list[i] = draft.cases[j]
    BY DEF P
  <2>1. PICK i \in DOMAIN rest : rest[i] = draft.cases[j]
    BY <1>6
  <2>2. n + i \in DOMAIN list /\ list[n + i] = rest[i]
    BY <1>2, <1>7, <1>9
  <2> QED BY <2>1, <2>2
<1> QED BY <1>9, <1>11, <1>12, <1>13 DEF list, kept

\* The fail-safe list: one case for every touched order that is known.
LEMMA FailSafeList ==
  ASSUME NEW cs \in [Orders -> CaseStates], NEW touched \in SUBSET Orders,
         IsFiniteSet(touched)
  PROVE  LET list == FailSafeCases(cs, touched)
             known == {o \in touched : Known(cs[o])}
         IN
         /\ list \in Seq(CaseResults)
         /\ \A i \in DOMAIN list :
              /\ list[i].order_id \in known
              /\ list[i] = CaseResultFromEvidence(list[i].order_id, cs[list[i].order_id])
         /\ \A o \in known : \E i \in DOMAIN list :
              /\ list[i] = CaseResultFromEvidence(o, cs[o])
              /\ \A j \in DOMAIN list : list[j].order_id = o => j = i
<1> DEFINE known == {o \in touched : Known(cs[o])}
           s == SetToSeq(known)
           n == Cardinality(known)
           list == FailSafeCases(cs, touched)
<1>1. IsFiniteSet(known)
  BY FS_Subset
<1>2. /\ n \in Nat /\ s \in [1 .. n -> known]
      /\ \A i, j \in 1 .. n : s[i] = s[j] => i = j
      /\ \A o \in known : \E i \in 1 .. n : s[i] = o
  BY <1>1, SetListed
<1>3. list = [i \in 1 .. n |-> CaseResultFromEvidence(s[i], cs[s[i]])]
  BY <1>2 DEF FailSafeCases
<1>4. \A i \in 1 .. n : list[i] \in CaseResults /\ list[i].order_id = s[i]
  <2> SUFFICES ASSUME NEW i \in 1 .. n
               PROVE  list[i] \in CaseResults /\ list[i].order_id = s[i]
    OBVIOUS
  <2>1. s[i] \in Orders /\ cs[s[i]] \in CaseStates
    BY <1>2
  <2> QED BY <1>3, <2>1, CaseResultNotNone, FailSafeAgrees
<1>5. list \in Seq(CaseResults) /\ DOMAIN list = 1 .. n
  BY <1>2, <1>3, <1>4
<1>6. \A i \in 1 .. n : s[i] \in known /\ list[i] = CaseResultFromEvidence(s[i], cs[s[i]])
  BY <1>2, <1>3
<1> HIDE DEF list, s, n
<1>7. \A i \in DOMAIN list :
        /\ list[i].order_id \in known
        /\ list[i] = CaseResultFromEvidence(list[i].order_id, cs[list[i].order_id])
  BY <1>4, <1>5, <1>6
<1>8. ASSUME NEW o \in known
      PROVE  \E i \in DOMAIN list :
               /\ list[i] = CaseResultFromEvidence(o, cs[o])
               /\ \A j \in DOMAIN list : list[j].order_id = o => j = i
  <2>1. PICK i \in 1 .. n : s[i] = o
    BY <1>2
  <2>2. \A j \in 1 .. n : list[j].order_id = o => j = i
    BY <1>2, <1>4, <2>1
  <2> QED BY <1>5, <1>6, <2>1, <2>2
<1> QED BY <1>5, <1>7, <1>8 DEF list

LEMMA ProjectionTyped ==
  ASSUME NEW draft \in AgentResults, NEW cs \in [Orders -> CaseStates],
         NEW slice \in Seq(ToolInteractions)
  PROVE  ProjectResultFromState(draft, cs, slice) \in AgentResults
<1> DEFINE list == ProjectedCases(draft, cs, TouchedCaseIds(slice))
<1>1. list \in Seq(CaseResults)
  BY TouchedFinite, ProjectedList
<1>2. /\ draft.status \in FinalStatuses /\ draft.customer_response \in Wordings
      /\ FactualToolsCalled(slice) \in SUBSET ToolNames
  BY DEF AgentResults, FactualToolsCalled
<1>3. \A status \in FinalStatuses :
        RenderedWording(status, list, draft.customer_response) \in Wordings
  BY <1>2 DEF RenderedWording, Wordings
<1> QED BY <1>1, <1>2, <1>3 DEF ProjectResultFromState, AgentResults, FinalStatuses

LEMMA FailSafeTyped ==
  ASSUME NEW cs \in [Orders -> CaseStates], NEW slice \in Seq(ToolInteractions)
  PROVE  BuildFailSafeResult(cs, slice) \in AgentResults
<1>1. FailSafeCases(cs, TouchedCaseIds(slice)) \in Seq(CaseResults)
  BY TouchedFinite, FailSafeList
<1> QED
  BY <1>1 DEF BuildFailSafeResult, AgentResults, FinalStatuses, Wordings, FactualToolsCalled
=============================================================================

----------------------------- MODULE ParserProofs -----------------------------
(***************************************************************************)
(* For every text a model may write, of any length and with objects nested *)
(* to any depth: which final object parse_final_output finds.              *)
(*                                                                         *)
(* The functions of OutputParser are recursive over the positions of a     *)
(* text.  What is shown of them is shown by looking at the first (or last) *)
(* position where it would fail (Upward, Downward); that they exist is     *)
(* Recursion and Backwards.  Then: the scanner closes the brace of an      *)
(* object where json.loads ends the object (ObjectScan), an object is the  *)
(* same object in every part of the text that holds it (ObjectOfText), and *)
(* so each candidate that is an object is an object of the text.           *)
(***************************************************************************)
EXTENDS OutputParser, FiniteSetTheorems, WellFoundedInduction, TLAPS

-----------------------------------------------------------------------------
(* Positions.                                                              *)

\* A set of positions has a first one.
LEMMA Least ==
  ASSUME NEW S \in SUBSET Nat, S # {}
  PROVE  Min(S) \in S /\ \A n \in S : Min(S) <= n
<1>. DEFINE R == {p \in Nat \X Nat : p[1] < p[2]}
<1>1. IsWellFoundedOn(R, Nat)
  BY NatLessThanWellFounded DEF OpToRel
<1>2. \A m, n \in Nat : <<m, n>> \in R <=> m < n
  OBVIOUS
<1>. HIDE DEF R
<1>3. PICK n \in S : \A m \in S : ~(<<m, n>> \in R)
  BY <1>1, WFMin
<1>4. \A m \in S : n <= m
  <2>1. SUFFICES ASSUME NEW m \in S PROVE n <= m
    OBVIOUS
  <2>2. m \in Nat /\ n \in Nat
    OBVIOUS
  <2>3. ~(m < n)
    BY <1>2, <1>3, <2>2
  <2>. QED BY <2>2, <2>3
<1>. QED BY <1>4 DEF Min

\* A set of positions of a text has a last one.
LEMMA Greatest ==
  ASSUME NEW n \in Nat, NEW S \in SUBSET (0 .. n), S # {}
  PROVE  Max(S) \in S /\ \A m \in S : m <= Max(S)
<1>. DEFINE R == {n - x : x \in S}
<1>1. R \in SUBSET Nat /\ R # {}
  <2>1. \A x \in S : n - x \in Nat
    OBVIOUS
  <2>2. PICK x \in S : TRUE
    OBVIOUS
  <2>3. n - x \in R
    OBVIOUS
  <2>. QED BY <2>1, <2>3
<1>2. Min(R) \in R /\ \A y \in R : Min(R) <= y
  <2>. HIDE DEF R
  <2>. QED BY <1>1, Least
<1>3. PICK x \in S : Min(R) = n - x
  BY <1>2
<1>4. \A m \in S : m <= x
  <2>1. SUFFICES ASSUME NEW m \in S PROVE m <= x
    OBVIOUS
  <2>2. n - m \in R
    OBVIOUS
  <2>3. n - x <= n - m
    BY <1>2, <1>3, <2>2
  <2>. QED BY <2>3
<1>. QED BY <1>4 DEF Max

\* A property of every position before it, and so of a position, holds of all.
LEMMA Upward ==
  ASSUME NEW a \in Nat, NEW n \in Nat, NEW S,
         \A i \in a .. n : (\A j \in a .. i - 1 : j \in S) => i \in S
  PROVE  \A i \in a .. n : i \in S
<1>. DEFINE Bad == {i \in a .. n : i \notin S}
<1>1. SUFFICES ASSUME Bad # {} PROVE FALSE
  OBVIOUS
<1>2. Bad \in SUBSET Nat
  OBVIOUS
<1>3. PICK i \in Bad : \A j \in Bad : i <= j
  <2>. HIDE DEF Bad
  <2>. QED BY <1>1, <1>2, Least
<1>4. \A j \in a .. i - 1 : j \in S
  BY <1>3
<1>. QED BY <1>4

\* The same from the end.
LEMMA Downward ==
  ASSUME NEW a \in Nat, NEW n \in Nat, NEW S,
         \A i \in a .. n : (\A j \in i + 1 .. n : j \in S) => i \in S
  PROVE  \A i \in a .. n : i \in S
<1>. DEFINE Bad == {i \in a .. n : i \notin S}
<1>1. SUFFICES ASSUME Bad # {} PROVE FALSE
  OBVIOUS
<1>2. Bad \in SUBSET (0 .. n)
  OBVIOUS
<1>3. PICK i \in Bad : \A j \in Bad : j <= i
  <2>. HIDE DEF Bad
  <2>. QED BY <1>1, <1>2, Greatest
<1>4. \A j \in i + 1 .. n : j \in S
  BY <1>3
<1>. QED BY <1>4

\* The steps that lead from the value at each position to the value at the next.
Steps(a, n, V) == [a + 1 .. n -> [V -> V]]

Iterates(g, a, n, start, step) ==
  g[a] = start /\ \A i \in a + 1 .. n : g[i] = step[i][g[i - 1]]

\* A function can be defined from each position to the next.
LEMMA Recursion ==
  ASSUME NEW a \in Nat, NEW n \in Nat, NEW V, NEW start \in V,
         NEW step \in Steps(a, n, V), a <= n
  PROVE  \E g \in [a .. n -> V] : Iterates(g, a, n, start, step)
<1>0. step \in [a + 1 .. n -> [V -> V]]
  BY DEF Steps
<1>. DEFINE Follows(k, g) == g[a] = start /\ \A i \in a + 1 .. k : g[i] = step[i][g[i - 1]]
            Defined(k) == \E g \in [a .. k -> V] : Follows(k, g)
            S == {k \in a .. n : Defined(k)}
<1>1. ASSUME NEW m \in a .. n, \A j \in a .. m - 1 : j \in S
      PROVE  m \in S
  <2>1. CASE m = a
    <3>1. [i \in a .. a |-> start] \in [a .. a -> V] /\ Follows(a, [i \in a .. a |-> start])
      OBVIOUS
    <3>2. Defined(m)
      BY <2>1, <3>1
    <3>. HIDE DEF Defined
    <3>. QED BY <3>2
  <2>2. CASE m # a
    <3>1. m - 1 \in a .. m - 1 /\ m \in a + 1 .. n
      BY <2>2
    <3>2. Defined(m - 1)
      BY <1>1, <3>1
    <3>3. PICK g \in [a .. m - 1 -> V] : Follows(m - 1, g)
      BY <3>2
    <3>. DEFINE h == [i \in a .. m |-> IF i = m THEN step[m][g[m - 1]] ELSE g[i]]
    <3>4. h \in [a .. m -> V]
      <4>1. g[m - 1] \in V
        BY <3>1
      <4>2. step[m][g[m - 1]] \in V
        BY <1>0, <3>1, <4>1
      <4>3. \A i \in a .. m : i # m => i \in a .. m - 1
        OBVIOUS
      <4>4. \A i \in a .. m : i # m => g[i] \in V
        BY <4>3
      <4>. QED BY <4>2, <4>4
    <3>5. h[a] = start
      BY <2>2, <3>3
    <3>6. ASSUME NEW i \in a + 1 .. m PROVE h[i] = step[i][h[i - 1]]
      <4>1. i \in a .. m /\ i - 1 \in a .. m /\ i - 1 # m
        OBVIOUS
      <4>2. h[i - 1] = g[i - 1]
        BY <4>1
      <4>3. CASE i = m
        BY <4>1, <4>2, <4>3
      <4>4. CASE i # m
        <5>1. i \in a + 1 .. m - 1
          BY <4>4
        <5>2. g[i] = step[i][g[i - 1]]
          BY <3>3, <5>1
        <5>. QED BY <4>1, <4>2, <4>4, <5>2
      <4>. QED BY <4>3, <4>4
    <3>7. Defined(m)
      <4>1. Follows(m, h)
        BY <3>5, <3>6
      <4>. HIDE DEF h, Follows
      <4>. QED BY <3>4, <4>1
    <3>. HIDE DEF Defined
    <3>. QED BY <3>7
  <2>. QED BY <2>1, <2>2
<1>2. \A k \in a .. n : k \in S
  <2>. HIDE DEF S
  <2>. QED BY <1>1, Upward
<1>3. n \in a .. n
  OBVIOUS
<1>4. Defined(n)
  <2>. HIDE DEF Defined
  <2>. QED BY <1>2, <1>3
<1>. QED BY <1>4 DEF Iterates

-----------------------------------------------------------------------------
(* What the recursive functions of OutputParser are.                       *)

Texts == Seq(Marks)

\* The positions of a text.
LEMMA TextFacts ==
  ASSUME NEW t \in Texts
  PROVE  /\ Len(t) \in Nat /\ DOMAIN t = 1 .. Len(t)
         /\ \A i \in 1 .. Len(t) : t[i] \in Marks
  BY DEF Texts

\* After skips blanks, and nothing else.
LEMMA AfterFacts ==
  ASSUME NEW t \in Texts, NEW i \in 1 .. Len(t) + 1
  PROVE  /\ After(t, i) \in i .. Len(t) + 1
         /\ After(t, i) \in 1 .. Len(t) => t[After(t, i)] # "blank"
         /\ \A j \in i .. After(t, i) - 1 : j \in 1 .. Len(t) /\ t[j] = "blank"
         /\ \A j \in i .. Len(t) : t[j] # "blank" => After(t, i) <= j
<1>. DEFINE N == {n \in i .. Len(t) + 1 : n = Len(t) + 1 \/ t[n] # "blank"}
<1>1. Len(t) \in Nat
  BY TextFacts
<1>2. N \in SUBSET Nat /\ Len(t) + 1 \in N
  BY <1>1
<1>3. Min(N) \in N /\ \A n \in N : Min(N) <= n
  <2>. HIDE DEF N
  <2>. QED BY <1>2, Least
<1>4. After(t, i) = Min(N)
  BY DEF After
<1>5. \A j \in i .. Len(t) : t[j] # "blank" => After(t, i) <= j
  BY <1>1, <1>3, <1>4
<1>6. \A j \in i .. After(t, i) - 1 : j \in 1 .. Len(t) /\ t[j] = "blank"
  <2>1. SUFFICES ASSUME NEW j \in i .. After(t, i) - 1
                 PROVE  j \in 1 .. Len(t) /\ t[j] = "blank"
    OBVIOUS
  <2>2. After(t, i) \in i .. Len(t) + 1
    BY <1>3, <1>4
  <2>3. j \in i .. Len(t) /\ ~(After(t, i) <= j)
    BY <1>1, <2>2
  <2>. QED BY <1>1, <1>5, <2>3
<1>. QED BY <1>1, <1>3, <1>4, <1>5, <1>6

\* The first mark that is no blank is the one After finds.
LEMMA AfterIs ==
  ASSUME NEW t \in Texts, NEW i \in 1 .. Len(t) + 1, NEW n \in i .. Len(t),
         t[n] # "blank", \A j \in i .. n - 1 : t[j] = "blank"
  PROVE  After(t, i) = n
<1>1. After(t, i) \in i .. Len(t) + 1 /\ After(t, i) <= n /\ Len(t) \in Nat
  BY AfterFacts, TextFacts
<1>2. After(t, i) \in 1 .. Len(t) /\ t[After(t, i)] # "blank"
  BY <1>1, AfterFacts
<1>. QED BY <1>1, <1>2

\* A backslash escapes the next mark unless it is escaped itself.
LEMMA EscapingFacts ==
  ASSUME NEW t \in Texts, NEW i \in 1 .. Len(t) + 1
  PROVE  /\ Escaping(t, i) \in [i - 1 .. Len(t) -> BOOLEAN]
         /\ Escaping(t, i)[i - 1] = FALSE
         /\ \A j \in i .. Len(t) :
              Escaping(t, i)[j] = (t[j] = "backslash" /\ ~Escaping(t, i)[j - 1])
<1>. DEFINE n == Len(t)
            a == i - 1
            step == [j \in a + 1 .. n |-> [v \in BOOLEAN |-> t[j] = "backslash" /\ ~v]]
            F == CHOOSE f : f = [j \in a .. n |-> j >= i /\ t[j] = "backslash" /\ ~f[j - 1]]
<1>1. n \in Nat /\ a \in Nat /\ a <= n /\ a + 1 = i
  BY TextFacts
<1>2. step \in [a + 1 .. n -> [BOOLEAN -> BOOLEAN]]
  OBVIOUS
<1>3. PICK g \in [a .. n -> BOOLEAN] :
        g[a] = FALSE /\ \A j \in a + 1 .. n : g[j] = step[j][g[j - 1]]
  <2>. DEFINE V == BOOLEAN
              no == FALSE
  <2>1. no \in V /\ step \in Steps(a, n, V)
    BY <1>2 DEF Steps
  <2>. HIDE DEF step, n, a, V, no
  <2>2. \E g \in [a .. n -> V] : Iterates(g, a, n, no, step)
    BY <1>1, <2>1, Recursion
  <2>. QED BY <2>2 DEF V, no, Iterates
<1>4. \A j \in a .. n : g[j] = (j >= i /\ t[j] = "backslash" /\ ~g[j - 1])
  <2>1. SUFFICES ASSUME NEW j \in a .. n
                 PROVE  g[j] = (j >= i /\ t[j] = "backslash" /\ ~g[j - 1])
    OBVIOUS
  <2>2. CASE j = a
    BY <1>1, <1>3, <2>2
  <2>3. CASE j # a
    <3>1. j \in a + 1 .. n /\ j >= i /\ j - 1 \in a .. n
      BY <1>1, <2>3
    <3>2. g[j] = step[j][g[j - 1]] /\ g[j - 1] \in BOOLEAN
      BY <1>3, <3>1
    <3>. QED BY <3>1, <3>2
  <2>. QED BY <2>2, <2>3
<1>5. g = [j \in a .. n |-> j >= i /\ t[j] = "backslash" /\ ~g[j - 1]]
  BY <1>4
<1>6. F = [j \in a .. n |-> j >= i /\ t[j] = "backslash" /\ ~F[j - 1]]
  BY <1>5
<1>7. Escaping(t, i) = F
  BY DEF Escaping
<1>. HIDE DEF F
<1>8. /\ F \in [a .. n -> BOOLEAN] /\ F[a] = FALSE
      /\ \A j \in a + 1 .. n : F[j] = (t[j] = "backslash" /\ ~F[j - 1])
  <2>1. F \in [a .. n -> BOOLEAN]
    BY <1>6
  <2>2. F[a] = FALSE
    <3>1. a \in a .. n /\ ~(a >= i)
      BY <1>1
    <3>2. F[a] = (a >= i /\ t[a] = "backslash" /\ ~F[a - 1])
      <4>. HIDE DEF a, n
      <4>. QED BY <1>6, <3>1
    <3>. HIDE DEF a
    <3>. QED BY <3>1, <3>2
  <2>3. \A j \in a + 1 .. n : F[j] = (t[j] = "backslash" /\ ~F[j - 1])
    BY <1>1, <1>6
  <2>. QED BY <2>1, <2>2, <2>3
<1>. QED BY <1>1, <1>7, <1>8

\* Where a string ends there is its first quote that is not escaped.
LEMMA StringFacts ==
  ASSUME NEW t \in Texts, NEW i \in 1 .. Len(t) + 1
  PROVE  /\ StringEnd(t, i) \in {0} \cup i .. Len(t)
         /\ StringEnd(t, i) # 0 =>
              /\ t[StringEnd(t, i)] = "quote" /\ ~Escaping(t, i)[StringEnd(t, i) - 1]
              /\ \A j \in i .. StringEnd(t, i) - 1 :
                   t[j] = "quote" => Escaping(t, i)[j - 1]
              /\ \A j \in i .. StringEnd(t, i) :
                   Escaping(t, i)[j - 1] => t[j] \in {"quote", "backslash"}
<1>. DEFINE Q == {j \in i .. Len(t) : t[j] = "quote" /\ ~Escaping(t, i)[j - 1]}
<1>1. Len(t) \in Nat
  BY TextFacts
<1>2. Q \in SUBSET Nat
  BY <1>1
<1>3. CASE StringEnd(t, i) = 0
  BY <1>3
<1>4. CASE StringEnd(t, i) # 0
  <2>1. /\ Q # {} /\ StringEnd(t, i) = Min(Q)
        /\ \A j \in i .. Min(Q) : Escaping(t, i)[j - 1] => t[j] \in {"quote", "backslash"}
    BY <1>4 DEF StringEnd
  <2>2. Min(Q) \in Q /\ \A j \in Q : Min(Q) <= j
    <3>. HIDE DEF Q
    <3>. QED BY <1>2, <2>1, Least
  <2>3. \A j \in i .. Min(Q) - 1 : t[j] = "quote" => Escaping(t, i)[j - 1]
    <3>1. SUFFICES ASSUME NEW j \in i .. Min(Q) - 1, t[j] = "quote", ~Escaping(t, i)[j - 1]
                   PROVE  FALSE
      OBVIOUS
    <3>2. j \in Q
      BY <1>1, <2>2, <3>1
    <3>3. Min(Q) <= j
      BY <2>2, <3>2
    <3>. QED BY <1>1, <2>2, <3>3
  <2>. QED BY <2>1, <2>2, <2>3
<1>. QED BY <1>3, <1>4

\* The converse: such a quote is where the string ends.
LEMMA StringIs ==
  ASSUME NEW t \in Texts, NEW i \in 1 .. Len(t) + 1, NEW e \in i .. Len(t),
         t[e] = "quote", ~Escaping(t, i)[e - 1],
         \A j \in i .. e - 1 : t[j] = "quote" => Escaping(t, i)[j - 1],
         \A j \in i .. e : Escaping(t, i)[j - 1] => t[j] \in {"quote", "backslash"}
  PROVE  StringEnd(t, i) = e
<1>. DEFINE Q == {j \in i .. Len(t) : t[j] = "quote" /\ ~Escaping(t, i)[j - 1]}
<1>1. Len(t) \in Nat
  BY TextFacts
<1>2. Q \in SUBSET Nat /\ e \in Q
  BY <1>1
<1>3. Min(Q) \in Q /\ \A j \in Q : Min(Q) <= j
  <2>. HIDE DEF Q
  <2>. QED BY <1>2, Least
<1>4. Min(Q) = e
  <2>1. Min(Q) <= e
    BY <1>2, <1>3
  <2>2. ~(Min(Q) \in i .. e - 1)
    BY <1>3
  <2>. QED BY <1>1, <1>3, <2>1, <2>2
<1>. QED BY <1>2, <1>4 DEF StringEnd
\* Where the value of a member begins: behind its key and its colon.
Member(t, i, k, s, c, v) ==
  /\ k = After(t, i + 1) /\ k \in i + 1 .. Len(t) /\ t[k] = "quote"
  /\ s = StringEnd(t, k + 1) /\ s \in k + 1 .. Len(t)
  /\ c = After(t, s + 1) /\ c \in s + 1 .. Len(t) /\ t[c] = "colon"
  /\ v = After(t, c + 1) /\ v \in c + 1 .. Len(t) + 1

\* A member has a key that is a string, a colon, and then its value.
LEMMA ValueFacts ==
  ASSUME NEW t \in Texts, NEW i \in 1 .. Len(t), ValueOf(t, i) # 0
  PROVE  \E k, s, c : Member(t, i, k, s, c, ValueOf(t, i))
<1>. DEFINE k == After(t, i + 1)
            s == StringEnd(t, k + 1)
            c == After(t, s + 1)
<1>1. /\ Has(t, k, "quote") /\ s # 0 /\ Has(t, c, "colon")
      /\ ValueOf(t, i) = After(t, c + 1)
  BY DEF ValueOf
<1>2. Len(t) \in Nat /\ DOMAIN t = 1 .. Len(t)
  BY TextFacts
<1>3. k \in i + 1 .. Len(t) /\ t[k] = "quote"
  <2>1. k \in i + 1 .. Len(t) + 1
    BY <1>2, AfterFacts
  <2>. QED BY <1>1, <1>2, <2>1 DEF Has
<1>4. s \in k + 1 .. Len(t)
  <2>. HIDE DEF k
  <2>. QED BY <1>1, <1>2, <1>3, StringFacts
<1>5. c \in s + 1 .. Len(t) /\ t[c] = "colon"
  <2>. HIDE DEF k, s
  <2>1. s + 1 \in 1 .. Len(t) + 1
    BY <1>2, <1>3, <1>4
  <2>2. c \in s + 1 .. Len(t) + 1
    BY <2>1, AfterFacts
  <2>. QED BY <1>1, <1>2, <2>2 DEF Has
<1>6. ValueOf(t, i) \in c + 1 .. Len(t) + 1
  <2>. HIDE DEF k, s, c
  <2>1. c + 1 \in 1 .. Len(t) + 1
    BY <1>2, <1>3, <1>4, <1>5
  <2>. QED BY <1>1, <2>1, AfterFacts
<1>7. Member(t, i, k, s, c, ValueOf(t, i))
  BY <1>1, <1>3, <1>4, <1>5, <1>6 DEF Member
<1>. QED BY <1>7

\* The converse.
LEMMA ValueIs ==
  ASSUME NEW t \in Texts, NEW i \in 1 .. Len(t), NEW k, NEW s, NEW c, NEW v,
         Member(t, i, k, s, c, v)
  PROVE  ValueOf(t, i) = v /\ v # 0
<1>1. Len(t) \in Nat /\ DOMAIN t = 1 .. Len(t)
  BY TextFacts
<1>2. k \in 1 .. Len(t) /\ s \in 1 .. Len(t) /\ c \in 1 .. Len(t) /\ v # 0
  BY <1>1 DEF Member
<1>3. Has(t, k, "quote") /\ s # 0 /\ Has(t, c, "colon")
  BY <1>1, <1>2 DEF Member, Has
<1>. QED BY <1>2, <1>3 DEF Member, ValueOf

\* Where each position looks ahead, and what it makes of what it finds there.
LooksAhead(next, step, n, V) ==
  /\ next \in [1 .. n -> 1 .. n + 1] /\ \A i \in 1 .. n : next[i] > i
  /\ step \in [1 .. n -> [V -> V]]

Unwinds(g, n, last, next, step) ==
  g[n + 1] = last /\ \A i \in 1 .. n : g[i] = step[i][g[next[i]]]

\* Each position of a function can be defined from a later one.
LEMMA Backwards ==
  ASSUME NEW n \in Nat, NEW V, NEW last \in V, NEW next, NEW step,
         LooksAhead(next, step, n, V)
  PROVE  \E g \in [1 .. n + 1 -> V] : Unwinds(g, n, last, next, step)
<1>0. /\ next \in [1 .. n -> 1 .. n + 1] /\ \A i \in 1 .. n : next[i] > i
      /\ step \in [1 .. n -> [V -> V]]
  BY DEF LooksAhead
<1>. DEFINE Follows(k, g) ==
              g[n + 1] = last /\ \A i \in k .. n : g[i] = step[i][g[next[i]]]
            Defined(k) == \E g \in [k .. n + 1 -> V] : Follows(k, g)
            S == {k \in 1 .. n + 1 : Defined(k)}
<1>1. ASSUME NEW m \in 1 .. n + 1, \A j \in m + 1 .. n + 1 : j \in S
      PROVE  m \in S
  <2>1. CASE m = n + 1
    <3>1. [i \in n + 1 .. n + 1 |-> last] \in [n + 1 .. n + 1 -> V]
      OBVIOUS
    <3>2. Follows(n + 1, [i \in n + 1 .. n + 1 |-> last])
      OBVIOUS
    <3>3. Defined(m)
      BY <2>1, <3>1, <3>2
    <3>. HIDE DEF Defined
    <3>. QED BY <3>3
  <2>2. CASE m # n + 1
    <3>1. m + 1 \in m + 1 .. n + 1 /\ m \in 1 .. n
      BY <2>2
    <3>2. Defined(m + 1)
      BY <1>1, <3>1
    <3>3. PICK g \in [m + 1 .. n + 1 -> V] : Follows(m + 1, g)
      BY <3>2
    <3>4. \A i \in m .. n : next[i] \in m + 1 .. n + 1 /\ next[i] \in i + 1 .. n + 1
      BY <1>0, <3>1
    <3>. DEFINE h == [i \in m .. n + 1 |-> IF i = m THEN step[m][g[next[m]]] ELSE g[i]]
    <3>5. h \in [m .. n + 1 -> V]
      <4>1. m \in m .. n /\ g[next[m]] \in V
        BY <3>1, <3>4
      <4>2. step[m][g[next[m]]] \in V
        BY <1>0, <3>1, <4>1
      <4>3. \A i \in m .. n + 1 : i # m => i \in m + 1 .. n + 1
        OBVIOUS
      <4>4. \A i \in m .. n + 1 : i # m => g[i] \in V
        BY <4>3
      <4>. QED BY <4>2, <4>4
    <3>6. h[n + 1] = last
      BY <2>2, <3>3
    <3>7. ASSUME NEW i \in m .. n PROVE h[i] = step[i][h[next[i]]]
      <4>1. next[i] \in m .. n + 1 /\ next[i] # m /\ i \in m .. n + 1
        BY <3>4
      <4>2. h[next[i]] = g[next[i]]
        BY <4>1
      <4>3. CASE i = m
        BY <4>1, <4>2, <4>3
      <4>4. CASE i # m
        <5>1. i \in m + 1 .. n
          BY <4>4
        <5>2. g[i] = step[i][g[next[i]]]
          BY <3>3, <5>1
        <5>. QED BY <4>1, <4>2, <4>4, <5>2
      <4>. QED BY <4>3, <4>4
    <3>8. Defined(m)
      <4>1. Follows(m, h)
        BY <3>6, <3>7
      <4>. HIDE DEF h, Follows
      <4>. QED BY <3>5, <4>1
    <3>. HIDE DEF Defined
    <3>. QED BY <3>8
  <2>. QED BY <2>1, <2>2
<1>2. \A k \in 1 .. n + 1 : k \in S
  <2>. HIDE DEF S
  <2>1. 1 \in Nat /\ n + 1 \in Nat
    OBVIOUS
  <2>. QED BY <1>1, <2>1, Downward
<1>3. Defined(1)
  <2>. HIDE DEF Defined
  <2>. QED BY <1>2
<1>. QED BY <1>3 DEF Unwinds
\* A closing brace follows its member.
LEMMA ClosingFacts ==
  ASSUME NEW t \in Texts, NEW w \in 0 .. Len(t)
  PROVE  /\ Closing(t, w) \in 0 .. Len(t)
         /\ Closing(t, w) # 0 =>
              /\ w # 0 /\ Closing(t, w) = After(t, w + 1)
              /\ Closing(t, w) \in w + 1 .. Len(t) /\ t[Closing(t, w)] = "close"
<1>1. Len(t) \in Nat /\ DOMAIN t = 1 .. Len(t)
  BY TextFacts
<1>2. CASE w = 0 \/ ~Has(t, After(t, w + 1), "close")
  BY <1>1, <1>2 DEF Closing
<1>3. CASE w # 0 /\ Has(t, After(t, w + 1), "close")
  <2>1. Closing(t, w) = After(t, w + 1)
    BY <1>3 DEF Closing
  <2>2. After(t, w + 1) \in w + 1 .. Len(t) + 1
    BY <1>1, AfterFacts
  <2>3. After(t, w + 1) \in 1 .. Len(t) /\ t[After(t, w + 1)] = "close"
    BY <1>1, <1>3 DEF Has
  <2>. QED BY <1>1, <1>3, <2>1, <2>2, <2>3
<1>. QED BY <1>2, <1>3

\* Where the objects of a text end is what ObjectEnds says, position by position.
LEMMA ObjectEndsFacts ==
  ASSUME NEW t \in Texts
  PROVE  \A i \in 1 .. Len(t) + 1 :
           /\ ObjectEnd(t, i) \in 0 .. Len(t)
           /\ ObjectEnd(t, i) =
                IF ~Has(t, i, "open") THEN 0
                ELSE IF Has(t, After(t, i + 1), "close") THEN After(t, i + 1)
                ELSE IF ValueOf(t, i) = 0 THEN 0
                ELSE IF Has(t, ValueOf(t, i), "quote")
                THEN Closing(t, StringEnd(t, ValueOf(t, i) + 1))
                ELSE Closing(t, ObjectEnd(t, ValueOf(t, i)))
<1>. DEFINE n == Len(t)
            V == 0 .. n
            Value(i, w) ==
              IF ~Has(t, i, "open") THEN 0
              ELSE IF Has(t, After(t, i + 1), "close") THEN After(t, i + 1)
              ELSE IF ValueOf(t, i) = 0 THEN 0
              ELSE IF Has(t, ValueOf(t, i), "quote")
              THEN Closing(t, StringEnd(t, ValueOf(t, i) + 1))
              ELSE Closing(t, w)
            next == [i \in 1 .. n |-> IF ValueOf(t, i) = 0 THEN i + 1 ELSE ValueOf(t, i)]
            step == [i \in 1 .. n |-> [w \in V |-> Value(i, w)]]
<1>1. n \in Nat /\ DOMAIN t = 1 .. n
  BY TextFacts
<1>2. ASSUME NEW i \in 1 .. n PROVE next[i] \in 1 .. n + 1 /\ next[i] > i
  <2>1. CASE ValueOf(t, i) = 0
    BY <1>1, <2>1
  <2>2. CASE ValueOf(t, i) # 0
    <3>1. PICK k, s, c : Member(t, i, k, s, c, ValueOf(t, i))
      BY <2>2, ValueFacts
    <3>2. ValueOf(t, i) \in i + 1 .. n + 1
      BY <1>1, <3>1 DEF Member
    <3>. QED BY <1>1, <2>2, <3>2
  <2>. QED BY <2>1, <2>2
<1>3. next \in [1 .. n -> 1 .. n + 1] /\ \A i \in 1 .. n : next[i] > i
  <2>1. \A i \in 1 .. n : next[i] \in 1 .. n + 1 /\ next[i] > i
    BY <1>2
  <2>. QED BY <2>1
<1>4. ASSUME NEW i \in 1 .. n, NEW w \in V PROVE Value(i, w) \in V
  <2>1. Closing(t, w) \in V
    BY ClosingFacts
  <2>2. CASE Has(t, After(t, i + 1), "close")
    BY <1>1, <2>2 DEF Has
  <2>3. CASE Has(t, ValueOf(t, i), "quote")
    <3>1. ValueOf(t, i) \in 1 .. n
      BY <1>1, <2>3 DEF Has
    <3>2. StringEnd(t, ValueOf(t, i) + 1) \in 0 .. n
      BY <1>1, <3>1, StringFacts
    <3>3. Closing(t, StringEnd(t, ValueOf(t, i) + 1)) \in V
      BY <3>2, ClosingFacts
    <3>4. 0 \in V
      BY <1>1
    <3>5. Has(t, After(t, i + 1), "close") => After(t, i + 1) \in V
      BY <1>1 DEF Has
    <3>. HIDE DEF V
    <3>. QED BY <2>3, <3>3, <3>4, <3>5
  <2>4. CASE ~Has(t, After(t, i + 1), "close") /\ ~Has(t, ValueOf(t, i), "quote")
    <3>1. 0 \in V
      BY <1>1
    <3>. HIDE DEF V
    <3>. QED BY <2>1, <2>4, <3>1
  <2>5. CASE Has(t, After(t, i + 1), "close") /\ ~Has(t, ValueOf(t, i), "quote")
    <3>1. 0 \in V /\ After(t, i + 1) \in V
      BY <1>1, <2>5 DEF Has
    <3>. HIDE DEF V
    <3>. QED BY <2>5, <3>1
  <2>. QED BY <2>3, <2>4, <2>5
<1>5. step \in [1 .. n -> [V -> V]]
  <2>. HIDE DEF Value, V
  <2>. QED BY <1>4
<1>6. PICK g \in [1 .. n + 1 -> V] :
        g[n + 1] = 0 /\ \A i \in 1 .. n : g[i] = step[i][g[next[i]]]
  <2>1. 0 \in V
    BY <1>1
  <2>. HIDE DEF n, V, next, step
  <2>2. LooksAhead(next, step, n, V)
    BY <1>3, <1>5 DEF LooksAhead
  <2>3. \E g \in [1 .. n + 1 -> V] : Unwinds(g, n, 0, next, step)
    BY <1>1, <2>1, <2>2, Backwards
  <2>. QED BY <2>3 DEF Unwinds
<1>7. ASSUME NEW i \in 1 .. n + 1 PROVE g[i] = Value(i, g[ValueOf(t, i)])
  <2>1. CASE i = n + 1
    <3>1. ~Has(t, i, "open")
      BY <1>1, <2>1 DEF Has
    <3>. QED BY <1>6, <2>1, <3>1
  <2>2. CASE i # n + 1
    <3>1. i \in 1 .. n
      BY <1>1, <2>2
    <3>2. g[next[i]] \in V
      <4>1. next[i] \in 1 .. n + 1
        BY <1>2, <3>1
      <4>. HIDE DEF V, n, next
      <4>. QED BY <1>6, <4>1
    <3>3. g[i] = Value(i, g[next[i]])
      <4>1. step[i][g[next[i]]] = Value(i, g[next[i]])
        <5>. HIDE DEF V, next, Value
        <5>. QED BY <3>1, <3>2
      <4>. HIDE DEF step, V, next, Value
      <4>. QED BY <1>6, <3>1, <4>1
    <3>4. CASE ValueOf(t, i) = 0
      BY <3>3, <3>4
    <3>5. CASE ValueOf(t, i) # 0
      <4>1. next[i] = ValueOf(t, i)
        BY <3>1, <3>5
      <4>. HIDE DEF next, Value
      <4>. QED BY <3>3, <4>1
    <3>. QED BY <3>4, <3>5
  <2>. QED BY <2>1, <2>2
<1>. DEFINE F == CHOOSE f : f = [i \in 1 .. n + 1 |-> Value(i, f[ValueOf(t, i)])]
<1>8. g = [i \in 1 .. n + 1 |-> Value(i, g[ValueOf(t, i)])]
  <2>. HIDE DEF Value
  <2>. QED BY <1>7
<1>9. F = [i \in 1 .. n + 1 |-> Value(i, F[ValueOf(t, i)])]
  <2>. HIDE DEF Value
  <2>. QED BY <1>8
<1>10. ObjectEnds(t) = F
  BY DEF ObjectEnds
<1>11. \A i \in 1 .. n + 1 : F[i] = Value(i, F[ValueOf(t, i)])
  <2>. HIDE DEF Value, F
  <2>. QED BY <1>9
<1>12. \A i \in 1 .. n + 1 : F[i] \in V
  <2>. DEFINE S == {i \in 1 .. n + 1 : F[i] \in V}
  <2>1. ASSUME NEW i \in 1 .. n + 1, \A j \in i + 1 .. n + 1 : j \in S PROVE i \in S
    <3>1. CASE i = n + 1
      <4>1. ~Has(t, i, "open")
        BY <1>1, <3>1 DEF Has
      <4>2. F[i] = 0
        <5>. HIDE DEF F
        <5>. QED BY <1>11, <4>1
      <4>. HIDE DEF F
      <4>. QED BY <1>1, <4>2
    <3>2. CASE i # n + 1
      <4>1. i \in 1 .. n
        BY <1>1, <3>2
      <4>2. F[next[i]] \in V
        <5>1. next[i] \in i + 1 .. n + 1
          BY <1>1, <1>2, <4>1
        <5>. HIDE DEF F, next
        <5>. QED BY <2>1, <5>1
      <4>3. Value(i, F[next[i]]) \in V
        <5>. HIDE DEF F, next, V, Value
        <5>. QED BY <1>4, <4>1, <4>2
      <4>4. Value(i, F[ValueOf(t, i)]) = Value(i, F[next[i]])
        <5>1. CASE ValueOf(t, i) = 0
          <6>. HIDE DEF F, next
          <6>. QED BY <5>1
        <5>2. CASE ValueOf(t, i) # 0
          <6>1. next[i] = ValueOf(t, i)
            BY <4>1, <5>2
          <6>. HIDE DEF F, next, Value
          <6>. QED BY <6>1
        <5>. QED BY <5>1, <5>2
      <4>. HIDE DEF F, next, V, Value
      <4>. QED BY <1>11, <4>3, <4>4
    <3>. QED BY <3>1, <3>2
  <2>2. \A i \in 1 .. n + 1 : i \in S
    <3>. HIDE DEF S
    <3>1. 1 \in Nat /\ n + 1 \in Nat
      BY <1>1
    <3>. QED BY <2>1, <3>1, Downward
  <2>. HIDE DEF F, V
  <2>. QED BY <2>2
<1>13. \A i : ObjectEnd(t, i) = F[i]
  BY <1>10 DEF ObjectEnd
<1>. HIDE DEF F
<1>. QED BY <1>11, <1>12, <1>13
\* The empty object from i to e, and the object from i to e whose value is from v to w.
EmptyObject(t, i, e) ==
  /\ t[i] = "open" /\ e = After(t, i + 1) /\ e \in i + 1 .. Len(t) /\ t[e] = "close"

LongObject(t, i, k, s, c, v, w, e) ==
  /\ t[i] = "open" /\ Member(t, i, k, s, c, v) /\ v \in c + 1 .. Len(t)
  /\ w \in v + 1 .. Len(t)
  /\ \/ t[v] = "quote" /\ w = StringEnd(t, v + 1)
     \/ t[v] = "open" /\ w = ObjectEnd(t, v)
  /\ e = After(t, w + 1) /\ e \in w + 1 .. Len(t) /\ t[e] = "close"

\* What is an object: braces, and nothing or one member between them.
LEMMA ObjectFacts ==
  ASSUME NEW t \in Texts, NEW i \in 1 .. Len(t) + 1, ObjectEnd(t, i) # 0
  PROVE  /\ i \in 1 .. Len(t) /\ t[i] = "open"
         /\ ObjectEnd(t, i) \in i + 1 .. Len(t) /\ t[ObjectEnd(t, i)] = "close"
         /\ \/ EmptyObject(t, i, ObjectEnd(t, i))
            \/ \E k, s, c, v, w : LongObject(t, i, k, s, c, v, w, ObjectEnd(t, i))
<1>. DEFINE S == {j \in 1 .. Len(t) + 1 : ObjectEnd(t, j) # 0 =>
                    /\ j \in 1 .. Len(t) /\ t[j] = "open"
                    /\ ObjectEnd(t, j) \in j + 1 .. Len(t) /\ t[ObjectEnd(t, j)] = "close"
                    /\ \/ EmptyObject(t, j, ObjectEnd(t, j))
                       \/ \E k, s, c, v, w : LongObject(t, j, k, s, c, v, w, ObjectEnd(t, j))}
<1>1. Len(t) \in Nat /\ DOMAIN t = 1 .. Len(t)
  BY TextFacts
<1>2. ASSUME NEW j \in 1 .. Len(t) + 1, \A l \in j + 1 .. Len(t) + 1 : l \in S PROVE j \in S
  <2>1. SUFFICES ASSUME ObjectEnd(t, j) # 0
                 PROVE  /\ j \in 1 .. Len(t) /\ t[j] = "open"
                        /\ ObjectEnd(t, j) \in j + 1 .. Len(t)
                        /\ t[ObjectEnd(t, j)] = "close"
                        /\ \/ EmptyObject(t, j, ObjectEnd(t, j))
                           \/ \E k, s, c, v, w :
                                LongObject(t, j, k, s, c, v, w, ObjectEnd(t, j))
    OBVIOUS
  <2>2. Has(t, j, "open") /\ j \in 1 .. Len(t) /\ t[j] = "open"
    <3>1. Has(t, j, "open")
      BY <2>1, ObjectEndsFacts
    <3>. QED BY <1>1, <3>1 DEF Has
  <2>3. CASE Has(t, After(t, j + 1), "close")
    <3>1. ObjectEnd(t, j) = After(t, j + 1)
      BY <2>2, <2>3, ObjectEndsFacts
    <3>2. After(t, j + 1) \in j + 1 .. Len(t) + 1
      BY <1>1, <2>2, AfterFacts
    <3>3. After(t, j + 1) \in j + 1 .. Len(t) /\ t[After(t, j + 1)] = "close"
      BY <1>1, <2>3, <3>2 DEF Has
    <3>4. EmptyObject(t, j, ObjectEnd(t, j))
      BY <2>2, <3>1, <3>3 DEF EmptyObject
    <3>. QED BY <2>2, <3>1, <3>3, <3>4
  <2>4. CASE ~Has(t, After(t, j + 1), "close")
    <3>. DEFINE v == ValueOf(t, j)
                w == IF Has(t, v, "quote") THEN StringEnd(t, v + 1) ELSE ObjectEnd(t, v)
    <3>1. v # 0 /\ ObjectEnd(t, j) = Closing(t, w)
      BY <2>1, <2>2, <2>4, ObjectEndsFacts
    <3>2. PICK k, s, c : Member(t, j, k, s, c, v)
      BY <2>2, <3>1, ValueFacts
    <3>3. v \in c + 1 .. Len(t) + 1 /\ c \in j + 1 .. Len(t)
      BY <1>1, <2>2, <3>2 DEF Member
    <3>. HIDE DEF v
    <3>4. w \in 0 .. Len(t) /\ (w # 0 => v \in c + 1 .. Len(t) /\ w \in v + 1 .. Len(t))
          /\ (w # 0 => \/ t[v] = "quote" /\ w = StringEnd(t, v + 1)
                       \/ t[v] = "open" /\ w = ObjectEnd(t, v))
      <4>1. CASE Has(t, v, "quote")
        <5>1. v \in 1 .. Len(t) /\ t[v] = "quote" /\ w = StringEnd(t, v + 1)
          BY <1>1, <4>1 DEF Has
        <5>2. StringEnd(t, v + 1) \in {0} \cup (v + 1 .. Len(t))
          BY <1>1, <5>1, StringFacts
        <5>. QED BY <1>1, <3>3, <5>1, <5>2
      <4>2. CASE ~Has(t, v, "quote")
        <5>1. w = ObjectEnd(t, v)
          BY <4>2
        <5>2. v \in S
          BY <1>1, <1>2, <3>3
        <5>3. v \in 1 .. Len(t) + 1
          BY <1>1, <3>3
        <5>4. ObjectEnd(t, v) \in 0 .. Len(t)
          BY <5>3, ObjectEndsFacts
        <5>5. ObjectEnd(t, v) # 0 =>
                v \in 1 .. Len(t) /\ t[v] = "open" /\ ObjectEnd(t, v) \in v + 1 .. Len(t)
          BY <5>2
        <5>. HIDE DEF S, w
        <5>. QED BY <3>3, <5>1, <5>4, <5>5
      <4>. QED BY <4>1, <4>2
    <3>. HIDE DEF w
    <3>5. /\ w # 0 /\ ObjectEnd(t, j) = After(t, w + 1)
          /\ ObjectEnd(t, j) \in w + 1 .. Len(t) /\ t[ObjectEnd(t, j)] = "close"
      BY <2>1, <3>1, <3>4, ClosingFacts
    <3>6. LongObject(t, j, k, s, c, v, w, ObjectEnd(t, j))
      BY <2>2, <3>2, <3>4, <3>5 DEF LongObject
    <3>7. ObjectEnd(t, j) \in j + 1 .. Len(t)
      BY <1>1, <2>2, <3>3, <3>4, <3>5
    <3>. QED BY <2>2, <3>5, <3>6, <3>7
  <2>. QED BY <2>3, <2>4
<1>3. \A j \in 1 .. Len(t) + 1 : j \in S
  <2>. HIDE DEF S
  <2>1. 1 \in Nat /\ Len(t) + 1 \in Nat
    BY <1>1
  <2>. QED BY <1>2, <2>1, Downward
<1>. QED BY <1>3

\* The parts of an object come one after the other.
LEMMA LongOrder ==
  ASSUME NEW t \in Texts, NEW i \in 1 .. Len(t),
         NEW k, NEW s, NEW c, NEW v, NEW w, NEW e, LongObject(t, i, k, s, c, v, w, e)
  PROVE  /\ {k, s, c, v, w, e} \subseteq 1 .. Len(t)
         /\ i < k /\ k < s /\ s < c /\ c < v /\ v < w /\ w < e
<1>1. Len(t) \in Nat /\ i \in Nat /\ 1 <= i
  BY TextFacts
<1>2. k \in Nat /\ i < k /\ k <= Len(t)
  <2>1. k \in i + 1 .. Len(t)
    BY DEF LongObject, Member
  <2>. QED BY <1>1, <2>1
<1>3. s \in Nat /\ k < s /\ s <= Len(t)
  <2>1. s \in k + 1 .. Len(t)
    BY DEF LongObject, Member
  <2>. QED BY <1>1, <1>2, <2>1
<1>4. c \in Nat /\ s < c /\ c <= Len(t)
  <2>1. c \in s + 1 .. Len(t)
    BY DEF LongObject, Member
  <2>. QED BY <1>1, <1>3, <2>1
<1>5. v \in Nat /\ c < v /\ v <= Len(t)
  <2>1. v \in c + 1 .. Len(t)
    BY DEF LongObject
  <2>. QED BY <1>1, <1>4, <2>1
<1>6. w \in Nat /\ v < w /\ w <= Len(t)
  <2>1. w \in v + 1 .. Len(t)
    BY DEF LongObject
  <2>. QED BY <1>1, <1>5, <2>1
<1>7. e \in Nat /\ w < e /\ e <= Len(t)
  <2>1. e \in w + 1 .. Len(t)
    BY DEF LongObject
  <2>. QED BY <1>1, <1>6, <2>1
<1>8. 1 <= k /\ 1 <= s /\ 1 <= c /\ 1 <= v /\ 1 <= w /\ 1 <= e
  BY <1>1, <1>2, <1>3, <1>4, <1>5, <1>6, <1>7
<1>. QED BY <1>1, <1>2, <1>3, <1>4, <1>5, <1>6, <1>7, <1>8

\* The converse.
LEMMA EmptyObjectIs ==
  ASSUME NEW t \in Texts, NEW i \in 1 .. Len(t), NEW e, EmptyObject(t, i, e)
  PROVE  ObjectEnd(t, i) = e
<1>1. Len(t) \in Nat /\ DOMAIN t = 1 .. Len(t)
  BY TextFacts
<1>2. Has(t, i, "open") /\ Has(t, After(t, i + 1), "close") /\ e = After(t, i + 1)
  BY <1>1 DEF EmptyObject, Has
<1>3. i \in 1 .. Len(t) + 1
  BY <1>1
<1>. QED BY <1>2, <1>3, ObjectEndsFacts

\* The converse, for an object with a member.
LEMMA LongObjectIs ==
  ASSUME NEW t \in Texts, NEW i \in 1 .. Len(t),
         NEW k, NEW s, NEW c, NEW v, NEW w, NEW e, LongObject(t, i, k, s, c, v, w, e)
  PROVE  ObjectEnd(t, i) = e
<1>1. Len(t) \in Nat /\ DOMAIN t = 1 .. Len(t)
  BY TextFacts
<1>2. Member(t, i, k, s, c, v) /\ ValueOf(t, i) = v /\ v # 0
  BY ValueIs DEF LongObject
<1>3. k = After(t, i + 1) /\ k \in 1 .. Len(t) /\ t[k] = "quote" /\ c \in 1 .. Len(t)
  BY <1>1, <1>2 DEF Member
<1>4. v \in 1 .. Len(t) /\ w \in 1 .. Len(t) /\ w # 0
  BY <1>1, <1>3 DEF LongObject
<1>5. Has(t, i, "open") /\ ~Has(t, After(t, i + 1), "close")
  BY <1>1, <1>3 DEF LongObject, Has
<1>6. Closing(t, w) = e
  <2>1. Has(t, After(t, w + 1), "close") /\ e = After(t, w + 1)
    BY <1>1, <1>4 DEF LongObject, Has
  <2>. QED BY <1>4, <2>1 DEF Closing
<1>7. w = IF Has(t, v, "quote") THEN StringEnd(t, v + 1) ELSE ObjectEnd(t, v)
  <2>1. CASE t[v] = "quote" /\ w = StringEnd(t, v + 1)
    BY <1>1, <1>4, <2>1 DEF Has
  <2>2. CASE t[v] = "open" /\ w = ObjectEnd(t, v)
    BY <1>1, <1>4, <2>2 DEF Has
  <2>. QED BY <2>1, <2>2 DEF LongObject
<1>8. ObjectEnd(t, i) = IF Has(t, v, "quote") THEN Closing(t, StringEnd(t, v + 1))
                        ELSE Closing(t, ObjectEnd(t, v))
  <2>1. i \in 1 .. Len(t) + 1
    BY <1>1
  <2>. QED BY <1>2, <1>5, <2>1, ObjectEndsFacts
<1>. QED BY <1>6, <1>7, <1>8
-----------------------------------------------------------------------------
(* The scanner.                                                            *)

Scans == [depth : Int, in_string : BOOLEAN, escaped : BOOLEAN]

\* The scanner outside strings, and in a string.
Idle(d) == [depth |-> d, in_string |-> FALSE, escaped |-> FALSE]

InString(d, escaped) == [depth |-> d, in_string |-> TRUE, escaped |-> escaped]

\* One character outside strings.
LEMMA ScannedIdle ==
  ASSUME NEW d \in Int
  PROVE  /\ Scanned(Idle(d), "blank") = Idle(d)
         /\ Scanned(Idle(d), "colon") = Idle(d)
         /\ Scanned(Idle(d), "open") = Idle(d + 1)
         /\ Scanned(Idle(d), "close") = Idle(d - 1)
         /\ Scanned(Idle(d), "quote") = InString(d, FALSE)
  BY DEF Scanned, Idle, InString

\* One character of a string.
LEMMA ScannedInString ==
  ASSUME NEW d \in Int, NEW escaped \in BOOLEAN, NEW mark \in Marks
  PROVE  /\ escaped \/ mark # "quote" =>
              Scanned(InString(d, escaped), mark) = InString(d, mark = "backslash" /\ ~escaped)
         /\ ~escaped /\ mark = "quote" => Scanned(InString(d, escaped), mark) = Idle(d)
<1>1. CASE escaped = TRUE
  BY <1>1 DEF Scanned, Idle, InString
<1>2. CASE escaped = FALSE
  <2>1. CASE mark = "backslash"
    BY <1>2, <2>1 DEF Scanned, Idle, InString
  <2>2. CASE mark # "backslash"
    BY <1>2, <2>2 DEF Scanned, Idle, InString
  <2>. QED BY <2>1, <2>2
<1>. QED BY <1>1, <1>2

\* The scanner stays a scanner.
LEMMA ScannedType ==
  ASSUME NEW scan \in Scans, NEW mark \in Marks
  PROVE  Scanned(scan, mark) \in Scans
<1>1. scan.depth \in Int /\ scan.in_string \in BOOLEAN /\ scan.escaped \in BOOLEAN
  BY DEF Scans
<1>2. CASE scan.in_string
  <2>. DEFINE escaped == ~scan.escaped /\ mark = "backslash"
              in_string == scan.escaped \/ mark # "quote"
  <2>1. Scanned(scan, mark) = [scan EXCEPT !.escaped = escaped, !.in_string = in_string]
    BY <1>2 DEF Scanned
  <2>2. escaped \in BOOLEAN /\ in_string \in BOOLEAN
    BY <1>1
  <2>. HIDE DEF escaped, in_string
  <2>. QED BY <2>1, <2>2 DEF Scans
<1>3. CASE ~scan.in_string
  <2>. DEFINE depth == IF mark = "open" THEN scan.depth + 1
                       ELSE IF mark = "close" THEN scan.depth - 1 ELSE scan.depth
              in_string == mark = "quote"
  <2>1. Scanned(scan, mark) = [scan EXCEPT !.in_string = in_string, !.depth = depth]
    BY <1>3 DEF Scanned
  <2>2. depth \in Int /\ in_string \in BOOLEAN
    BY <1>1
  <2>. HIDE DEF depth, in_string
  <2>. QED BY <2>1, <2>2 DEF Scans
<1>. QED BY <1>2, <1>3

\* The scanner begins outside strings and takes one character after the other.
LEMMA ScanFacts ==
  ASSUME NEW t \in Texts, NEW i \in 1 .. Len(t) + 1
  PROVE  /\ Scan(t, i) \in [i - 1 .. Len(t) -> Scans]
         /\ Scan(t, i)[i - 1] = Idle(0)
         /\ \A j \in i .. Len(t) : Scan(t, i)[j] = Scanned(Scan(t, i)[j - 1], t[j])
<1>. DEFINE n == Len(t)
            a == i - 1
            step == [j \in a + 1 .. n |-> [v \in Scans |-> Scanned(v, t[j])]]
            F == CHOOSE f : f = [j \in a .. n |-> IF j < i THEN Fresh ELSE Scanned(f[j - 1], t[j])]
<1>1. n \in Nat /\ a \in Nat /\ a <= n /\ a + 1 = i
  BY TextFacts
<1>2. step \in [a + 1 .. n -> [Scans -> Scans]]
  <2>1. ASSUME NEW j \in a + 1 .. n, NEW v \in Scans PROVE Scanned(v, t[j]) \in Scans
    <3>1. t[j] \in Marks
      BY <1>1, TextFacts
    <3>. QED BY <3>1, ScannedType
  <2>. QED BY <2>1
<1>3. PICK g \in [a .. n -> Scans] :
        g[a] = Fresh /\ \A j \in a + 1 .. n : g[j] = step[j][g[j - 1]]
  <2>1. Fresh \in Scans
    BY DEF Fresh, Scans
  <2>2. step \in Steps(a, n, Scans)
    BY <1>2 DEF Steps
  <2>. HIDE DEF step, n, a
  <2>3. \E g \in [a .. n -> Scans] : Iterates(g, a, n, Fresh, step)
    BY <1>1, <2>1, <2>2, Recursion
  <2>. QED BY <2>3 DEF Iterates
<1>4. \A j \in a .. n : g[j] = IF j < i THEN Fresh ELSE Scanned(g[j - 1], t[j])
  <2>1. SUFFICES ASSUME NEW j \in a .. n
                 PROVE  g[j] = IF j < i THEN Fresh ELSE Scanned(g[j - 1], t[j])
    OBVIOUS
  <2>2. CASE j = a
    BY <1>1, <1>3, <2>2
  <2>3. CASE j # a
    <3>1. j \in a + 1 .. n /\ ~(j < i) /\ j - 1 \in a .. n
      BY <1>1, <2>3
    <3>2. g[j] = step[j][g[j - 1]] /\ g[j - 1] \in Scans
      BY <1>3, <3>1
    <3>. QED BY <3>1, <3>2
  <2>. QED BY <2>2, <2>3
<1>5. g = [j \in a .. n |-> IF j < i THEN Fresh ELSE Scanned(g[j - 1], t[j])]
  BY <1>4
<1>6. F = [j \in a .. n |-> IF j < i THEN Fresh ELSE Scanned(F[j - 1], t[j])]
  BY <1>5
<1>7. Scan(t, i) = F
  BY DEF Scan
<1>. HIDE DEF F
<1>8. F[a] = Fresh
  <2>1. a \in a .. n /\ a < i
    BY <1>1
  <2>. HIDE DEF a, n
  <2>. QED BY <1>6, <2>1
<1>9. \A j \in a + 1 .. n : F[j] = Scanned(F[j - 1], t[j])
  <2>1. \A j \in a + 1 .. n : j \in a .. n /\ ~(j < i)
    BY <1>1
  <2>. HIDE DEF a, n
  <2>. QED BY <1>6, <2>1
<1>10. \A j \in a .. n : F[j] \in Scans
  <2>. DEFINE S == {j \in a .. n : F[j] \in Scans}
  <2>1. ASSUME NEW j \in a .. n, \A l \in a .. j - 1 : l \in S PROVE j \in S
    <3>1. CASE j = a
      <4>1. Fresh \in Scans
        BY DEF Fresh, Scans
      <4>2. F[j] \in Scans
        BY <1>8, <3>1, <4>1
      <4>. QED BY <4>2
    <3>2. CASE j # a
      <4>1. j \in a + 1 .. n /\ j - 1 \in a .. j - 1 /\ t[j] \in Marks
        BY <1>1, <3>2, TextFacts
      <4>2. F[j - 1] \in Scans
        BY <2>1, <4>1
      <4>3. F[j] \in Scans
        BY <1>9, <4>1, <4>2, ScannedType
      <4>. QED BY <4>3
    <3>. QED BY <3>1, <3>2
  <2>2. \A j \in a .. n : j \in S
    <3>. HIDE DEF S, a, n
    <3>. QED BY <1>1, <2>1, Upward
  <2>. QED BY <2>2
<1>11. F \in [a .. n -> Scans]
  <2>. HIDE DEF a, n
  <2>. QED BY <1>6, <1>10
<1>12. Fresh = Idle(0)
  BY DEF Fresh, Idle
<1>. QED BY <1>1, <1>7, <1>8, <1>9, <1>11, <1>12

\* Blanks change nothing.
LEMMA BlankScan ==
  ASSUME NEW t \in Texts, NEW b \in 1 .. Len(t) + 1, NEW i \in b .. Len(t) + 1, NEW d \in Int,
         Scan(t, b)[i - 1] = Idle(d)
  PROVE  \A j \in i - 1 .. After(t, i) - 1 : Scan(t, b)[j] = Idle(d)
<1>. DEFINE m == After(t, i) - 1
            S == {j \in i - 1 .. m : Scan(t, b)[j] = Idle(d)}
<1>1. Len(t) \in Nat
  BY TextFacts
<1>2. m \in i - 1 .. Len(t) /\ \A j \in i .. m : t[j] = "blank"
  <2>1. i \in 1 .. Len(t) + 1
    BY <1>1
  <2>2. /\ After(t, i) \in i .. Len(t) + 1
        /\ \A j \in i .. After(t, i) - 1 : t[j] = "blank"
    BY <2>1, AfterFacts
  <2>. QED BY <1>1, <2>2
<1>3. ASSUME NEW j \in i - 1 .. m, \A l \in i - 1 .. j - 1 : l \in S PROVE j \in S
  <2>1. CASE j = i - 1
    BY <2>1
  <2>2. CASE j # i - 1
    <3>1. j - 1 \in i - 1 .. j - 1 /\ j \in i .. m /\ j \in b .. Len(t)
      BY <1>1, <1>2, <2>2
    <3>2. Scan(t, b)[j - 1] = Idle(d) /\ t[j] = "blank"
      BY <1>2, <1>3, <3>1
    <3>3. Scan(t, b)[j] = Scanned(Scan(t, b)[j - 1], t[j])
      BY <3>1, ScanFacts
    <3>. QED BY <3>2, <3>3, ScannedIdle
  <2>. QED BY <2>1, <2>2
<1>4. \A j \in i - 1 .. m : j \in S
  <2>1. i - 1 \in Nat /\ m \in Nat
    BY <1>1, <1>2
  <2>2. \A j \in i - 1 .. m : (\A l \in i - 1 .. j - 1 : l \in S) => j \in S
    BY <1>3
  <2>. DEFINE a == i - 1
  <2>3. a \in Nat /\ \A j \in a .. m : (\A l \in a .. j - 1 : l \in S) => j \in S
    BY <2>1, <2>2
  <2>. HIDE DEF S, m, a
  <2>4. \A j \in a .. m : j \in S
    BY <2>1, <2>3, Upward
  <2>. QED BY <2>4 DEF a
<1>. QED BY <1>4

\* The scanner leaves a string where json.loads does, and counts no brace in it.
LEMMA StringScan ==
  ASSUME NEW t \in Texts, NEW b \in 1 .. Len(t) + 1, NEW i \in b .. Len(t) + 1, NEW d \in Int,
         Scan(t, b)[i - 1] = InString(d, FALSE), StringEnd(t, i) # 0
  PROVE  /\ \A j \in i - 1 .. StringEnd(t, i) - 1 :
              Scan(t, b)[j] = InString(d, Escaping(t, i)[j])
         /\ Scan(t, b)[StringEnd(t, i)] = Idle(d)
<1>. DEFINE m == StringEnd(t, i) - 1
            a == i - 1
            S == {j \in a .. m : Scan(t, b)[j] = InString(d, Escaping(t, i)[j])}
<1>1. Len(t) \in Nat /\ i \in 1 .. Len(t) + 1
  BY TextFacts
<1>2. /\ StringEnd(t, i) \in i .. Len(t)
      /\ t[StringEnd(t, i)] = "quote" /\ ~Escaping(t, i)[StringEnd(t, i) - 1]
      /\ \A j \in i .. StringEnd(t, i) - 1 : t[j] = "quote" => Escaping(t, i)[j - 1]
  BY <1>1, StringFacts
<1>3. /\ Escaping(t, i) \in [a .. Len(t) -> BOOLEAN]
      /\ Escaping(t, i)[a] = FALSE
      /\ \A j \in i .. Len(t) :
           Escaping(t, i)[j] = (t[j] = "backslash" /\ ~Escaping(t, i)[j - 1])
  BY <1>1, EscapingFacts
<1>4. ASSUME NEW j \in a .. m, \A l \in a .. j - 1 : l \in S PROVE j \in S
  <2>1. CASE j = a
    BY <1>3, <2>1
  <2>2. CASE j # a
    <3>1. /\ j - 1 \in a .. j - 1 /\ j \in i .. StringEnd(t, i) - 1 /\ j \in b .. Len(t)
          /\ j \in i .. Len(t) /\ j - 1 \in a .. Len(t) /\ j \in 1 .. Len(t)
      BY <1>1, <1>2, <2>2
    <3>2. Scan(t, b)[j - 1] = InString(d, Escaping(t, i)[j - 1])
      BY <1>4, <3>1
    <3>3. Scan(t, b)[j] = Scanned(Scan(t, b)[j - 1], t[j])
      BY <3>1, ScanFacts
    <3>4. t[j] \in Marks /\ Escaping(t, i)[j - 1] \in BOOLEAN
      BY <1>3, <3>1, TextFacts
    <3>5. Escaping(t, i)[j - 1] \/ t[j] # "quote"
      BY <1>2, <3>1
    <3>6. Scan(t, b)[j] = InString(d, t[j] = "backslash" /\ ~Escaping(t, i)[j - 1])
      BY <3>2, <3>3, <3>4, <3>5, ScannedInString
    <3>7. Escaping(t, i)[j] = (t[j] = "backslash" /\ ~Escaping(t, i)[j - 1])
      BY <1>3, <3>1
    <3>. QED BY <3>6, <3>7
  <2>. QED BY <2>1, <2>2
<1>5. \A j \in a .. m : j \in S
  <2>1. a \in Nat /\ m \in Nat
    BY <1>1, <1>2
  <2>. HIDE DEF S, m, a
  <2>. QED BY <1>4, <2>1, Upward
<1>6. Scan(t, b)[StringEnd(t, i)] = Idle(d)
  <2>. DEFINE e == StringEnd(t, i)
  <2>1. e - 1 \in a .. m /\ e \in b .. Len(t) /\ e - 1 \in a .. Len(t)
    BY <1>1, <1>2
  <2>2. Scan(t, b)[e - 1] = InString(d, Escaping(t, i)[e - 1])
    BY <1>5, <2>1
  <2>3. Scan(t, b)[e] = Scanned(Scan(t, b)[e - 1], t[e])
    <3>. HIDE DEF e
    <3>. QED BY <2>1, ScanFacts
  <2>4. Escaping(t, i)[e - 1] \in BOOLEAN /\ t[e] = "quote" /\ ~Escaping(t, i)[e - 1]
    BY <1>2, <1>3, <2>1
  <2>5. "quote" \in Marks
    BY DEF Marks
  <2>. HIDE DEF e
  <2>6. Scan(t, b)[e] = Idle(d)
    BY <2>2, <2>3, <2>4, <2>5, ScannedInString
  <2>. QED BY <2>6 DEF e
<1>. QED BY <1>5, <1>6
\* The same as steps of the scanner: to the next mark, and over a string.
LEMMA MarkScan ==
  ASSUME NEW t \in Texts, NEW b \in 1 .. Len(t) + 1, NEW i \in b .. Len(t) + 1, NEW d \in Int,
         Scan(t, b)[i - 1] = Idle(d), NEW n \in i .. Len(t), n = After(t, i)
  PROVE  /\ Scan(t, b)[n] = Scanned(Idle(d), t[n])
         /\ \A j \in i - 1 .. n - 1 : Scan(t, b)[j].depth = d
<1>1. \A j \in i - 1 .. n - 1 : Scan(t, b)[j] = Idle(d)
  BY BlankScan
<1>2. n - 1 \in i - 1 .. n - 1 /\ n \in b .. Len(t)
  BY TextFacts
<1>3. Scan(t, b)[n] = Scanned(Scan(t, b)[n - 1], t[n])
  BY <1>2, ScanFacts
<1>4. Idle(d).depth = d
  BY DEF Idle
<1>. QED BY <1>1, <1>2, <1>3, <1>4

\* Over a string, from its opening quote.
LEMMA QuotedScan ==
  ASSUME NEW t \in Texts, NEW b \in 1 .. Len(t) + 1, NEW q \in b .. Len(t), NEW d \in Int,
         Scan(t, b)[q] = InString(d, FALSE), StringEnd(t, q + 1) # 0
  PROVE  /\ Scan(t, b)[StringEnd(t, q + 1)] = Idle(d)
         /\ \A j \in q .. StringEnd(t, q + 1) - 1 : Scan(t, b)[j].depth = d
<1>. DEFINE i == q + 1
<1>1. i \in b .. Len(t) + 1 /\ i - 1 = q
  BY TextFacts
<1>. HIDE DEF i
<1>2. StringEnd(t, i) # 0 /\ Scan(t, b)[i - 1] = InString(d, FALSE)
  BY <1>1 DEF i
<1>3. /\ \A j \in i - 1 .. StringEnd(t, i) - 1 :
           Scan(t, b)[j] = InString(d, Escaping(t, i)[j])
      /\ Scan(t, b)[StringEnd(t, i)] = Idle(d)
  BY <1>1, <1>2, StringScan
<1>4. \A escaped : InString(d, escaped).depth = d
  BY DEF InString
<1>5. \A j \in q .. StringEnd(t, i) - 1 : Scan(t, b)[j].depth = d
  BY <1>1, <1>3, <1>4
<1>. QED BY <1>3, <1>5 DEF i

\* Where an object ends its brace is closed, and no sooner.
LEMMA ObjectScan ==
  ASSUME NEW t \in Texts, NEW b \in 1 .. Len(t) + 1
  PROVE  \A i \in b .. Len(t) + 1 : \A d \in Int :
           Scan(t, b)[i - 1] = Idle(d) /\ ObjectEnd(t, i) # 0 =>
             /\ Scan(t, b)[ObjectEnd(t, i)] = Idle(d)
             /\ \A j \in i .. ObjectEnd(t, i) - 1 : Scan(t, b)[j].depth >= d + 1
<1>. DEFINE Within(i, d) ==
              /\ Scan(t, b)[ObjectEnd(t, i)] = Idle(d)
              /\ \A j \in i .. ObjectEnd(t, i) - 1 : Scan(t, b)[j].depth >= d + 1
            S == {i \in b .. Len(t) + 1 : \A d \in Int :
                    Scan(t, b)[i - 1] = Idle(d) /\ ObjectEnd(t, i) # 0 => Within(i, d)}
<1>1. Len(t) \in Nat
  BY TextFacts
<1>2. ASSUME NEW i \in b .. Len(t) + 1, \A j \in i + 1 .. Len(t) + 1 : j \in S PROVE i \in S
  <2>1. SUFFICES ASSUME NEW d \in Int, Scan(t, b)[i - 1] = Idle(d), ObjectEnd(t, i) # 0
                 PROVE  Within(i, d)
    OBVIOUS
  <2>. DEFINE e == ObjectEnd(t, i)
              scan == Scan(t, b)
              D == d + 1
              Deep(x, y) == \A j \in x .. y - 1 : scan[j].depth >= D
  <2>2. i \in 1 .. Len(t) + 1
    BY <1>1
  <2>3. /\ i \in b .. Len(t) /\ t[i] = "open" /\ e \in i + 1 .. Len(t) /\ t[e] = "close"
        /\ EmptyObject(t, i, e) \/ \E k, s, c, v, w : LongObject(t, i, k, s, c, v, w, e)
    BY <1>1, <2>1, <2>2, ObjectFacts
  <2>4. D \in Int /\ D - 1 = d
    OBVIOUS
  <2>5. scan[i] = Idle(D)
    <3>1. scan[i] = Scanned(scan[i - 1], t[i])
      BY <2>3, ScanFacts
    <3>. QED BY <2>1, <2>3, <3>1, ScannedIdle
  <2>. SUFFICES scan[e] = Idle(d) /\ Deep(i, e)
    OBVIOUS
  <2>. HIDE DEF e, scan, D
  <2>6. ASSUME NEW w \in i .. Len(t), scan[w] = Idle(D), e = After(t, w + 1), e \in w + 1 .. Len(t),
               Deep(i, w)
        PROVE  scan[e] = Idle(d) /\ Deep(i, e)
    <3>. DEFINE q == w + 1
    <3>1. q \in b .. Len(t) + 1 /\ q - 1 = w /\ e \in q .. Len(t) /\ e = After(t, q)
      BY <1>1, <2>6
    <3>. HIDE DEF q
    <3>2. scan[q - 1] = Idle(D)
      BY <2>6, <3>1
    <3>3. /\ scan[e] = Scanned(Idle(D), t[e])
          /\ \A j \in q - 1 .. e - 1 : scan[j].depth = D
      BY <2>4, <3>1, <3>2, MarkScan DEF scan
    <3>4. scan[e] = Idle(d)
      BY <2>3, <2>4, <3>3, ScannedIdle
    <3>5. Deep(i, e)
      <4>1. SUFFICES ASSUME NEW j \in i .. e - 1 PROVE scan[j].depth >= D
        OBVIOUS
      <4>2. CASE j < w
        BY <2>6, <4>2
      <4>3. CASE ~(j < w)
        <5>1. j \in q - 1 .. e - 1
          BY <2>6, <3>1, <4>3
        <5>2. scan[j].depth = D
          BY <3>3, <5>1
        <5>. QED BY <2>4, <5>2
      <4>. QED BY <4>2, <4>3
    <3>. QED BY <3>4, <3>5
  <2>7. CASE EmptyObject(t, i, e)
    <3>1. e = After(t, i + 1) /\ i \in i .. Len(t)
      BY <1>1, <2>3, <2>7 DEF EmptyObject
    <3>2. Deep(i, i)
      OBVIOUS
    <3>. QED BY <2>3, <2>5, <2>6, <3>1, <3>2
  <2>8. CASE \E k, s, c, v, w : LongObject(t, i, k, s, c, v, w, e)
    <3>1. PICK k, s, c, v, w : LongObject(t, i, k, s, c, v, w, e)
      BY <2>8
    <3>2. /\ k = After(t, i + 1) /\ k \in i + 1 .. Len(t) /\ t[k] = "quote"
          /\ s = StringEnd(t, k + 1) /\ s \in k + 1 .. Len(t)
          /\ c = After(t, s + 1) /\ c \in s + 1 .. Len(t) /\ t[c] = "colon"
          /\ v = After(t, c + 1) /\ v \in c + 1 .. Len(t)
          /\ w \in v + 1 .. Len(t) /\ e = After(t, w + 1) /\ e \in w + 1 .. Len(t)
          /\ \/ t[v] = "quote" /\ w = StringEnd(t, v + 1)
             \/ t[v] = "open" /\ w = ObjectEnd(t, v)
      BY <3>1 DEF LongObject, Member
    <3>3. \* from a mark to the next one
          ASSUME NEW x \in i .. Len(t), NEW y \in x + 1 .. Len(t), y = After(t, x + 1),
                 scan[x] = Idle(D), Deep(i, x)
          PROVE  scan[y] = Scanned(Idle(D), t[y]) /\ scan[y - 1] = Idle(D) /\ Deep(i, y)
      <4>. DEFINE q == x + 1
      <4>1. /\ q \in b .. Len(t) + 1 /\ q - 1 = x /\ y \in q .. Len(t) /\ y = After(t, q)
            /\ y - 1 \in q - 1 .. y - 1
        BY <1>1, <3>3
      <4>. HIDE DEF q
      <4>2. scan[q - 1] = Idle(D)
        BY <3>3, <4>1
      <4>3. /\ scan[y] = Scanned(Idle(D), t[y])
            /\ \A j \in q - 1 .. y - 1 : scan[j].depth = D
        BY <2>4, <4>1, <4>2, MarkScan DEF scan
      <4>4. scan[y - 1] = Idle(D)
        BY <2>4, <4>1, <4>2, BlankScan DEF scan
      <4>5. Deep(i, y)
        <5>1. SUFFICES ASSUME NEW j \in i .. y - 1 PROVE scan[j].depth >= D
          OBVIOUS
        <5>2. CASE j < x
          BY <3>3, <5>2
        <5>3. CASE ~(j < x)
          <6>1. j \in q - 1 .. y - 1
            BY <4>1, <5>3
          <6>2. scan[j].depth = D
            BY <4>3, <6>1
          <6>. QED BY <2>4, <6>2
        <5>. QED BY <5>2, <5>3
      <4>. QED BY <4>3, <4>4, <4>5
    <3>4. \* over a string
          ASSUME NEW x \in i .. Len(t), NEW y \in x + 1 .. Len(t), y = StringEnd(t, x + 1),
                 scan[x] = InString(D, FALSE), Deep(i, x)
          PROVE  scan[y] = Idle(D) /\ Deep(i, y)
      <4>1. x \in b .. Len(t) /\ StringEnd(t, x + 1) # 0
        BY <1>1, <3>4
      <4>2. scan[y] = Idle(D) /\ \A j \in x .. y - 1 : scan[j].depth = D
        BY <2>4, <3>4, <4>1, QuotedScan DEF scan
      <4>3. Deep(i, y)
        <5>1. SUFFICES ASSUME NEW j \in i .. y - 1 PROVE scan[j].depth >= D
          OBVIOUS
        <5>2. CASE j < x
          BY <3>4, <5>2
        <5>3. CASE ~(j < x)
          <6>1. j \in x .. y - 1
            BY <5>3
          <6>2. scan[j].depth = D
            BY <4>2, <6>1
          <6>. QED BY <2>4, <6>2
        <5>. QED BY <5>2, <5>3
      <4>. QED BY <4>2, <4>3
    <3>5. Deep(i, i) /\ i \in i .. Len(t)
      BY <1>1, <2>3
    <3>6. scan[k] = InString(D, FALSE) /\ Deep(i, k)
      <4>1. scan[k] = Scanned(Idle(D), t[k]) /\ Deep(i, k)
        BY <2>5, <3>2, <3>3, <3>5
      <4>. QED BY <2>4, <3>2, <4>1, ScannedIdle
    <3>7. scan[s] = Idle(D) /\ Deep(i, s)
      <4>1. k \in i .. Len(t)
        BY <1>1, <2>3, <3>2
      <4>. HIDE DEF Deep
      <4>. QED BY <3>2, <3>4, <3>6, <4>1
    <3>8. scan[c] = Idle(D) /\ Deep(i, c)
      <4>1. s \in i .. Len(t)
        BY <1>1, <2>3, <3>2
      <4>2. scan[c] = Scanned(Idle(D), t[c]) /\ Deep(i, c)
        <5>. HIDE DEF Deep
        <5>. QED BY <3>2, <3>3, <3>7, <4>1
      <4>. QED BY <2>4, <3>2, <4>2, ScannedIdle
    <3>9. scan[v] = Scanned(Idle(D), t[v]) /\ scan[v - 1] = Idle(D) /\ Deep(i, v)
      <4>1. c \in i .. Len(t)
        BY <1>1, <2>3, <3>2
      <4>. HIDE DEF Deep
      <4>. QED BY <3>2, <3>3, <3>8, <4>1
    <3>10. /\ v \in i + 1 .. Len(t) /\ v \in i + 1 .. Len(t) + 1 /\ v \in b .. Len(t) + 1
           /\ v \in i .. Len(t)
           /\ w \in v + 1 .. Len(t) /\ w \in i .. Len(t) /\ w # 0 /\ w - 1 \in b - 1 .. Len(t)
      <4>1. i \in 1 .. Len(t) /\ b \in Nat /\ b <= i
        BY <1>1, <2>3
      <4>2. {k, s, c, v, w} \subseteq 1 .. Len(t)
            /\ i < k /\ k < s /\ s < c /\ c < v /\ v < w
        BY <3>1, <4>1, LongOrder
      <4>3. i < v /\ v \in 1 .. Len(t) /\ w \in 1 .. Len(t) /\ v < w
        BY <1>1, <4>1, <4>2
      <4>. HIDE DEF S
      <4>. QED BY <1>1, <4>1, <4>3
    <3>11. scan[w] = Idle(D) /\ Deep(i, w)
      <4>1. CASE t[v] = "quote" /\ w = StringEnd(t, v + 1)
        <5>1. scan[v] = InString(D, FALSE) /\ v \in i .. Len(t)
          BY <2>4, <3>9, <3>10, <4>1, ScannedIdle
        <5>. HIDE DEF Deep
        <5>. QED BY <3>2, <3>4, <3>9, <4>1, <5>1
      <4>2. CASE t[v] = "open" /\ w = ObjectEnd(t, v)
        <5>1. v \in S /\ ObjectEnd(t, v) # 0
          <6>. HIDE DEF S
          <6>. QED BY <1>2, <3>10, <4>2
        <5>2. Within(v, D)
          BY <2>4, <3>9, <5>1 DEF scan
        <5>3. scan[w] = Idle(D) /\ \A j \in v .. w - 1 : scan[j].depth >= D + 1
          BY <4>2, <5>2 DEF scan
        <5>5. \A j \in i .. w - 1 : scan[j].depth \in Int
          <6>1. SUFFICES ASSUME NEW j \in i .. w - 1 PROVE scan[j].depth \in Int
            OBVIOUS
          <6>2. j \in b - 1 .. Len(t)
            BY <1>1, <3>10
          <6>3. scan[j] \in Scans
            BY <6>2, ScanFacts DEF scan
          <6>. QED BY <6>3 DEF Scans
        <5>6. Deep(i, w)
          <6>1. SUFFICES ASSUME NEW j \in i .. w - 1 PROVE scan[j].depth >= D
            OBVIOUS
          <6>2. CASE j < v
            BY <3>9, <3>10, <6>2
          <6>3. CASE ~(j < v)
            <7>1. j \in v .. w - 1
              BY <3>10, <6>3
            <7>2. scan[j].depth >= D + 1 /\ scan[j].depth \in Int
              BY <5>3, <5>5, <7>1
            <7>. QED BY <2>4, <7>2
          <6>. QED BY <6>2, <6>3
        <5>. QED BY <5>3, <5>6
      <4>. QED BY <3>2, <4>1, <4>2
    <3>. HIDE DEF Deep
    <3>. QED BY <2>6, <3>2, <3>10, <3>11
  <2>. QED BY <2>3, <2>7, <2>8
<1>3. \A i \in b .. Len(t) + 1 : i \in S
  <2>1. b \in Nat /\ Len(t) + 1 \in Nat
    BY <1>1
  <2>. HIDE DEF S
  <2>. QED BY <1>2, <2>1, Downward
<1>. QED BY <1>3

\* So the scanner finds every object from its first brace on.
LEMMA ObjectBalanced ==
  ASSUME NEW t \in Texts, NEW b \in 1 .. Len(t), ObjectEnd(t, b) # 0
  PROVE  b \in Starts(t) /\ BalancedFrom(t, b) = SubSeq(t, b, ObjectEnd(t, b))
<1>. DEFINE e == ObjectEnd(t, b)
            E == BalancedEnds(t, b)
<1>1. Len(t) \in Nat /\ DOMAIN t = 1 .. Len(t) /\ b \in 1 .. Len(t) + 1 /\ b \in b .. Len(t) + 1
  BY TextFacts
<1>2. t[b] = "open" /\ e \in b + 1 .. Len(t) /\ t[e] = "close"
  BY <1>1, ObjectFacts
<1>3. Scan(t, b)[b - 1] = Idle(0) /\ 0 \in Int
  BY <1>1, ScanFacts
<1>4. Scan(t, b)[e] = Idle(0) /\ \A j \in b .. e - 1 : Scan(t, b)[j].depth >= 0 + 1
  BY <1>1, <1>3, ObjectScan
<1>5. Idle(0).in_string = FALSE /\ Idle(0).depth = 0
  BY DEF Idle
<1>6. e \in E
  BY <1>1, <1>2, <1>4, <1>5 DEF BalancedEnds
<1>7. \A j \in E : e <= j
  <2>1. SUFFICES ASSUME NEW j \in E, ~(e <= j) PROVE FALSE
    OBVIOUS
  <2>2. j \in b .. Len(t) /\ Scan(t, b)[j].depth = 0
    BY DEF BalancedEnds
  <2>3. j \in b .. e - 1
    BY <1>1, <1>2, <2>1, <2>2
  <2>4. Scan(t, b)[j].depth >= 0 + 1
    BY <1>4, <2>3
  <2>. QED BY <2>2, <2>4
<1>8. Min(E) = e
  <2>1. E \in SUBSET Nat /\ E # {}
    BY <1>1, <1>6 DEF BalancedEnds
  <2>. HIDE DEF E, e
  <2>2. Min(E) \in E /\ Min(E) <= e
    BY <1>6, <2>1, Least
  <2>3. e <= Min(E) /\ e \in Nat /\ Min(E) \in Nat
    BY <1>6, <1>7, <2>1, <2>2
  <2>. QED BY <2>2, <2>3
<1>. QED BY <1>1, <1>2, <1>6, <1>8 DEF Starts, BalancedFrom
-----------------------------------------------------------------------------
(* An object is the same object wherever its text stands.                  *)

\* From first to last, y has h places further what x has.
Copied(x, y, h, first, last) ==
  /\ h \in Int /\ first \in 1 .. last /\ last <= Len(x)
  /\ \A i \in first .. last : i + h \in 1 .. Len(y) /\ y[i + h] = x[i]

\* The same, seen from y.
LEMMA CopiedBack ==
  ASSUME NEW x \in Texts, NEW y \in Texts, NEW h, NEW first, NEW last \in Nat,
         Copied(x, y, h, first, last),
         NEW j, j - h \in first .. last, j \in Int
  PROVE  j \in 1 .. Len(y) /\ y[j] = x[j - h]
<1>1. (j - h) + h = j
  BY DEF Copied
<1>2. (j - h) + h \in 1 .. Len(y) /\ y[(j - h) + h] = x[j - h]
  BY DEF Copied
<1>. QED BY <1>1, <1>2

\* After finds the same mark.
LEMMA CopiedAfter ==
  ASSUME NEW x \in Texts, NEW y \in Texts, NEW h, NEW first, NEW last \in Nat,
         Copied(x, y, h, first, last),
         NEW i \in first .. last, After(x, i) \in i .. last
  PROVE  After(y, i + h) = After(x, i) + h
<1>. DEFINE n == After(x, i)
            p == i + h
            q == n + h
<1>1. Len(x) \in Nat /\ Len(y) \in Nat
  BY TextFacts
<1>2. h \in Int /\ first \in 1 .. last /\ last <= Len(x)
  BY DEF Copied
<1>3. i \in 1 .. Len(x) + 1 /\ n \in first .. last /\ n \in 1 .. Len(x) /\ n \in Nat /\ i \in Nat
  BY <1>1, <1>2
<1>4. x[n] # "blank" /\ \A j \in i .. n - 1 : x[j] = "blank"
  BY <1>3, AfterFacts
<1>5. p \in 1 .. Len(y) /\ q \in 1 .. Len(y) /\ y[q] = x[n]
  BY <1>3 DEF Copied
<1>6. p \in 1 .. Len(y) + 1 /\ q \in p .. Len(y)
  BY <1>1, <1>2, <1>3, <1>5
<1>7. ASSUME NEW j \in p .. q - 1 PROVE y[j] = "blank"
  <2>1. j \in Int /\ j - h \in first .. last /\ j - h \in i .. n - 1
    BY <1>1, <1>2, <1>3, <1>5
  <2>2. y[j] = x[j - h]
    BY <2>1, CopiedBack
  <2>. QED BY <1>4, <2>1, <2>2
<1>. HIDE DEF p, q, n
<1>8. After(y, p) = q
  BY <1>4, <1>5, <1>6, <1>7, AfterIs
<1>. QED BY <1>8 DEF p, q, n

\* The same marks are escaped.
LEMMA CopiedEscaping ==
  ASSUME NEW x \in Texts, NEW y \in Texts, NEW h, NEW first, NEW last \in Nat,
         Copied(x, y, h, first, last),
         NEW i \in first .. last
  PROVE  \A j \in i - 1 .. last : Escaping(y, i + h)[j + h] = Escaping(x, i)[j]
<1>. DEFINE a == i - 1
            p == i + h
            S == {j \in a .. last : Escaping(y, p)[j + h] = Escaping(x, i)[j]}
<1>1. Len(x) \in Nat /\ Len(y) \in Nat
  BY TextFacts
<1>2. h \in Int /\ first \in 1 .. last /\ last <= Len(x)
  BY DEF Copied
<1>3. i \in 1 .. Len(x) + 1 /\ i \in Nat /\ a \in Nat
  BY <1>1, <1>2
<1>4. p \in 1 .. Len(y) + 1
  <2>1. p \in 1 .. Len(y)
    BY DEF Copied
  <2>. QED BY <1>1, <2>1
<1>5. /\ Escaping(x, i)[i - 1] = FALSE
      /\ \A j \in i .. Len(x) :
           Escaping(x, i)[j] = (x[j] = "backslash" /\ ~Escaping(x, i)[j - 1])
  BY <1>3, EscapingFacts
<1>6. /\ Escaping(y, p)[p - 1] = FALSE
      /\ \A j \in p .. Len(y) :
           Escaping(y, p)[j] = (y[j] = "backslash" /\ ~Escaping(y, p)[j - 1])
  <2>. HIDE DEF p
  <2>. QED BY <1>4, EscapingFacts
<1>7. ASSUME NEW j \in a .. last, \A l \in a .. j - 1 : l \in S PROVE j \in S
  <2>1. CASE j = a
    <3>1. j + h = p - 1 /\ j = i - 1
      BY <1>2, <1>3, <2>1
    <3>2. Escaping(y, p)[j + h] = Escaping(x, i)[j]
      <4>. HIDE DEF p, a
      <4>. QED BY <1>5, <1>6, <3>1
    <3>. QED BY <3>2
  <2>2. CASE j # a
    <3>1. j - 1 \in a .. j - 1 /\ j \in first .. last /\ j \in i .. Len(x) /\ j \in Nat
      BY <1>1, <1>2, <1>3, <2>2
    <3>2. j + h \in 1 .. Len(y) /\ y[j + h] = x[j]
      BY <3>1 DEF Copied
    <3>3. j + h \in p .. Len(y) /\ (j + h) - 1 = (j - 1) + h
      BY <1>1, <1>2, <1>3, <3>1, <3>2
    <3>. DEFINE q == j + h
                r == j - 1
    <3>4. q \in p .. Len(y) /\ q - 1 = r + h /\ y[q] = x[j] /\ r \in S
      BY <1>7, <3>1, <3>2, <3>3
    <3>5. Escaping(y, p)[r + h] = Escaping(x, i)[r]
      <4>. HIDE DEF q, r, p
      <4>. QED BY <3>4
    <3>6. Escaping(x, i)[j] = (x[j] = "backslash" /\ ~Escaping(x, i)[r])
      BY <1>5, <3>1
    <3>7. Escaping(y, p)[q] = (y[q] = "backslash" /\ ~Escaping(y, p)[q - 1])
      <4>. HIDE DEF q, r, p
      <4>. QED BY <1>6, <3>4
    <3>8. Escaping(y, p)[q] = Escaping(x, i)[j]
      <4>. HIDE DEF q, r, p, S
      <4>. QED BY <3>4, <3>5, <3>6, <3>7
    <3>. QED BY <3>8
  <2>. QED BY <2>1, <2>2
<1>8. \A j \in a .. last : j \in S
  <2>. HIDE DEF S, a
  <2>. QED BY <1>3, <1>7, Upward
<1>. QED BY <1>8

\* A string is the same string.
LEMMA CopiedString ==
  ASSUME NEW x \in Texts, NEW y \in Texts, NEW h, NEW first, NEW last \in Nat,
         Copied(x, y, h, first, last),
         NEW i \in first .. last, StringEnd(x, i) \in i .. last
  PROVE  StringEnd(y, i + h) = StringEnd(x, i) + h
<1>. DEFINE n == StringEnd(x, i)
            p == i + h
            q == n + h
<1>1. Len(x) \in Nat /\ Len(y) \in Nat
  BY TextFacts
<1>2. h \in Int /\ first \in 1 .. last /\ last <= Len(x)
  BY DEF Copied
<1>3. /\ i \in 1 .. Len(x) + 1 /\ n \in first .. last /\ n # 0
      /\ n \in Nat /\ i \in Nat /\ i <= n /\ n <= last /\ first <= i
  BY <1>1, <1>2
<1>4. /\ x[n] = "quote" /\ ~Escaping(x, i)[n - 1]
      /\ \A j \in i .. n - 1 : x[j] = "quote" => Escaping(x, i)[j - 1]
      /\ \A j \in i .. n : Escaping(x, i)[j - 1] => x[j] \in {"quote", "backslash"}
  BY <1>3, StringFacts
<1>5. p \in 1 .. Len(y) /\ q \in 1 .. Len(y) /\ y[q] = x[n]
  BY <1>3 DEF Copied
<1>6. p \in 1 .. Len(y) + 1 /\ q \in p .. Len(y)
  BY <1>1, <1>2, <1>3, <1>5
<1>7. ASSUME NEW j \in p .. q
      PROVE  /\ y[j] = x[j - h] /\ Escaping(y, p)[j - 1] = Escaping(x, i)[(j - h) - 1]
             /\ j - h \in i .. n /\ (j # q => j - h \in i .. n - 1)
  <2>1. j \in Int /\ j - h \in first .. last /\ j - h \in i .. n /\ (j # q => j - h \in i .. n - 1)
    BY <1>1, <1>2, <1>3, <1>5
  <2>2. y[j] = x[j - h]
    BY <2>1, CopiedBack
  <2>. DEFINE m == (j - h) - 1
  <2>3. m \in i - 1 .. last /\ m + h = j - 1
    BY <1>2, <1>3, <2>1
  <2>4. Escaping(y, i + h)[m + h] = Escaping(x, i)[m]
    <3>. HIDE DEF m
    <3>. QED BY <2>3, CopiedEscaping
  <2>5. Escaping(y, p)[j - 1] = Escaping(x, i)[m]
    <3>. HIDE DEF m
    <3>. QED BY <2>3, <2>4
  <2>. QED BY <2>1, <2>2, <2>5
<1>8. ~Escaping(y, p)[q - 1]
  <2>1. q \in p .. q /\ q - h = n
    BY <1>2, <1>3
  <2>2. Escaping(y, p)[q - 1] = Escaping(x, i)[(q - h) - 1]
    BY <1>7, <2>1
  <2>. HIDE DEF q, p, n
  <2>. QED BY <1>4, <2>1, <2>2
<1>9. ASSUME NEW j \in p .. q - 1, y[j] = "quote" PROVE Escaping(y, p)[j - 1]
  <2>1. j \in p .. q /\ j # q
    BY <1>2, <1>3
  <2>2. x[j - h] = "quote" /\ j - h \in i .. n - 1
        /\ Escaping(y, p)[j - 1] = Escaping(x, i)[(j - h) - 1]
    <3>. HIDE DEF p, q, n
    <3>. QED BY <1>7, <1>9, <2>1
  <2>. HIDE DEF p, q, n
  <2>. QED BY <1>4, <2>2
<1>10. ASSUME NEW j \in p .. q, Escaping(y, p)[j - 1] PROVE y[j] \in {"quote", "backslash"}
  <2>. HIDE DEF p, q, n
  <2>. QED BY <1>4, <1>7, <1>10
<1>. HIDE DEF p, q, n
<1>11. StringEnd(y, p) = q
  <2>1. y[q] = "quote"
    BY <1>4, <1>5
  <2>. QED BY <1>6, <1>8, <1>9, <1>10, <2>1, StringIs
<1>. QED BY <1>11 DEF p, q, n
\* An object is the same object.
LEMMA CopiedObject ==
  ASSUME NEW x \in Texts, NEW y \in Texts, NEW h, NEW first, NEW last \in Nat,
         Copied(x, y, h, first, last)
  PROVE  \A i \in first .. last : ObjectEnd(x, i) \in i .. last =>
           ObjectEnd(y, i + h) = ObjectEnd(x, i) + h
<1>. DEFINE S == {i \in first .. last : ObjectEnd(x, i) \in i .. last =>
                    ObjectEnd(y, i + h) = ObjectEnd(x, i) + h}
<1>1. Len(x) \in Nat /\ Len(y) \in Nat
  BY TextFacts
<1>2. h \in Int /\ first \in 1 .. last /\ last <= Len(x)
  BY DEF Copied
<1>3. \A j \in first .. last : j + h \in 1 .. Len(y) /\ y[j + h] = x[j]
  BY DEF Copied
<1>4. ASSUME NEW i \in first .. last, \A j \in i + 1 .. last : j \in S PROVE i \in S
  <2>. DEFINE e == ObjectEnd(x, i)
  <2>1. SUFFICES ASSUME e \in i .. last PROVE ObjectEnd(y, i + h) = e + h
    OBVIOUS
  <2>2. i \in 1 .. Len(x) /\ i \in 1 .. Len(x) + 1 /\ e # 0 /\ i \in Nat
    BY <1>1, <1>2, <2>1
  <2>3. /\ x[i] = "open" /\ e \in i + 1 .. Len(x) /\ x[e] = "close"
        /\ EmptyObject(x, i, e) \/ \E k, s, c, v, w : LongObject(x, i, k, s, c, v, w, e)
    BY <2>2, ObjectFacts
  <2>4. e \in i + 1 .. last /\ e \in first .. last
    BY <1>2, <2>1, <2>3
  <2>5. i + h \in 1 .. Len(y) /\ y[i + h] = "open" /\ e + h \in 1 .. Len(y) /\ y[e + h] = "close"
    BY <1>3, <2>3, <2>4
  <2>. HIDE DEF e, S
  <2>6. \* the next mark
        ASSUME NEW p \in i .. last - 1, NEW q \in p + 1 .. last, q = After(x, p + 1)
        PROVE  q + h = After(y, (p + h) + 1) /\ q + h \in (p + h) + 1 .. Len(y)
               /\ y[q + h] = x[q]
    <3>1. p + 1 \in first .. last /\ q \in first .. last /\ (p + 1) + h = (p + h) + 1
      BY <1>2
    <3>2. After(y, (p + 1) + h) = q + h
      BY <2>6, <3>1, CopiedAfter
    <3>3. q + h \in 1 .. Len(y) /\ y[q + h] = x[q]
      BY <1>3, <3>1
    <3>4. q + h \in (p + h) + 1 .. Len(y)
      BY <1>1, <1>2, <3>3
    <3>. QED BY <3>1, <3>2, <3>3, <3>4
  <2>7. CASE EmptyObject(x, i, e)
    <3>1. i \in i .. last - 1 /\ e = After(x, i + 1)
      BY <1>2, <2>2, <2>4, <2>7 DEF EmptyObject
    <3>2. e + h = After(y, (i + h) + 1) /\ e + h \in (i + h) + 1 .. Len(y)
      BY <2>4, <2>6, <3>1
    <3>3. EmptyObject(y, i + h, e + h)
      BY <2>5, <3>2 DEF EmptyObject
    <3>. QED BY <2>5, <3>3, EmptyObjectIs
  <2>8. CASE \E k, s, c, v, w : LongObject(x, i, k, s, c, v, w, e)
    <3>1. PICK k, s, c, v, w : LongObject(x, i, k, s, c, v, w, e)
      BY <2>8
    <3>2. /\ {k, s, c, v, w, e} \subseteq 1 .. Len(x)
          /\ i < k /\ k < s /\ s < c /\ c < v /\ v < w /\ w < e
      BY <2>2, <3>1, LongOrder
    <3>3. k \in Nat /\ s \in Nat /\ c \in Nat /\ v \in Nat /\ w \in Nat /\ e \in Nat
          /\ e <= last /\ first <= i
      BY <1>1, <1>2, <2>4, <3>2
    <3>4. /\ k \in i + 1 .. last /\ k \in i .. last - 1
          /\ s \in k + 1 .. last /\ s \in i .. last - 1
      BY <1>2, <2>2, <3>2, <3>3
    <3>5. /\ c \in s + 1 .. last /\ c \in i .. last - 1
          /\ v \in c + 1 .. last /\ v \in i .. last - 1 /\ v \in i + 1 .. last
      BY <1>2, <2>2, <3>2, <3>3
    <3>6. w \in v + 1 .. last /\ w \in i .. last - 1 /\ e \in w + 1 .. last /\ i \in i .. last - 1
      BY <1>2, <2>2, <3>2, <3>3
    <3>7. /\ k = After(x, i + 1) /\ x[k] = "quote" /\ s = StringEnd(x, k + 1)
          /\ c = After(x, s + 1) /\ x[c] = "colon" /\ v = After(x, c + 1)
          /\ e = After(x, w + 1)
          /\ \/ x[v] = "quote" /\ w = StringEnd(x, v + 1)
             \/ x[v] = "open" /\ w = ObjectEnd(x, v)
      BY <3>1 DEF LongObject, Member
    <3>8. \* a string
          ASSUME NEW p \in i .. last - 1, NEW q \in p + 1 .. last, q = StringEnd(x, p + 1)
          PROVE  q + h = StringEnd(y, (p + h) + 1) /\ q + h \in (p + h) + 1 .. Len(y)
      <4>1. p + 1 \in first .. last /\ q \in first .. last /\ (p + 1) + h = (p + h) + 1
        BY <1>2
      <4>2. StringEnd(y, (p + 1) + h) = q + h
        BY <3>8, <4>1, CopiedString
      <4>3. q + h \in 1 .. Len(y)
        BY <1>3, <4>1
      <4>4. q + h \in (p + h) + 1 .. Len(y)
        BY <1>1, <1>2, <4>3
      <4>. QED BY <4>1, <4>2, <4>4
    <3>9. k + h = After(y, (i + h) + 1) /\ k + h \in (i + h) + 1 .. Len(y) /\ y[k + h] = "quote"
      BY <2>6, <3>4, <3>6, <3>7
    <3>10. s + h = StringEnd(y, (k + h) + 1) /\ s + h \in (k + h) + 1 .. Len(y)
      BY <3>4, <3>7, <3>8
    <3>11. c + h = After(y, (s + h) + 1) /\ c + h \in (s + h) + 1 .. Len(y) /\ y[c + h] = "colon"
      BY <2>6, <3>4, <3>5, <3>7
    <3>12. v + h = After(y, (c + h) + 1) /\ v + h \in (c + h) + 1 .. Len(y) /\ y[v + h] = x[v]
      BY <2>6, <3>5, <3>7
    <3>13. e + h = After(y, (w + h) + 1) /\ e + h \in (w + h) + 1 .. Len(y) /\ y[e + h] = "close"
      BY <2>3, <2>6, <3>6, <3>7
    <3>14. Member(y, i + h, k + h, s + h, c + h, v + h)
      <4>1. v + h \in (c + h) + 1 .. Len(y) + 1
        BY <1>1, <1>2, <3>3, <3>12
      <4>. QED BY <3>9, <3>10, <3>11, <3>12, <4>1 DEF Member
    <3>15. /\ w + h \in (v + h) + 1 .. Len(y)
           /\ \/ y[v + h] = "quote" /\ w + h = StringEnd(y, (v + h) + 1)
              \/ y[v + h] = "open" /\ w + h = ObjectEnd(y, v + h)
      <4>1. CASE x[v] = "quote" /\ w = StringEnd(x, v + 1)
        BY <3>5, <3>6, <3>8, <3>12, <4>1
      <4>2. CASE x[v] = "open" /\ w = ObjectEnd(x, v)
        <5>1. v \in S /\ w \in v .. last /\ w \in first .. last
          BY <1>2, <1>4, <3>2, <3>3, <3>5, <3>6
        <5>2. ObjectEnd(y, v + h) = w + h
          BY <4>2, <5>1 DEF S
        <5>3. w + h \in 1 .. Len(y)
          BY <1>3, <5>1
        <5>4. w + h \in (v + h) + 1 .. Len(y)
          BY <1>1, <1>2, <3>2, <3>3, <5>3
        <5>. QED BY <3>12, <4>2, <5>2, <5>4
      <4>. QED BY <3>7, <4>1, <4>2
    <3>16. LongObject(y, i + h, k + h, s + h, c + h, v + h, w + h, e + h)
      BY <2>5, <3>12, <3>13, <3>14, <3>15 DEF LongObject
    <3>. QED BY <2>5, <3>16, LongObjectIs
  <2>. QED BY <2>3, <2>7, <2>8
<1>5. \A i \in first .. last : i \in S
  <2>. HIDE DEF S
  <2>1. first \in Nat
    BY <1>2
  <2>. QED BY <1>4, <2>1, Downward
<1>. QED BY <1>5

\* A part of a text.
LEMMA PartFacts ==
  ASSUME NEW t \in Texts, NEW b \in 1 .. Len(t), NEW e \in b .. Len(t)
  PROVE  /\ SubSeq(t, b, e) \in Texts /\ Len(SubSeq(t, b, e)) = e - b + 1
         /\ \A i \in 1 .. e - b + 1 : SubSeq(t, b, e)[i] = t[i + b - 1]
<1>1. Len(t) \in Nat
  BY TextFacts
<1>. QED BY <1>1 DEF Texts

\* A part of a text is an object exactly when an object of the text is there.
LEMMA ObjectOfText ==
  ASSUME NEW t \in Texts, NEW b \in 1 .. Len(t), NEW e \in b .. Len(t)
  PROVE  IsObject(SubSeq(t, b, e)) <=> ObjectEnd(t, b) = e
<1>. DEFINE part == SubSeq(t, b, e)
            n == e - b + 1
            h == b - 1
            back == 1 - b
<1>1. /\ Len(t) \in Nat /\ b \in Nat /\ e \in Nat /\ b <= e /\ 1 <= b /\ e <= Len(t)
      /\ n \in Nat /\ 1 <= n /\ h \in Nat /\ back \in Int
  BY TextFacts
<1>2. part \in Texts /\ Len(part) = n /\ \A i \in 1 .. n : part[i] = t[i + b - 1]
  BY PartFacts
<1>3. ASSUME IsObject(part) PROVE ObjectEnd(t, b) = e
  <2>1. ObjectEnd(part, 1) = n /\ ObjectEnd(part, 1) \in 1 .. n /\ 1 \in 1 .. n
    BY <1>1, <1>2, <1>3 DEF IsObject
  <2>2. Copied(part, t, h, 1, n)
    <3>. HIDE DEF part
    <3>. QED BY <1>1, <1>2 DEF Copied
  <2>3. ObjectEnd(t, 1 + h) = n + h
    <3>. HIDE DEF part, h, n
    <3>. QED BY <1>1, <1>2, <2>1, <2>2, CopiedObject
  <2>. QED BY <1>1, <2>3
<1>4. ASSUME ObjectEnd(t, b) = e PROVE IsObject(part)
  <2>1. Copied(t, part, back, b, e)
    <3>1. ASSUME NEW i \in b .. e PROVE i + back \in 1 .. n /\ part[i + back] = t[i]
      <4>1. i + back \in 1 .. n /\ (i + back) + b - 1 = i
        BY <1>1
      <4>. HIDE DEF part, back, n
      <4>. QED BY <1>2, <4>1
    <3>. HIDE DEF part, back, n
    <3>. QED BY <1>1, <1>2, <3>1 DEF Copied
  <2>2. b \in b .. e /\ ObjectEnd(t, b) \in b .. e
    BY <1>1, <1>4
  <2>3. ObjectEnd(part, b + back) = e + back
    <3>. HIDE DEF part, back
    <3>. QED BY <1>1, <1>2, <1>4, <2>1, <2>2, CopiedObject
  <2>4. ObjectEnd(part, 1) = n
    BY <1>1, <2>3
  <2>5. part # <<>>
    <3>. HIDE DEF part
    <3>. QED BY <1>1, <1>2
  <2>. QED BY <1>2, <2>4, <2>5 DEF IsObject
<1>. QED BY <1>3, <1>4
-----------------------------------------------------------------------------
(* The candidates.                                                         *)

\* The shortest match of the fence at i: from s to f, before the fence at n.
Match(t, i, s, f, n) ==
  /\ s \in i + 1 .. Len(t) /\ f \in s .. Len(t) /\ n \in f + 1 .. Len(t)
  /\ s = After(t, i + 1) /\ f = FencedEnd(t, i) /\ n = After(t, f + 1)
  /\ t[i] = "fence" /\ t[s] = "open" /\ t[f] = "close" /\ t[n] = "fence"
  /\ \A j \in i + 1 .. s - 1 : t[j] = "blank"
  /\ \A j \in FenceEnds(t, s) : f <= j
  /\ Fenced(t, i) = SubSeq(t, s, f)

\* A fence that opens a match has one.
LEMMA OpensFacts ==
  ASSUME NEW t \in Texts, NEW i \in 1 .. Len(t), Opens(t, i)
  PROVE  \E s, f, n : Match(t, i, s, f, n)
<1>. DEFINE s == After(t, i + 1)
            f == FencedEnd(t, i)
            n == After(t, f + 1)
            E == FenceEnds(t, s)
<1>1. Len(t) \in Nat /\ DOMAIN t = 1 .. Len(t) /\ i + 1 \in 1 .. Len(t) + 1
  BY TextFacts
<1>2. t[i] = "fence" /\ Has(t, s, "open") /\ E # {} /\ f = Min(E)
  BY DEF Opens, FencedEnd
<1>3. s \in i + 1 .. Len(t) /\ t[s] = "open" /\ \A j \in i + 1 .. s - 1 : t[j] = "blank"
  <2>1. s \in i + 1 .. Len(t) + 1 /\ \A j \in i + 1 .. s - 1 : t[j] = "blank"
    BY <1>1, AfterFacts
  <2>2. s \in 1 .. Len(t) /\ t[s] = "open"
    BY <1>1, <1>2 DEF Has
  <2>. QED BY <1>1, <2>1, <2>2
<1>4. f \in E /\ \A j \in E : f <= j
  <2>1. E \in SUBSET Nat
    BY <1>1, <1>3 DEF FenceEnds
  <2>. HIDE DEF E, f, s
  <2>. QED BY <1>2, <2>1, Least
<1>. HIDE DEF s, f
<1>5. f \in s .. Len(t) /\ t[f] = "close" /\ Has(t, n, "fence")
  BY <1>4 DEF FenceEnds
<1>6. n \in f + 1 .. Len(t) /\ t[n] = "fence"
  <2>1. f + 1 \in 1 .. Len(t) + 1
    BY <1>1, <1>3, <1>5
  <2>2. n \in f + 1 .. Len(t) + 1
    BY <2>1, AfterFacts
  <2>. QED BY <1>1, <1>5, <2>2 DEF Has
<1>7. Fenced(t, i) = SubSeq(t, s, f)
  BY DEF Fenced, s, f
<1>8. s = After(t, i + 1) /\ f = FencedEnd(t, i)
  BY DEF s, f
<1>9. Match(t, i, s, f, n)
  BY <1>2, <1>3, <1>4, <1>5, <1>6, <1>7, <1>8 DEF Match
<1>. QED BY <1>9

\* The text without the blanks around it.
LEMMA StripFacts ==
  ASSUME NEW t \in Texts
  PROVE  \/ Strip(t) = <<>> /\ \A j \in 1 .. Len(t) : t[j] = "blank"
         \/ /\ Strip(t) # <<>>
            /\ \E m \in 1 .. Len(t) : \E l \in m .. Len(t) :
                 /\ Strip(t) = SubSeq(t, m, l)
                 /\ \A j \in 1 .. Len(t) : t[j] # "blank" => m <= j
<1>. DEFINE inked == {i \in 1 .. Len(t) : t[i] # "blank"}
<1>1. Len(t) \in Nat /\ DOMAIN t = 1 .. Len(t)
  BY TextFacts
<1>2. Strip(t) = IF inked = {} THEN <<>> ELSE SubSeq(t, Min(inked), Max(inked))
  BY <1>1 DEF Strip
<1>3. CASE inked = {}
  BY <1>2, <1>3
<1>4. CASE inked # {}
  <2>1. inked \in SUBSET Nat /\ inked \in SUBSET (0 .. Len(t))
    BY <1>1
  <2>2. /\ Min(inked) \in inked /\ \A j \in inked : Min(inked) <= j
        /\ Max(inked) \in inked /\ \A j \in inked : j <= Max(inked)
    <3>. HIDE DEF inked
    <3>. QED BY <1>1, <1>4, <2>1, Least, Greatest
  <2>3. Min(inked) \in 1 .. Len(t) /\ Max(inked) \in Min(inked) .. Len(t)
    <3>1. \A j \in inked : j \in 1 .. Len(t)
      OBVIOUS
    <3>. HIDE DEF inked
    <3>2. Min(inked) \in 1 .. Len(t) /\ Max(inked) \in 1 .. Len(t) /\ Min(inked) <= Max(inked)
      BY <2>2, <3>1
    <3>. QED BY <1>1, <3>2
  <2>4. \A j \in 1 .. Len(t) : t[j] # "blank" => Min(inked) <= j
    BY <2>2
  <2>5. Strip(t) = SubSeq(t, Min(inked), Max(inked))
    BY <1>2, <1>4
  <2>6. Strip(t) # <<>>
    <3>1. Len(SubSeq(t, Min(inked), Max(inked))) = Max(inked) - Min(inked) + 1
      <4>. HIDE DEF inked
      <4>. QED BY <2>3, PartFacts
    <3>. HIDE DEF inked
    <3>. QED BY <1>1, <2>3, <2>5, <3>1
  <2>. HIDE DEF inked
  <2>. QED BY <2>3, <2>4, <2>5, <2>6
<1>. QED BY <1>3, <1>4

\* What the matches of the fences before a mark have taken.
LEMMA ConsumedFacts ==
  ASSUME NEW t \in Texts
  PROVE  /\ Consumed(t)[0] = 0
         /\ \A i \in 1 .. Len(t) :
              Consumed(t)[i] = IF i > Consumed(t)[i - 1] /\ Opens(t, i)
                               THEN After(t, FencedEnd(t, i) + 1) ELSE Consumed(t)[i - 1]
<1>. DEFINE n == Len(t)
            V == 0 .. n + 1
            Value(i, last) ==
              IF i > last /\ Opens(t, i) THEN After(t, FencedEnd(t, i) + 1) ELSE last
            step == [i \in 0 + 1 .. n |-> [last \in V |-> Value(i, last)]]
            F == CHOOSE f : f = [i \in 0 .. n |-> IF i = 0 THEN 0 ELSE Value(i, f[i - 1])]
<1>1. n \in Nat
  BY TextFacts
<1>2. step \in Steps(0, n, V)
  <2>1. ASSUME NEW i \in 0 + 1 .. n, NEW last \in V PROVE Value(i, last) \in V
    <3>1. CASE i > last /\ Opens(t, i)
      <4>1. i \in 1 .. Len(t)
        OBVIOUS
      <4>2. PICK f \in 1 .. Len(t) : f = FencedEnd(t, i)
        <5>1. PICK s, f, m : Match(t, i, s, f, m)
          BY <3>1, <4>1, OpensFacts
        <5>2. s \in i + 1 .. Len(t) /\ f \in s .. Len(t) /\ f = FencedEnd(t, i)
          BY <5>1 DEF Match
        <5>. QED BY <1>1, <5>2
      <4>3. f + 1 \in 1 .. Len(t) + 1
        BY <1>1
      <4>4. After(t, f + 1) \in f + 1 .. Len(t) + 1
        BY <4>3, AfterFacts
      <4>5. After(t, f + 1) \in V
        BY <1>1, <4>4
      <4>. HIDE DEF V
      <4>. QED BY <3>1, <4>2, <4>5
    <3>2. CASE ~(i > last /\ Opens(t, i))
      <4>. HIDE DEF V
      <4>. QED BY <3>2
    <3>. QED BY <3>1, <3>2
  <2>. HIDE DEF V, Value
  <2>. QED BY <2>1 DEF Steps
<1>3. PICK g \in [0 .. n -> V] :
        g[0] = 0 /\ \A i \in 0 + 1 .. n : g[i] = step[i][g[i - 1]]
  <2>1. 0 \in V /\ 0 \in Nat /\ 0 <= n
    BY <1>1
  <2>. HIDE DEF step, n, V
  <2>2. \E g \in [0 .. n -> V] : Iterates(g, 0, n, 0, step)
    BY <1>1, <1>2, <2>1, Recursion
  <2>. QED BY <2>2 DEF Iterates
<1>4. \A i \in 0 .. n : g[i] = IF i = 0 THEN 0 ELSE Value(i, g[i - 1])
  <2>1. SUFFICES ASSUME NEW i \in 0 .. n
                 PROVE  g[i] = IF i = 0 THEN 0 ELSE Value(i, g[i - 1])
    OBVIOUS
  <2>2. CASE i = 0
    BY <1>3, <2>2
  <2>3. CASE i # 0
    <3>1. i \in 0 + 1 .. n /\ i - 1 \in 0 .. n
      BY <1>1, <2>3
    <3>2. g[i] = step[i][g[i - 1]] /\ g[i - 1] \in V
      <4>. HIDE DEF step, V
      <4>. QED BY <1>3, <3>1
    <3>3. step[i][g[i - 1]] = Value(i, g[i - 1])
      <4>. HIDE DEF V, Value
      <4>. QED BY <3>1, <3>2
    <3>. HIDE DEF step, Value
    <3>. QED BY <2>3, <3>2, <3>3
  <2>. HIDE DEF Value
  <2>. QED BY <2>2, <2>3
<1>5. g = [i \in 0 .. n |-> IF i = 0 THEN 0 ELSE Value(i, g[i - 1])]
  <2>. HIDE DEF Value
  <2>. QED BY <1>4
<1>6. F = [i \in 0 .. n |-> IF i = 0 THEN 0 ELSE Value(i, F[i - 1])]
  <2>. HIDE DEF Value
  <2>. QED BY <1>5
<1>7. Consumed(t) = F
  BY DEF Consumed
<1>. HIDE DEF F
<1>8. F[0] = 0
  <2>. HIDE DEF Value
  <2>. QED BY <1>1, <1>6
<1>9. \A i \in 1 .. n : F[i] = Value(i, F[i - 1])
  <2>1. \A i \in 1 .. n : i \in 0 .. n /\ i # 0
    BY <1>1
  <2>. HIDE DEF Value, n
  <2>. QED BY <1>6, <2>1
<1>. QED BY <1>7, <1>8, <1>9

\* Before the first fence nothing is taken.
LEMMA NothingConsumed ==
  ASSUME NEW t \in Texts, NEW p \in 1 .. Len(t), \A i \in 1 .. p - 1 : t[i] # "fence"
  PROVE  Consumed(t)[p - 1] = 0
<1>. DEFINE n == p - 1
            S == {i \in 0 .. n : Consumed(t)[i] = 0}
<1>1. Len(t) \in Nat /\ n \in Nat /\ n < Len(t)
  BY TextFacts
<1>2. ASSUME NEW i \in 0 .. n, \A j \in 0 .. i - 1 : j \in S PROVE i \in S
  <2>1. CASE i = 0
    BY <2>1, ConsumedFacts
  <2>2. CASE i # 0
    <3>1. i \in 1 .. Len(t) /\ i - 1 \in 0 .. i - 1 /\ i \in 1 .. p - 1
      BY <1>1, <2>2
    <3>2. ~Opens(t, i)
      BY <3>1 DEF Opens
    <3>3. Consumed(t)[i] = Consumed(t)[i - 1]
      BY <3>1, <3>2, ConsumedFacts
    <3>4. Consumed(t)[i - 1] = 0
      BY <1>2, <3>1
    <3>. QED BY <3>3, <3>4
  <2>. QED BY <2>1, <2>2
<1>3. \A i \in 0 .. n : i \in S
  <2>. HIDE DEF S, n
  <2>. QED BY <1>1, <1>2, Upward
<1>4. n \in 0 .. n
  BY <1>1
<1>. QED BY <1>3, <1>4
\* A bare object is the first one of its text.
LEMMA StrippedObject ==
  ASSUME NEW t \in Texts, NEW b \in 1 .. Len(t), ObjectEnd(t, b) # 0,
         NoMark(t, 1, b - 1, "open"), IsObject(Strip(t))
  PROVE  Strip(t) = SubSeq(t, b, ObjectEnd(t, b))
<1>1. Len(t) \in Nat /\ \A i \in 1 .. Len(t) : i \in 1 .. Len(t) + 1
  BY TextFacts
<1>2. t[b] = "open"
  BY <1>1, ObjectFacts
<1>3. PICK m \in 1 .. Len(t) : \E l \in m .. Len(t) :
        Strip(t) = SubSeq(t, m, l) /\ \A j \in 1 .. Len(t) : t[j] # "blank" => m <= j
  BY StripFacts DEF IsObject
<1>0. PICK l \in m .. Len(t) : Strip(t) = SubSeq(t, m, l)
  BY <1>3
<1>4. ObjectEnd(t, m) = l /\ l # 0
  BY <1>0, <1>1, ObjectOfText
<1>5. t[m] = "open"
  BY <1>1, <1>4, ObjectFacts
<1>6. m <= b
  BY <1>2, <1>3
<1>7. ~(m \in 1 .. b - 1)
  BY <1>5 DEF NoMark
<1>8. m = b
  BY <1>1, <1>6, <1>7
<1>. QED BY <1>0, <1>4, <1>8

\* The scanner finds an object that no balanced braces precede.
LEMMA BalancedObject ==
  ASSUME NEW t \in Texts, NEW b \in 1 .. Len(t), ObjectEnd(t, b) # 0,
         \A i \in 1 .. b - 1 : i \notin Starts(t)
  PROVE  FirstBalancedObject(t) = SubSeq(t, b, ObjectEnd(t, b))
<1>1. b \in Starts(t) /\ BalancedFrom(t, b) = SubSeq(t, b, ObjectEnd(t, b))
  BY ObjectBalanced
<1>2. Starts(t) \in SUBSET (1 .. Len(t)) /\ Len(t) \in Nat
  BY TextFacts DEF Starts
<1>3. Starts(t) \in SUBSET Nat /\ Starts(t) # {}
  BY <1>1, <1>2
<1>4. Min(Starts(t)) \in Starts(t) /\ Min(Starts(t)) <= b
  BY <1>1, <1>3, Least
<1>5. ~(Min(Starts(t)) \in 1 .. b - 1) /\ Min(Starts(t)) \in 1 .. Len(t)
  BY <1>2, <1>4
<1>6. Min(Starts(t)) = b
  BY <1>4, <1>5
<1>. QED BY <1>1, <1>6 DEF FirstBalancedObject

\* The part an object takes is one, and is text.
LEMMA Written ==
  ASSUME NEW t \in Texts, NEW b \in 1 .. Len(t), ObjectEnd(t, b) # 0
  PROVE  /\ ObjectEnd(t, b) \in b + 1 .. Len(t) /\ ObjectEnd(t, b) \in b .. Len(t)
         /\ t[b] = "open" /\ t[ObjectEnd(t, b)] = "close"
         /\ IsObject(SubSeq(t, b, ObjectEnd(t, b)))
         /\ SubSeq(t, b, ObjectEnd(t, b)) \in Texts
         /\ SubSeq(t, b, ObjectEnd(t, b)) # None
         /\ Strip(t) # <<>>
<1>1. Len(t) \in Nat /\ b \in 1 .. Len(t) + 1
  BY TextFacts
<1>2. ObjectEnd(t, b) \in b + 1 .. Len(t) /\ t[b] = "open" /\ t[ObjectEnd(t, b)] = "close"
  BY <1>1, ObjectFacts
<1>3. ObjectEnd(t, b) \in b .. Len(t)
  BY <1>1, <1>2
<1>4. IsObject(SubSeq(t, b, ObjectEnd(t, b))) /\ SubSeq(t, b, ObjectEnd(t, b)) \in Texts
  BY <1>3, ObjectOfText, PartFacts
<1>5. SubSeq(t, b, ObjectEnd(t, b)) # None
  BY <1>4, OutputParserAssumption DEF Texts
<1>6. Strip(t) # <<>>
  BY <1>2, StripFacts
<1>. QED BY <1>2, <1>3, <1>4, <1>5, <1>6

\* The candidates of ExtractJsonObject in their order.
LEMMA ExtractFacts ==
  ASSUME NEW t \in Texts
  PROVE  \/ IsObject(Strip(t)) /\ ExtractJsonObject(t) = Strip(t)
         \/ /\ ~IsObject(Strip(t))
            /\ \E i \in FenceMatches(t) :
                 /\ IsObject(Fenced(t, i)) /\ ExtractJsonObject(t) = Fenced(t, i)
                 /\ \A j \in FenceMatches(t) : IsObject(Fenced(t, j)) => i <= j
         \/ /\ ~IsObject(Strip(t)) /\ \A i \in FenceMatches(t) : ~IsObject(Fenced(t, i))
            /\ \/ /\ IsObject(FirstBalancedObject(t))
                  /\ ExtractJsonObject(t) = FirstBalancedObject(t)
               \/ ~IsObject(FirstBalancedObject(t)) /\ ExtractJsonObject(t) = None
<1>. DEFINE fenced == {i \in FenceMatches(t) : IsObject(Fenced(t, i))}
<1>1. ExtractJsonObject(t) =
        IF IsObject(Strip(t)) THEN Strip(t)
        ELSE IF fenced # {} THEN Fenced(t, Min(fenced))
        ELSE IF IsObject(FirstBalancedObject(t)) THEN FirstBalancedObject(t)
        ELSE None
  BY DEF ExtractJsonObject
<1>2. CASE IsObject(Strip(t))
  BY <1>1, <1>2
<1>3. CASE ~IsObject(Strip(t)) /\ fenced # {}
  <2>1. fenced \in SUBSET Nat
    BY TextFacts DEF FenceMatches
  <2>2. Min(fenced) \in fenced /\ \A j \in fenced : Min(fenced) <= j
    <3>. HIDE DEF fenced
    <3>. QED BY <1>3, <2>1, Least
  <2>3. ExtractJsonObject(t) = Fenced(t, Min(fenced))
    <3>. HIDE DEF fenced
    <3>. QED BY <1>1, <1>3
  <2>4. /\ Min(fenced) \in FenceMatches(t) /\ IsObject(Fenced(t, Min(fenced)))
        /\ \A j \in FenceMatches(t) : IsObject(Fenced(t, j)) => Min(fenced) <= j
    BY <2>2
  <2>. HIDE DEF fenced
  <2>. QED BY <1>3, <2>3, <2>4
<1>4. CASE ~IsObject(Strip(t)) /\ fenced = {}
  <2>1. \A i \in FenceMatches(t) : ~IsObject(Fenced(t, i))
    BY <1>4
  <2>. HIDE DEF fenced
  <2>. QED BY <1>1, <1>4, <2>1
<1>. QED BY <1>2, <1>3, <1>4

\* Where the first object of a text is the only one that could be fenced, it is taken.
LEMMA FirstExtracted ==
  ASSUME NEW t \in Texts, NEW b \in 1 .. Len(t), ObjectEnd(t, b) # 0,
         NoMark(t, 1, b - 1, "open"), NoMark(t, b, ObjectEnd(t, b), "fence"),
         \A i, j \in ObjectEnd(t, b) + 1 .. Len(t) :
           t[i] = "fence" /\ t[j] = "fence" => i = j
  PROVE  ExtractJsonObject(t) = SubSeq(t, b, ObjectEnd(t, b))
<1>. DEFINE e == ObjectEnd(t, b)
<1>1. /\ Len(t) \in Nat /\ b \in Nat /\ 1 <= b /\ b <= Len(t)
      /\ e \in Nat /\ b < e /\ e <= Len(t)
      /\ e \in b .. Len(t) /\ t[b] = "open" /\ IsObject(SubSeq(t, b, e))
  BY Written, TextFacts
<1>. HIDE DEF e
<1>2. CASE IsObject(Strip(t)) /\ ExtractJsonObject(t) = Strip(t)
  BY <1>2, StrippedObject DEF e
<1>3. ASSUME NEW i \in FenceMatches(t), IsObject(Fenced(t, i))
      PROVE  Fenced(t, i) = SubSeq(t, b, e)
  <2>1. i \in 1 .. Len(t) /\ Opens(t, i)
    BY TextFacts DEF FenceMatches
  <2>0. PICK s, f, n : Match(t, i, s, f, n)
    BY <2>1, OpensFacts
  <2>2. /\ s \in i + 1 .. Len(t) /\ f \in s .. Len(t) /\ n \in f + 1 .. Len(t)
        /\ t[i] = "fence" /\ t[s] = "open" /\ t[n] = "fence"
        /\ \A j \in i + 1 .. s - 1 : t[j] = "blank"
        /\ Fenced(t, i) = SubSeq(t, s, f)
    BY <2>0 DEF Match
  <2>3. /\ i \in Nat /\ s \in Nat /\ f \in Nat /\ n \in Nat
        /\ 1 <= i /\ i < s /\ s <= f /\ f < n /\ n <= Len(t)
    BY <1>1, <2>1, <2>2
  <2>4. ObjectEnd(t, s) = f
    <3>1. s \in 1 .. Len(t) /\ f \in s .. Len(t)
      BY <1>1, <2>3
    <3>. QED BY <1>3, <2>2, <3>1, ObjectOfText
  <2>5. b <= s
    <3>1. ~(s \in 1 .. b - 1)
      BY <2>2 DEF NoMark
    <3>. QED BY <1>1, <2>3, <3>1
  <2>6. CASE s = b
    BY <2>2, <2>4, <2>6 DEF e
  <2>7. CASE s # b
    <3>1. b <= i
      <4>1. ~(b \in i + 1 .. s - 1)
        BY <1>1, <2>2
      <4>. QED BY <1>1, <2>3, <2>5, <2>7, <4>1
    <3>2. e < i
      <4>1. ~(i \in b .. e)
        BY <2>2 DEF NoMark, e
      <4>. QED BY <1>1, <2>3, <3>1, <4>1
    <3>3. i \in e + 1 .. Len(t) /\ n \in e + 1 .. Len(t) /\ i # n
      BY <1>1, <2>3, <3>2
    <3>. QED BY <2>2, <3>3 DEF e
  <2>. QED BY <2>6, <2>7
<1>4. CASE \E i \in FenceMatches(t) :
             IsObject(Fenced(t, i)) /\ ExtractJsonObject(t) = Fenced(t, i)
  BY <1>3, <1>4 DEF e
<1>5. FirstBalancedObject(t) = SubSeq(t, b, e)
  <2>1. \A i \in 1 .. b - 1 : i \notin Starts(t)
    BY DEF Starts, NoMark
  <2>. QED BY <2>1, BalancedObject DEF e
<1>. QED BY <1>1, <1>2, <1>4, <1>5, ExtractFacts DEF e

\* Where an object is all that the two fences of a text hold, it is taken.
LEMMA FencedExtracted ==
  ASSUME NEW t \in Texts, NEW b \in 1 .. Len(t), ObjectEnd(t, b) # 0, ~IsObject(Strip(t)),
         NEW p \in 1 .. b - 1, NEW q \in 1 .. Len(t), t[p] = "fence", After(t, p + 1) = b,
         q = After(t, ObjectEnd(t, b) + 1), t[q] = "fence",
         \A i \in 1 .. Len(t) : t[i] = "fence" => i = p \/ i = q
  PROVE  ExtractJsonObject(t) = SubSeq(t, b, ObjectEnd(t, b))
<1>. DEFINE e == ObjectEnd(t, b)
<1>1. /\ Len(t) \in Nat /\ DOMAIN t = 1 .. Len(t)
      /\ b \in Nat /\ 1 <= b /\ b <= Len(t)
      /\ e \in Nat /\ b < e /\ e <= Len(t) /\ e \in b .. Len(t) /\ e + 1 \in 1 .. Len(t) + 1
      /\ t[b] = "open" /\ t[e] = "close" /\ IsObject(SubSeq(t, b, e))
  BY Written, TextFacts
<1>. HIDE DEF e
<1>2. p \in Nat /\ 1 <= p /\ p < b /\ p \in 1 .. Len(t) /\ q \in Nat /\ e < q /\ q <= Len(t)
  <2>1. q \in e + 1 .. Len(t) + 1
    BY <1>1, AfterFacts DEF e
  <2>. QED BY <1>1, <2>1
<1>3. e \in FenceEnds(t, b)
  BY <1>1 DEF FenceEnds, Has, e
<1>4. Opens(t, p)
  <2>1. Has(t, After(t, p + 1), "open")
    BY <1>1 DEF Has
  <2>. QED BY <1>3, <2>1 DEF Opens
<1>0. PICK s, f, n : Match(t, p, s, f, n)
  BY <1>2, <1>4, OpensFacts
<1>5. /\ s \in p + 1 .. Len(t) /\ f \in s .. Len(t) /\ n \in f + 1 .. Len(t)
      /\ s = After(t, p + 1) /\ n = After(t, f + 1)
      /\ t[n] = "fence"
      /\ \A j \in FenceEnds(t, s) : f <= j
      /\ Fenced(t, p) = SubSeq(t, s, f)
  BY <1>0 DEF Match
<1>6. s = b /\ f <= e /\ f \in Nat /\ n \in Nat /\ b <= f /\ f < n /\ n <= Len(t)
  BY <1>1, <1>3, <1>5
<1>7. f = e
  <2>1. n \in 1 .. Len(t)
    BY <1>1, <1>6
  <2>2. n = q
    BY <1>2, <1>5, <1>6, <2>1
  <2>3. SUFFICES ASSUME f < e PROVE FALSE
    BY <1>1, <1>6
  <2>4. f + 1 \in 1 .. Len(t) + 1 /\ e \in f + 1 .. n - 1
    BY <1>1, <1>2, <1>6, <2>2, <2>3
  <2>5. t[e] = "blank"
    BY <1>5, <2>4, AfterFacts
  <2>. QED BY <1>1, <2>5
<1>8. Fenced(t, p) = SubSeq(t, b, e)
  BY <1>5, <1>6, <1>7
<1>9. p \in FenceMatches(t)
  <2>1. ASSUME NEW i \in 1 .. p - 1 PROVE t[i] # "fence"
    BY <1>1, <1>2
  <2>2. Consumed(t)[p - 1] = 0
    BY <1>2, <2>1, NothingConsumed
  <2>3. p > Consumed(t)[p - 1]
    BY <1>2, <2>2
  <2>. QED BY <1>1, <1>2, <1>4, <2>3 DEF FenceMatches
<1>10. ASSUME NEW i \in FenceMatches(t), i <= p PROVE i = p
  <2>1. i \in 1 .. Len(t) /\ t[i] = "fence"
    BY <1>1 DEF FenceMatches, Opens
  <2>. QED BY <1>1, <1>2, <1>10, <2>1
<1>11. PICK i \in FenceMatches(t) :
         /\ ExtractJsonObject(t) = Fenced(t, i)
         /\ \A j \in FenceMatches(t) : IsObject(Fenced(t, j)) => i <= j
  BY <1>1, <1>8, <1>9, ExtractFacts
<1>12. i = p
  BY <1>1, <1>8, <1>9, <1>10, <1>11
<1>. QED BY <1>8, <1>11, <1>12 DEF e
-----------------------------------------------------------------------------
(* parse_final_output.                                                     *)

\* The answer, once there is one, is what the content amounts to.
Answered ==
  \/ outcome = None
  \/ Blank /\ outcome = ParseError("EMPTY")
  \/ ~Blank /\ ExtractJsonObject(content) = None /\ outcome = ParseError("NO_OBJECT")
  \/ ~Blank /\ ExtractJsonObject(content) # None
     /\ outcome = Validated(ExtractJsonObject(content))

PInv == content \in Contents /\ Answered

\* PInv is inductive.
LEMMA InitAnswered == Init => PInv
  BY DEF Init, PInv, Answered

\* The content never changes and an answer is given once.
LEMMA NextAnswered == PInv /\ [Next]_parserVars => PInv'
<1>. SUFFICES ASSUME PInv, [Next]_parserVars PROVE PInv'
  OBVIOUS
<1>1. content' = content /\ Blank' = Blank
  BY DEF Next, RejectBlank, RejectWithoutObject, ValidatePayload, Ends, parserVars, Blank
<1>2. CASE RejectBlank
  BY <1>1, <1>2 DEF PInv, Answered, RejectBlank, Ends
<1>3. CASE RejectWithoutObject
  BY <1>1, <1>3 DEF PInv, Answered, RejectWithoutObject, Ends
<1>4. CASE ValidatePayload
  BY <1>1, <1>4 DEF PInv, Answered, ValidatePayload, Ends
<1>5. CASE UNCHANGED parserVars
  BY <1>1, <1>5 DEF PInv, Answered, parserVars
<1>. QED BY <1>2, <1>3, <1>4, <1>5 DEF Next

\* The answers differ from one another and from no answer.
LEMMA Answers ==
  ASSUME NEW payload \in Texts
  PROVE  /\ None # ParseError("EMPTY") /\ None # ParseError("NO_OBJECT")
         /\ ParseError("EMPTY") # ParseError("NO_OBJECT")
         /\ Validated(payload) # ParseError("NO_OBJECT")
<1>1. "EMPTY" \in Errors /\ "NO_OBJECT" \in Errors /\ None \notin Errors
  BY OutputParserAssumption DEF Errors
<1>2. <<>> \in Seq(Marks)
  OBVIOUS
<1>3. ParseError("EMPTY") \in [error : Errors \cup {None}, payload : Seq(Marks)]
  BY <1>1, <1>2 DEF ParseError
<1>4. ParseError("NO_OBJECT") \in [error : Errors \cup {None}, payload : Seq(Marks)]
  BY <1>1, <1>2 DEF ParseError
<1>5. /\ ParseError("EMPTY").error = "EMPTY" /\ ParseError("NO_OBJECT").error = "NO_OBJECT"
      /\ ParseError("SCHEMA").error = "SCHEMA" /\ Parsed(payload).error = None
  BY DEF ParseError, Parsed
<1>6. Validated(payload).error # "NO_OBJECT"
  BY <1>1, <1>5 DEF Validated
<1>. QED BY <1>3, <1>4, <1>5, <1>6, OutputParserAssumption

\* An answer to a text with an object in it: there is a candidate or there is none.
LEMMA AnswerToObject ==
  ASSUME PInv, content \in Texts, NEW b \in 1 .. Len(content), ObjectEnd(content, b) # 0
  PROVE  /\ outcome # None =>
              \/ ExtractJsonObject(content) = None /\ outcome = ParseError("NO_OBJECT")
              \/ ExtractJsonObject(content) # None
                 /\ outcome = Validated(ExtractJsonObject(content))
<1>1. content # None
  BY OutputParserAssumption DEF Texts
<1>2. ~Blank
  BY <1>1, Written DEF Blank
<1>. QED BY <1>2 DEF PInv, Answered

\* ObjectsIn lists the objects by first and last position.
LEMMA ObjectsFacts ==
  ASSUME NEW t \in Texts, NEW o \in ObjectsIn(t)
  PROVE  o[1] \in 1 .. Len(t) /\ o[2] = ObjectEnd(t, o[1]) /\ o[2] # 0
  BY TextFacts DEF ObjectsIn

\* PInv and the facts about the candidates give each of the properties.
LEMMA FirstFound == PInv => FirstObjectFound
<1>. SUFFICES ASSUME PInv, outcome # None, content # None, NEW o \in ObjectsIn(content),
                     NoMark(content, 1, o[1] - 1, "open"),
                     NoMark(content, o[1], o[2], "fence"),
                     \A i, j \in (o[2] + 1) .. Len(content) :
                       content[i] = "fence" /\ content[j] = "fence" => i = j
              PROVE  outcome = Validated(SubSeq(content, o[1], o[2]))
  BY DEF FirstObjectFound
<1>. DEFINE b == o[1]
<1>1. content \in Texts
  BY OutputParserAssumption DEF PInv, Texts
<1>2. b \in 1 .. Len(content) /\ o[2] = ObjectEnd(content, b) /\ ObjectEnd(content, b) # 0
  BY <1>1, ObjectsFacts
<1>. HIDE DEF b
<1>3. ExtractJsonObject(content) = SubSeq(content, b, ObjectEnd(content, b))
  <2>1. /\ NoMark(content, 1, b - 1, "open")
        /\ NoMark(content, b, ObjectEnd(content, b), "fence")
    BY <1>2 DEF b
  <2>2. \A i, j \in ObjectEnd(content, b) + 1 .. Len(content) :
          content[i] = "fence" /\ content[j] = "fence" => i = j
    BY <1>2
  <2>. QED BY <1>1, <1>2, <2>1, <2>2, FirstExtracted
<1>4. SubSeq(content, b, ObjectEnd(content, b)) # None
  BY <1>1, <1>2, Written
<1>. QED BY <1>1, <1>2, <1>3, <1>4, AnswerToObject DEF b

\* An overlooked object has balanced braces before it.
LEMMA Overlooked == PInv => OverlookedBehindBraces
<1>. SUFFICES ASSUME PInv, outcome = ParseError("NO_OBJECT"), NEW o \in ObjectsIn(content),
                     \A s \in 1 .. (o[1] - 1) : s \notin Starts(content)
              PROVE  FALSE
  BY DEF OverlookedBehindBraces
<1>. DEFINE b == o[1]
<1>1. content \in Texts
  <2>1. <<>> \in Texts
    BY DEF Texts
  <2>2. /\ outcome # None /\ outcome # ParseError("EMPTY")
    BY <2>1, Answers
  <2>3. CASE content \in Seq(Marks)
    BY <2>3 DEF Texts
  <2>4. CASE content = None
    <3>1. Blank
      BY <2>4 DEF Blank
    <3>. QED BY <2>2, <3>1 DEF PInv, Answered
  <2>. QED BY <2>3, <2>4, OutputParserAssumption DEF PInv
<1>2. b \in 1 .. Len(content) /\ ObjectEnd(content, b) # 0
  BY <1>1, ObjectsFacts
<1>3. outcome # None
  <2>1. <<>> \in Texts
    BY DEF Texts
  <2>. QED BY <2>1, Answers
<1>. HIDE DEF b
<1>4. ExtractJsonObject(content) # None /\ ExtractJsonObject(content) \in Texts
  <2>1. \A i \in 1 .. b - 1 : i \notin Starts(content)
    BY DEF b
  <2>2. FirstBalancedObject(content) = SubSeq(content, b, ObjectEnd(content, b))
    BY <1>1, <1>2, <2>1, BalancedObject
  <2>3. IsObject(FirstBalancedObject(content))
    BY <1>1, <1>2, <2>2, Written
  <2>4. \A part \in Texts : part # None
    BY OutputParserAssumption DEF Texts
  <2>5. FirstBalancedObject(content) \in Texts
    BY <1>1, <1>2, <2>2, Written
  <2>6. Strip(content) \in Texts
    <3>1. PICK m \in 1 .. Len(content) : \E l \in m .. Len(content) :
             Strip(content) = SubSeq(content, m, l)
      BY <1>1, <1>2, StripFacts, Written
    <3>. QED BY <1>1, <3>1, PartFacts
  <2>7. \A i \in FenceMatches(content) : Fenced(content, i) \in Texts
    <3>1. SUFFICES ASSUME NEW i \in FenceMatches(content) PROVE Fenced(content, i) \in Texts
      OBVIOUS
    <3>2. i \in 1 .. Len(content) /\ Opens(content, i)
      BY <1>1, TextFacts DEF FenceMatches
    <3>3. PICK s, f, n : Match(content, i, s, f, n)
      BY <1>1, <3>2, OpensFacts
    <3>4. s \in 1 .. Len(content) /\ f \in s .. Len(content)
          /\ Fenced(content, i) = SubSeq(content, s, f)
      BY <1>1, <3>2, <3>3, TextFacts DEF Match
    <3>. QED BY <1>1, <3>4, PartFacts
  <2>. QED BY <1>1, <2>3, <2>4, <2>5, <2>6, <2>7, ExtractFacts
<1>5. outcome = Validated(ExtractJsonObject(content))
  BY <1>1, <1>2, <1>3, <1>4, AnswerToObject
<1>. QED BY <1>4, <1>5, Answers

\* The fenced object is found.
LEMMA FencedFound == PInv => FencedObjectFound
<1>. DEFINE fences == {i \in DOMAIN content : content[i] = "fence"}
<1>. SUFFICES ASSUME PInv, outcome # None, content # None, ~IsObject(Strip(content)),
                     NEW o \in ObjectsIn(content), Cardinality(fences) = 2,
                     NEW p \in fences, p < o[1], After(content, p + 1) = o[1],
                     Has(content, After(content, o[2] + 1), "fence")
              PROVE  outcome = Validated(SubSeq(content, o[1], o[2]))
  BY DEF FencedObjectFound
<1>. DEFINE b == o[1]
            q == After(content, o[2] + 1)
<1>1. content \in Texts /\ Len(content) \in Nat /\ DOMAIN content = 1 .. Len(content)
  <2>1. content \in Texts
    BY OutputParserAssumption DEF PInv, Texts
  <2>. QED BY <2>1, TextFacts
<1>2. b \in 1 .. Len(content) /\ o[2] = ObjectEnd(content, b) /\ ObjectEnd(content, b) # 0
  BY <1>1, ObjectsFacts
<1>3. q \in 1 .. Len(content) /\ content[q] = "fence" /\ q \in fences
  BY <1>1 DEF Has
<1>4. p \in 1 .. b - 1 /\ content[p] = "fence"
  BY <1>1, <1>2
<1>5. p # q
  <2>1. ObjectEnd(content, b) \in b + 1 .. Len(content)
    BY <1>1, <1>2, Written
  <2>2. o[2] + 1 \in 1 .. Len(content) + 1 /\ o[2] + 1 > b
    BY <1>1, <1>2, <2>1
  <2>3. q \in o[2] + 1 .. Len(content) + 1
    BY <1>1, <2>2, AfterFacts
  <2>. QED BY <1>2, <1>4, <2>2, <2>3
<1>6. fences = {p, q}
  <2>1. IsFiniteSet(fences)
    <3>1. IsFiniteSet(1 .. Len(content))
      BY <1>1, FS_Interval
    <3>. QED BY <1>1, <3>1, FS_Subset
  <2>. HIDE DEF fences, q
  <2>2. IsFiniteSet(fences \ {p}) /\ Cardinality(fences \ {p}) = 1
    BY <2>1, FS_RemoveElement
  <2>3. q \in fences \ {p}
    BY <1>3, <1>5
  <2>4. IsFiniteSet((fences \ {p}) \ {q}) /\ Cardinality((fences \ {p}) \ {q}) = 0
    BY <2>2, <2>3, FS_RemoveElement
  <2>5. (fences \ {p}) \ {q} = {}
    BY <2>4, FS_EmptySet
  <2>. QED BY <1>3, <2>5
<1>7. \A i \in 1 .. Len(content) : content[i] = "fence" => i = p \/ i = q
  <2>1. \A i \in 1 .. Len(content) : content[i] = "fence" => i \in fences
    BY <1>1
  <2>. HIDE DEF fences, q
  <2>. QED BY <1>6, <2>1
<1>8. q = After(content, ObjectEnd(content, b) + 1) /\ After(content, p + 1) = b
  BY <1>2
<1>. HIDE DEF fences, q, b
<1>9. ExtractJsonObject(content) = SubSeq(content, b, ObjectEnd(content, b))
  BY <1>1, <1>2, <1>3, <1>4, <1>7, <1>8, FencedExtracted
<1>10. SubSeq(content, b, ObjectEnd(content, b)) # None
  BY <1>1, <1>2, Written
<1>. QED BY <1>1, <1>2, <1>9, <1>10, AnswerToObject DEF b

\* What parse_final_output answers is settled by the content alone: empty, without
\* an object, or what validation makes of the object _extract_json_object takes.
THEOREM ParserAnswers == Spec => []PInv
<1>1. Init => PInv
  BY InitAnswered
<1>2. PInv /\ [Next]_parserVars => PInv'
  BY NextAnswered
<1>. QED BY <1>1, <1>2, PTL DEF Spec

\* For a text of any length, nested to any depth: an object that no other brace
\* precedes is the one parse_final_output returns, whatever its strings hold.
THEOREM FirstObjects == Spec => []FirstObjectFound
  BY ParserAnswers, FirstFound, PTL

\* "Final output does not contain a JSON object" is said of a text with an object
\* in it only where balanced braces of the prose come before every object.
THEOREM OverlookedObjects == Spec => []OverlookedBehindBraces
  BY ParserAnswers, Overlooked, PTL

\* The object in the one fence of a text is found whatever the prose around it
\* holds: _FENCED_JSON_RE is tried before braces are counted.
THEOREM FencedObjects == Spec => []FencedObjectFound
  BY ParserAnswers, FencedFound, PTL
=============================================================================

--------------------------- MODULE SequenceFacts ---------------------------
(***************************************************************************)
(* What the library's operators on sets of numbers and on sequences        *)
(* compute, for the proofs about modules that use them: Min, Max,          *)
(* SetToSeq, FlattenSeq and FoldLeft.  Induction is by the least number    *)
(* that is not in a set (Induct).                                          *)
(***************************************************************************)
EXTENDS Integers, FiniteSets, SequencesExt, FiniteSetTheorems, WellFoundedInduction, TLAPS

\* Every set of natural numbers has a least element.
LEMMA Least ==
  ASSUME NEW T \in SUBSET Nat, T # {}
  PROVE  \E x \in T : \A y \in T : x <= y
<1> DEFINE R == OpToRel(<, Nat)
<1>1. PICK x \in T : \A y \in T : <<y, x>> \notin R
  BY NatLessThanWellFounded, WFMin
<1>2. \A y \in Nat : y < x => <<y, x>> \in R
  BY DEF OpToRel
<1> HIDE DEF R
<1>3. ASSUME NEW y \in T PROVE x <= y
  <2>1. ~(y < x)
    BY <1>1, <1>2, Zenon
  <2> QED
    BY <2>1
<1> QED
  BY <1>3

\* Min of a set of natural numbers is its least element.
LEMMA MinLeast ==
  ASSUME NEW T \in SUBSET Nat, T # {}
  PROVE  Min(T) \in T /\ \A y \in T : Min(T) <= y
BY Least DEF Min

\* Max of a bounded set of natural numbers is its greatest element.
LEMMA MaxGreatest ==
  ASSUME NEW T \in SUBSET Nat, T # {}, NEW b \in Nat, \A x \in T : x <= b
  PROVE  Max(T) \in T /\ \A y \in T : y <= Max(T)
<1> DEFINE U == {b - x : x \in T}
<1>1. PICK u \in U : \A w \in U : u <= w
  <2>1. \A x \in T : b - x \in Nat
    OBVIOUS
  <2>2. U \in SUBSET Nat /\ U # {}
    BY <2>1
  <2> QED
    BY <2>2, Least
<1>2. PICK x \in T : u = b - x
  OBVIOUS
<1>3. \A y \in T : x >= y
  <2> SUFFICES ASSUME NEW y \in T PROVE x >= y
    OBVIOUS
  <2>1. u <= b - y
    BY <1>1
  <2> QED
    BY <1>2, <2>1
<1>4. \E z \in T : \A y \in T : z >= y
  BY <1>3
<1>5. Max(T) \in T /\ \A y \in T : Max(T) >= y
  BY <1>4 DEF Max
<1>6. Max(T) \in Nat
  BY <1>5
<1> QED
  BY <1>5, <1>6

\* A sequence of the elements of a finite set, each once.
LEMMA SetToSeqElements ==
  ASSUME NEW S, IsFiniteSet(S)
  PROVE  /\ SetToSeq(S) \in Seq(S)
         /\ ToSet(SetToSeq(S)) = S
<1> DEFINE n == Cardinality(S)
<1>1. n \in Nat /\ ExistsBijection(1 .. n, S)
  BY FS_CardinalityType
<1>2. PICK f : f \in Bijection(1 .. n, S)
  BY <1>1 DEF ExistsBijection
<1>3. f \in [1 .. n -> S] /\ \A a, b \in 1 .. n : f[a] = f[b] => a = b
  BY <1>2 DEF Bijection, Injection, IsInjective
<1>4. f \in [1 .. n -> S] /\ IsInjective(f)
  BY <1>3 DEF IsInjective
<1>5. SetToSeq(S) \in [1 .. n -> S] /\ IsInjective(SetToSeq(S))
  BY <1>4 DEF SetToSeq
<1> DEFINE g == SetToSeq(S)
<1>6. g \in Injection(1 .. n, S)
  BY <1>5 DEF Injection, IsInjective
<1>7. Cardinality(1 .. n) = n
  BY <1>1, FS_Interval
<1>8. g \in Surjection(1 .. n, S)
  BY <1>6, <1>7, FS_Injection
<1>9. \A x \in S : \E i \in 1 .. n : g[i] = x
  BY <1>8 DEF Surjection
<1>10. ToSet(g) = S
  BY <1>5, <1>9 DEF ToSet
<1>11. g \in Seq(S)
  BY <1>1, <1>5
<1> QED
  BY <1>10, <1>11

\* Induction over an interval: a set that holds 0 and with each number the next.
LEMMA Induct ==
  ASSUME NEW n \in Nat, NEW T, 0 \in T, \A i \in 1 .. n : i - 1 \in T => i \in T
  PROVE  \A i \in 0 .. n : i \in T
<1> DEFINE Bad == {i \in 0 .. n : i \notin T}
<1> SUFFICES ASSUME Bad # {} PROVE FALSE
  OBVIOUS
<1>1. PICK i \in Bad : \A j \in Bad : i <= j
  BY Least, Bad \subseteq Nat
<1>2. i \in 1 .. n /\ i - 1 \in 0 .. n /\ i - 1 \notin Bad
  BY <1>1
<1> QED
  BY <1>1, <1>2

\* h[i] is what the first i elements of q make of b, one after the other.
Folds(h, F, b, q) == h[0] = b /\ \A i \in 1 .. Len(q) : h[i] = F[<<h[i - 1], q[i]>>]

\* Every fold by a function has its sequence of results.
LEMMA FoldExists ==
  ASSUME NEW C, NEW D, NEW F \in [C \X D -> C], NEW b \in C, NEW q \in Seq(D)
  PROVE  \E h \in [0 .. Len(q) -> C] : Folds(h, F, b, q)
<1> DEFINE P(k) == \E h \in [0 .. k -> C] : h[0] = b /\ \A i \in 1 .. k : h[i] = F[<<h[i - 1], q[i]>>]
           T == {k \in 0 .. Len(q) : P(k)}
<1>1. P(0)
  <2> DEFINE h == [i \in 0 .. 0 |-> b]
  <2>1. h \in [0 .. 0 -> C] /\ h[0] = b /\ 1 .. 0 = {}
    OBVIOUS
  <2> QED
    BY <2>1
<1>2. ASSUME NEW k \in 1 .. Len(q), P(k - 1) PROVE P(k)
  <2>1. PICK g \in [0 .. k - 1 -> C] : g[0] = b /\ \A i \in 1 .. k - 1 : g[i] = F[<<g[i - 1], q[i]>>]
    BY <1>2
  <2> DEFINE h == [i \in 0 .. k |-> IF i = k THEN F[<<g[k - 1], q[k]>>] ELSE g[i]]
  <2>2. q[k] \in D /\ g[k - 1] \in C
    BY <2>1
  <2>3. F[<<g[k - 1], q[k]>>] \in C
    BY <2>2
  <2>4. h \in [0 .. k -> C]
    BY <2>1, <2>3
  <2>5. h[0] = b /\ h[k] = F[<<h[k - 1], q[k]>>]
    BY <2>1
  <2>6. ASSUME NEW i \in 1 .. k PROVE h[i] = F[<<h[i - 1], q[i]>>]
    <3>1. CASE i = k
      BY <2>5, <3>1
    <3>2. CASE i # k
      <4>1. h[i] = g[i] /\ h[i - 1] = g[i - 1] /\ i \in 1 .. k - 1
        BY <3>2
      <4> QED
        BY <2>1, <4>1
    <3> QED
      BY <3>1, <3>2
  <2> HIDE DEF h
  <2> QED
    BY <2>4, <2>5, <2>6
<1> HIDE DEF P
<1>3. Len(q) \in Nat /\ 0 \in T /\ \A i \in 1 .. Len(q) : i - 1 \in T => i \in T
  BY <1>1, <1>2
<1>4. Len(q) \in T
  <2>1. \A i \in 0 .. Len(q) : i \in T
    BY <1>3, Induct
  <2> QED
    BY <1>3, <2>1
<1> QED
  BY <1>4 DEF P, Folds

\* The elements of a concatenation.
LEMMA ConcatElements ==
  ASSUME NEW S, NEW a \in Seq(S), NEW b \in Seq(S)
  PROVE  ToSet(a \o b) = ToSet(a) \cup ToSet(b)
<1>1. a \o b \in Seq(S) /\ Len(a \o b) = Len(a) + Len(b)
  OBVIOUS
<1>2. \A i \in DOMAIN (a \o b) : (a \o b)[i] \in ToSet(a) \cup ToSet(b)
  <2> SUFFICES ASSUME NEW i \in 1 .. Len(a) + Len(b) PROVE (a \o b)[i] \in ToSet(a) \cup ToSet(b)
    BY <1>1
  <2>1. CASE i <= Len(a)
    <3>1. (a \o b)[i] = a[i] /\ i \in DOMAIN a
      BY <2>1
    <3> QED
      BY <3>1 DEF ToSet
  <2>2. CASE ~(i <= Len(a))
    <3>1. (a \o b)[i] = b[i - Len(a)] /\ i - Len(a) \in DOMAIN b
      BY <2>2
    <3> QED
      BY <3>1 DEF ToSet
  <2> QED
    BY <2>1, <2>2
<1>3. \A i \in DOMAIN a : i \in DOMAIN (a \o b) /\ (a \o b)[i] = a[i]
  BY <1>1
<1>4. \A i \in DOMAIN b : i + Len(a) \in DOMAIN (a \o b) /\ (a \o b)[i + Len(a)] = b[i]
  BY <1>1
<1>5. ToSet(a \o b) \subseteq ToSet(a) \cup ToSet(b)
  BY <1>2 DEF ToSet
<1>6. ToSet(a) \subseteq ToSet(a \o b)
  BY <1>3 DEF ToSet
<1>7. ToSet(b) \subseteq ToSet(a \o b)
  BY <1>4 DEF ToSet
<1> QED
  BY <1>5, <1>6, <1>7

\* g solves the recursion of FlattenSeq for n parts.
Flattens(g, q, n) == \A i \in 1 .. n : g[i] = IF i = 1 THEN q[i] ELSE g[i - 1] \o q[i]

\* s is a sequence over S of the elements of the first k parts.
JoinsParts(s, S, q, k) == s \in Seq(S) /\ ToSet(s) = UNION {ToSet(q[i]) : i \in 1 .. k}

\* What the recursion of FlattenSeq holds after k parts, whatever g solves it.
LEMMA FlattenPrefix ==
  ASSUME NEW S, NEW n \in Nat, NEW q \in [1 .. n -> Seq(S)], NEW g, Flattens(g, q, n)
  PROVE  \A k \in 1 .. n : JoinsParts(g[k], S, q, k)
<1> DEFINE P(k) == /\ g[k] \in Seq(S)
                   /\ ToSet(g[k]) = UNION {ToSet(q[i]) : i \in 1 .. k}
           T == {k \in 0 .. n : k = 0 \/ P(k)}
<1>1. n # 0 => P(1)
  <2> SUFFICES ASSUME n # 0 PROVE P(1)
    OBVIOUS
  <2>1. g[1] = q[1] /\ q[1] \in Seq(S)
    BY DEF Flattens
  <2>2. {ToSet(q[i]) : i \in 1 .. 1} = {ToSet(q[1])}
    OBVIOUS
  <2> QED
    BY <2>1, <2>2
<1>2. ASSUME NEW k \in 2 .. n, P(k - 1) PROVE P(k)
  <2>11. k \in 1 .. n /\ k # 1
    OBVIOUS
  <2>12. g[k] = g[k - 1] \o q[k]
    BY <2>11 DEF Flattens
  <2>13. q[k] \in Seq(S)
    BY <2>11
  <2>1. g[k] = g[k - 1] \o q[k] /\ q[k] \in Seq(S) /\ g[k - 1] \in Seq(S)
    BY <1>2, <2>12, <2>13
  <2>2. ToSet(g[k]) = ToSet(g[k - 1]) \cup ToSet(q[k])
    BY <2>1, ConcatElements
  <2>3. 1 .. k = (1 .. k - 1) \cup {k}
    OBVIOUS
  <2>4. UNION {ToSet(q[i]) : i \in 1 .. k} = (UNION {ToSet(q[i]) : i \in 1 .. k - 1}) \cup ToSet(q[k])
    BY <2>3
  <2>5. g[k] \in Seq(S)
    BY <2>1
  <2> QED
    BY <1>2, <2>2, <2>4, <2>5
<1> HIDE DEF P
<1>3. 0 \in T /\ \A i \in 1 .. n : i - 1 \in T => i \in T
  <2> SUFFICES ASSUME NEW i \in 1 .. n, i - 1 \in T PROVE i \in T
    OBVIOUS
  <2>1. CASE i = 1
    BY <1>1, <2>1
  <2>2. CASE i # 1
    BY <1>2, <2>2
  <2> QED
    BY <2>1, <2>2
<1>4. \A k \in 1 .. n : P(k)
  <2>1. \A i \in 0 .. n : i \in T
    BY <1>3, Induct
  <2> QED
    BY <2>1
<1> QED
  BY <1>4 DEF P, JoinsParts

\* The recursion of FlattenSeq has a solution.
LEMMA FlattenExists ==
  ASSUME NEW S, NEW n \in Nat, NEW q \in [1 .. n -> Seq(S)]
  PROVE  \E g : g = [i \in 1 .. n |-> IF i = 1 THEN q[i] ELSE g[i - 1] \o q[i]]
<1> DEFINE F == [p \in Seq(S) \X Seq(S) |-> p[1] \o p[2]]
<1>1. F \in [Seq(S) \X Seq(S) -> Seq(S)] /\ <<>> \in Seq(S)
  OBVIOUS
<1>2. \A a, b \in Seq(S) : F[<<a, b>>] = a \o b
  OBVIOUS
<1> HIDE DEF F
<1>3. q \in Seq(Seq(S)) /\ Len(q) = n
  OBVIOUS
<1>11. \E h \in [0 .. Len(q) -> Seq(S)] : Folds(h, F, <<>>, q)
  <2> DEFINE C == Seq(S)
  <2>1. F \in [C \X C -> C] /\ <<>> \in C /\ q \in Seq(C)
    BY <1>1, <1>3
  <2> HIDE DEF C
  <2>2. \E h \in [0 .. Len(q) -> C] : Folds(h, F, <<>>, q)
    BY <2>1, FoldExists
  <2> QED
    BY <2>2 DEF C
<1>4. PICK h \in [0 .. n -> Seq(S)] : h[0] = <<>> /\ \A i \in 1 .. n : h[i] = F[<<h[i - 1], q[i]>>]
  BY <1>3, <1>11 DEF Folds
<1>12. \A s \in Seq(S) : <<>> \o s = s
  OBVIOUS
<1> DEFINE g == [i \in 1 .. n |-> h[i]]
<1>5. ASSUME NEW i \in 1 .. n PROVE h[i] = IF i = 1 THEN q[i] ELSE g[i - 1] \o q[i]
  <2>11. i - 1 \in 0 .. n
    OBVIOUS
  <2>1. q[i] \in Seq(S) /\ h[i - 1] \in Seq(S)
    BY <1>4, <2>11, Zenon
  <2>2. h[i] = h[i - 1] \o q[i]
    BY <1>2, <1>4, <2>1
  <2>3. i = 1 => h[i - 1] = <<>>
    BY <1>4
  <2>4. i = 1 => h[i] = q[i]
    BY <1>12, <2>1, <2>2, <2>3, Zenon
  <2>5. i # 1 => g[i - 1] = h[i - 1]
    BY <1>4
  <2> QED
    BY <2>2, <2>4, <2>5
<1>6. g = [i \in 1 .. n |-> IF i = 1 THEN q[i] ELSE g[i - 1] \o q[i]]
  BY <1>5, Zenon
<1> QED
  BY <1>6, Zenon

\* FlattenSeq: the elements are those of the parts.
LEMMA FlattenElements ==
  ASSUME NEW S, NEW q \in Seq(Seq(S))
  PROVE  /\ FlattenSeq(q) \in Seq(S)
         /\ ToSet(FlattenSeq(q)) = UNION {ToSet(q[i]) : i \in DOMAIN q}
<1>1. CASE Len(q) = 0
  <2>1. FlattenSeq(q) = q /\ DOMAIN q = {} /\ q = <<>>
    BY <1>1 DEF FlattenSeq
  <2> QED
    BY <2>1 DEF ToSet
<1>2. CASE Len(q) # 0
  <2> DEFINE g == CHOOSE x : x = [i \in 1 .. Len(q) |-> IF i = 1 THEN q[i] ELSE x[i - 1] \o q[i]]
  <2>1. Len(q) \in Nat /\ q \in [1 .. Len(q) -> Seq(S)] /\ DOMAIN q = 1 .. Len(q)
    OBVIOUS
  <2>2. FlattenSeq(q) = g[Len(q)]
    BY <1>2 DEF FlattenSeq
  <2>3. g = [i \in 1 .. Len(q) |-> IF i = 1 THEN q[i] ELSE g[i - 1] \o q[i]]
    BY <2>1, FlattenExists, Zenon
  <2> HIDE DEF g
  <2>4. Flattens(g, q, Len(q))
    BY <2>3, Zenon DEF Flattens
  <2>5. Len(q) \in 1 .. Len(q)
    BY <1>2, <2>1
  <2>6. JoinsParts(g[Len(q)], S, q, Len(q))
    BY <2>1, <2>4, <2>5, FlattenPrefix
  <2> QED
    BY <2>1, <2>2, <2>6, Zenon DEF JoinsParts
<1> QED
  BY <1>1, <1>2

\* g solves the recursion of FoldLeft, which takes the last index first, for n elements.
FoldsSets(g, F, b, q, n) ==
  \A s \in SUBSET (1 .. n) : g[s] = IF s = {} THEN b ELSE F[<<g[s \ {Max(s)}], q[Max(s)]>>]

\* The recursion of FoldLeft has a solution.
LEMMA FoldSetsExists ==
  ASSUME NEW C, NEW D, NEW F \in [C \X D -> C], NEW b \in C, NEW q \in Seq(D)
  PROVE  \E g \in [SUBSET (1 .. Len(q)) -> C] : FoldsSets(g, F, b, q, Len(q))
<1> DEFINE P(k) == \E g \in [SUBSET (1 .. k) -> C] : FoldsSets(g, F, b, q, k)
           T == {k \in 0 .. Len(q) : P(k)}
<1>1. P(0)
  <2> DEFINE g == [s \in SUBSET (1 .. 0) |-> b]
  <2>1. g \in [SUBSET (1 .. 0) -> C] /\ \A s \in SUBSET (1 .. 0) : s = {} /\ g[s] = b
    OBVIOUS
  <2> HIDE DEF g
  <2> QED
    BY <2>1 DEF FoldsSets
<1>2. ASSUME NEW k \in 1 .. Len(q), P(k - 1) PROVE P(k)
  <2>1. PICK g \in [SUBSET (1 .. k - 1) -> C] : FoldsSets(g, F, b, q, k - 1)
    BY <1>2
  <2> DEFINE h == [s \in SUBSET (1 .. k) |-> IF k \in s THEN F[<<g[s \ {k}], q[k]>>] ELSE g[s]]
  <2>2. q[k] \in D
    OBVIOUS
  <2>3. ASSUME NEW s \in SUBSET (1 .. k) PROVE s \ {k} \in SUBSET (1 .. k - 1)
    OBVIOUS
  <2>4. ASSUME NEW s \in SUBSET (1 .. k), k \notin s PROVE s \in SUBSET (1 .. k - 1)
    BY <2>4
  <2>5. h \in [SUBSET (1 .. k) -> C]
    <3>1. ASSUME NEW s \in SUBSET (1 .. k)
          PROVE  (IF k \in s THEN F[<<g[s \ {k}], q[k]>>] ELSE g[s]) \in C
      BY <2>1, <2>2, <2>3, <2>4
    <3> QED
      BY <3>1
  <2>6. ASSUME NEW s \in SUBSET (1 .. k)
        PROVE  h[s] = IF s = {} THEN b ELSE F[<<h[s \ {Max(s)}], q[Max(s)]>>]
    <3>1. CASE k \in s
      <4>1. Max(s) \in s /\ \A y \in s : y <= Max(s)
        BY <3>1, MaxGreatest, s \in SUBSET Nat, k \in Nat, \A x \in s : x <= k
      <4>2. Max(s) = k
        <5>1. Max(s) \in 1 .. k /\ k <= Max(s)
          BY <3>1, <4>1
        <5> QED
          BY <5>1
      <4>3. s \ {k} \in SUBSET (1 .. k) /\ k \notin s \ {k}
        OBVIOUS
      <4>4. h[s] = F[<<g[s \ {k}], q[k]>>] /\ h[s \ {k}] = g[s \ {k}]
        BY <3>1, <4>3
      <4> QED
        BY <3>1, <4>2, <4>4
    <3>2. CASE k \notin s
      <4>1. s \in SUBSET (1 .. k - 1) /\ h[s] = g[s]
        BY <2>4, <3>2
      <4>2. g[s] = IF s = {} THEN b ELSE F[<<g[s \ {Max(s)}], q[Max(s)]>>]
        BY <2>1, <4>1 DEF FoldsSets
      <4>3. h[s \ {Max(s)}] = g[s \ {Max(s)}]
        BY <3>2
      <4> QED
        BY <4>1, <4>2, <4>3
    <3> QED
      BY <3>1, <3>2
  <2> HIDE DEF h
  <2>7. FoldsSets(h, F, b, q, k)
    BY <2>6 DEF FoldsSets
  <2> QED
    BY <2>5, <2>7
<1> HIDE DEF P
<1>3. Len(q) \in Nat /\ 0 \in T /\ \A i \in 1 .. Len(q) : i - 1 \in T => i \in T
  BY <1>1, <1>2
<1>4. Len(q) \in T
  <2>1. \A i \in 0 .. Len(q) : i \in T
    BY <1>3, Induct
  <2> QED
    BY <1>3, <2>1
<1> QED
  BY <1>4 DEF P

\* The first i indices: the last one is i, and without it the first i - 1 are left.
LEMMA LastIndex ==
  ASSUME NEW i \in Nat \ {0}
  PROVE  Max(1 .. i) = i /\ (1 .. i) \ {i} = 1 .. i - 1
<1>1. Max(1 .. i) \in 1 .. i /\ \A y \in 1 .. i : y <= Max(1 .. i)
  BY MaxGreatest, 1 .. i \in SUBSET Nat, 1 .. i # {}, i \in Nat, \A x \in 1 .. i : x <= i
<1>2. Max(1 .. i) = i
  BY <1>1
<1>3. (1 .. i) \ {i} = 1 .. i - 1
  OBVIOUS
<1> QED
  BY <1>2, <1>3

\* An index of a set of indices.
LEMMA MaxIsIndex ==
  ASSUME NEW n \in Nat, NEW s \in SUBSET (1 .. n), s # {}
  PROVE  Max(s) \in 1 .. n /\ s \ {Max(s)} \in SUBSET (1 .. n)
<1>1. Max(s) \in s
  BY MaxGreatest, s \in SUBSET Nat, \A x \in s : x <= n
<1> QED
  BY <1>1
=============================================================================
